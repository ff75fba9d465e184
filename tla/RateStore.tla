------------------------------ MODULE RateStore ------------------------------
(***************************************************************************)
(* The store behind the interest-rate API (internal/ratestore): the loop   *)
(* that fetches every source, replaces its observations in the book, and   *)
(* installs a new snapshot.                                                *)
(*                                                                         *)
(* The loop is Refresher's with two differences: one goroutine runs it,    *)
(* and the snapshot is installed in the critical section that changes the  *)
(* book.  Readers take the snapshot under the lock and change nothing.     *)
(* That the loop converges and ends is checked of Refresher, not again.    *)
(***************************************************************************)
EXTENDS RateBook

CONSTANTS
  Lists,      \* Lists[s]: the lists of observations source s may publish
  Flaky       \* the sources that may fail

ASSUME RateStoreAssumption ==
  /\ \A s \in Source : Lists[s] \subseteq Seq(Observation)
  /\ Flaky \subseteq Source

Books == {b \in [Source -> {<<>>} \cup UNION {Lists[s] : s \in Source}] :
            \A s \in Source : b[s] \in Lists[s] \cup {<<>>}}

VARIABLES
  world,      \* world[s]: the list source s publishes now
  up,         \* the sources that answer at all
  book,       \* the book: the observations of each source     (under s.mu)
  snap,       \* the snapshot readers are given                (under s.mu)
  status,     \* per source: the last fetch failed, and how many observations
              \* the last good one brought                     (under s.mu)
  pc,         \* where the goroutine inside Run is
  flying,     \* the sources whose fetch is still running
  results,    \* the results channel
  cancelled   \* Run's ctx is done

vars == <<world, up, book, snap, status, pc, flying, results, cancelled>>

storeVars == <<book, snap, status>>

\* New: the snapshot of an empty book, and nothing runs until Run is called.
Init ==
  /\ world \in {b \in Books : \A s \in Source : b[s] \in Lists[s]}
  /\ up = Source
  /\ book = [s \in Source |-> <<>>]
  /\ snap \in Materialize(book)
  /\ status = [s \in Source |-> [failed |-> FALSE, observations |-> 0]]
  /\ pc = "start"
  /\ flying = {} /\ results = {}
  /\ cancelled = FALSE

(***************************************************************************)
(* The sources.                                                            *)
(***************************************************************************)
Publish(s, list) ==
  /\ list # world[s]
  /\ world' = [world EXCEPT ![s] = list]
  /\ UNCHANGED <<up, storeVars, pc, flying, results, cancelled>>

Toggle(s) ==
  /\ s \in Flaky
  /\ up' = IF s \in up THEN up \ {s} ELSE up \cup {s}
  /\ UNCHANGED <<world, storeVars, pc, flying, results, cancelled>>

(***************************************************************************)
(* refresh.                                                                *)
(***************************************************************************)
\* Run refreshes once, and then again whenever the ticker ticks.
Begin ==
  /\ pc \in {"start", "wait"}
  /\ flying' = Source
  /\ pc' = "collect"
  /\ UNCHANGED <<world, up, storeVars, results, cancelled>>

\* A source answers, or its fetch fails, times out or sees the ctx done.
FetchEnd(s) ==
  /\ s \in flying
  /\ flying' = flying \ {s}
  /\ \/ /\ s \in up /\ ~cancelled
        /\ results' = results \cup {[source |-> s, err |-> FALSE, obs |-> world[s]]}
     \/ /\ s \notin up \/ cancelled
        /\ results' = results \cup {[source |-> s, err |-> TRUE, obs |-> <<>>]}
  /\ UNCHANGED <<world, up, storeVars, pc, cancelled>>

\* A mutant of Replaced: a failed fetch clears its source.
ReplacedOnError(r) == [book EXCEPT ![r.source] = r.obs]

\* Book.Replace, for a successful fetch only.
Replaced(r) == IF r.err THEN book ELSE [book EXCEPT ![r.source] = r.obs]

\* One turn of the collecting loop, all of it under s.mu.  A failed fetch leaves
\* the book alone and the snapshot is made anew all the same.
Apply ==
  /\ pc = "collect"
  /\ \E r \in results :
       /\ results' = results \ {r}
       /\ book' = Replaced(r)
       /\ status' = [status EXCEPT ![r.source] =
                       IF r.err THEN [@ EXCEPT !.failed = TRUE]
                       ELSE [failed |-> FALSE, observations |-> Len(r.obs)]]
  /\ snap' \in Materialize(book')
  /\ UNCHANGED <<world, up, pc, flying, cancelled>>

\* refresh has taken one result per source.
Return ==
  /\ pc = "collect" /\ flying = {} /\ results = {}
  /\ pc' = "wait"
  /\ UNCHANGED <<world, up, storeVars, flying, results, cancelled>>

Cancel ==
  /\ ~cancelled /\ cancelled' = TRUE
  /\ UNCHANGED <<world, up, storeVars, pc, flying, results>>

\* Run's select takes ctx.Done(), only after a first refresh.
Stop ==
  /\ pc = "wait" /\ cancelled
  /\ pc' = "stopped"
  /\ UNCHANGED <<world, up, storeVars, flying, results, cancelled>>

Next ==
  \/ \E s \in Source : \/ Toggle(s) \/ FetchEnd(s)
                       \/ \E list \in Lists[s] : Publish(s, list)
  \/ Begin \/ Apply \/ Return \/ Cancel \/ Stop

Spec == Init /\ [][Next]_vars

(***************************************************************************)
(* Properties.                                                             *)
(***************************************************************************)

\* The sources a reader finds behind series id.
Quoted(id) == IF id \in DOMAIN snap THEN DOMAIN snap[id].latest ELSE {}

\* Every variable has its type; outside a refresh nothing is in flight, and
\* whatever a reader can be given is a level inside the published band
\* (rates.go, MaxLevel), in the headline, the quotes and the history.
TypeOK ==
  /\ book \in Books
  /\ \A s \in Source : world[s] \in Lists[s]
  /\ up \in SUBSET Source /\ flying \in SUBSET Source
  /\ status \in [Source -> [failed : BOOLEAN, observations : Nat]]
  /\ pc \in {"start", "collect", "wait", "stopped"}
  /\ pc # "collect" => flying = {} /\ results = {}
  /\ \A id \in DOMAIN snap :
       \A v \in {snap[id].value} \cup {p.value : p \in snap[id].history}
                  \cup {snap[id].latest[s].value : s \in DOMAIN snap[id].latest} :
         v >= -MaxLevel /\ v <= MaxLevel

\* "The headline latest value (from the most authoritative, then freshest
\* source)" (rates.go, Series), in whatever order the map of sources is walked:
\* no quote behind a series outranks its headline, or is fresher at equal rank.
HeadlineIsBest ==
  \A id \in DOMAIN snap : LET v == snap[id] IN
    \A s \in DOMAIN v.latest :
      /\ Rank[s] <= Rank[v.source]
      /\ Rank[s] = Rank[v.source] => v.latest[s].date <= v.date

\* The headline, the quote of its source and the last point of the history come
\* from three loops over the same observations and must be one observation,
\* though a list may hold several for a day and several for an instant.
HistoryEndsAtTheHeadline ==
  \A id \in DOMAIN snap : LET v == snap[id] IN
    /\ [date |-> v.date, value |-> v.value] \in v.history
    /\ \A p \in v.history : p.date <= v.date
    /\ \A p, q \in v.history : Day(p.date) = Day(q.date) => p = q
    /\ v.latest[v.source].value = v.value

\* "A failing source keeps its previous observations" (store.go, refresh), as
\* readers see it: a source leaves a series only when its latest fetch succeeded
\* and brought nothing usable for it.
NeverLosesAQuote ==
  [][\A id \in Series : \A s \in Quoted(id) :
       s \notin Quoted(id)' => ~status'[s].failed /\ Admitted(book'[s], id) = <<>>]_vars
=============================================================================
