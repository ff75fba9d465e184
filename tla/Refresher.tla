------------------------------ MODULE Refresher ------------------------------
(***************************************************************************)
(* The Engine (engine.go) and the Refresher that feeds it (refresh.go).    *)
(*                                                                         *)
(* Refresh starts one goroutine per configured source, then takes their    *)
(* results off one channel.  Each result is applied to the edge graph and  *)
(* to the status table, and the graph is materialized, under r.mu; the     *)
(* snapshot is loaded into the Engine after r.mu has been released.        *)
(* Engine.Load installs the snapshot under e.mu and, in a further step,    *)
(* closes the `ready' channel.  Any number of goroutines may do this at    *)
(* once: both types say their methods are safe for concurrent use.         *)
(*                                                                         *)
(* A source's list of edges is abstracted to a `table': a number that says *)
(* which list it is, 0 being a list without one usable edge.  A snapshot   *)
(* is the set of <<name, table>> pairs it was materialized from; it has    *)
(* currencies iff it is not empty.                                         *)
(*                                                                         *)
(* The constants say which positions, tables and goroutines there may be;  *)
(* `setup' which there are: how this Refresher is configured, and who uses *)
(* it.  It never changes.                                                  *)
(***************************************************************************)
EXTENDS Integers, FiniteSets

CONSTANTS
  Slots,      \* the positions of RefreshOptions.Sources
  Name,       \* Name[i]: what Sources[i].Name() answers; two may be equal
  Published,  \* the tables a provider may publish
  Callers,    \* goroutines that call Refresh, each on its own schedule
  Runners,    \* the callers among them that are inside Run
  Hosts,      \* goroutines that each Load one snapshot of the host's own
  HostSnaps,  \* the snapshots to choose from
  Setups      \* the setups: which [slots, published, users] there are

Names == {Name[i] : i \in Slots}

Tables == Published \cup {0}

Snapshots == SUBSET (Names \X Tables)

Loaders == Callers \cup Hosts

ASSUME RefresherAssumption ==
  /\ Name = [i \in Slots |-> Name[i]]
  /\ Published \subseteq Nat
  /\ Runners \subseteq Callers
  /\ Callers \cap Hosts = {}
  /\ HostSnaps \subseteq Snapshots
  /\ Setups \subseteq [slots : SUBSET Slots, published : SUBSET Published, users : SUBSET Loaders]

VARIABLES
  setup,
  world,      \* world[n]: the table provider n publishes now
  up,         \* the providers that answer at all
  g,          \* Refresher.g: name -> table               (guarded by r.mu)
  status,     \* Refresher.status: name -> [failed, edges] (guarded by r.mu)
  snap,       \* Engine.snap                               (guarded by e.mu)
  ready,      \* Engine.ready has been closed
  pc,         \* where each goroutine is
  flying,     \* per caller: the slots whose fetch is still running
  results,    \* per caller: the results channel
  ok,         \* per caller: Refresh's count `ok' is not zero
  mat,        \* per goroutine: the snapshot it is about to Load
  ret,        \* per caller: what its last Refresh returned
  cancelled,  \* the callers whose ctx is done
  stopped     \* the runners whose Run has returned

vars == <<setup, world, up, g, status, snap, ready, pc, flying, results, ok, mat,
          ret, cancelled, stopped>>

envVars    == <<setup, world, up>>
callVars   == <<flying, results, ok, ret>>
engineVars == <<snap, ready>>
cancelVars == <<cancelled, stopped>>

\* The providers there are.
Asked == {Name[i] : i \in setup.slots}

Result == [slot : Slots, err : BOOLEAN, edges : Tables]

(***************************************************************************)
(* The pure parts.                                                         *)
(***************************************************************************)

\* fx.Graph.Materialize, as far as readiness and loss can tell: which tables
\* with a usable edge went in.
Materialize(edges) ==
  {<<n, edges[n]>> : n \in {m \in DOMAIN edges : edges[m] # 0}}

\* A mutant of Replaced: a failed fetch clears its source.
ReplacedOnError(edges, n, res) ==
  [edges EXCEPT ![n] = IF res.err THEN 0 ELSE res.edges]

\* Graph.Replace, called for a successful fetch only: a failed one leaves the
\* previous edges of its source alone.
Replaced(edges, n, res) ==
  IF res.err THEN edges ELSE [edges EXCEPT ![n] = res.edges]

\* A mutant of Noted: the edge count is overwritten by a failure.
NotedAlways(st, n, res) == [st EXCEPT ![n] = [failed |-> res.err, edges |-> res.edges]]

\* The bookkeeping on Status: a failure sets LastError and nothing else, a
\* success clears it and records the list.
Noted(st, n, res) ==
  [st EXCEPT ![n] = IF res.err THEN [@ EXCEPT !.failed = TRUE]
                    ELSE [failed |-> FALSE, edges |-> res.edges]]

(***************************************************************************)
(* Initial state: NewEngine and NewRefresher.  The engine starts with the  *)
(* snapshot of an empty graph, and nothing is running.                     *)
(***************************************************************************)
Init ==
  /\ setup \in Setups
  /\ world \in [Names -> Tables]
  /\ \A n \in Names : IF n \in Asked THEN world[n] \in setup.published ELSE world[n] = 0
  /\ up \in SUBSET Asked
  /\ g = [n \in Names |-> 0]
  /\ status = [n \in Names |-> [failed |-> FALSE, edges |-> 0]]
  /\ snap = {}
  /\ ready = FALSE
  /\ pc = [c \in Loaders |-> "idle"]
  /\ flying = [c \in Callers |-> {}]
  /\ results = [c \in Callers |-> {}]
  /\ ok = [c \in Callers |-> FALSE]
  /\ mat = [c \in Loaders |-> {}]
  /\ ret = [c \in Callers |-> "none"]
  /\ cancelled = {}
  /\ stopped = {}

(***************************************************************************)
(* The providers.                                                          *)
(***************************************************************************)
Publish(n, t) ==
  /\ n \in Asked /\ t \in setup.published
  /\ world[n] # t
  /\ world' = [world EXCEPT ![n] = t]
  /\ UNCHANGED <<setup, up, g, status, engineVars, pc, mat, callVars, cancelVars>>

Toggle(n) ==
  /\ n \in Asked
  /\ up' = IF n \in up THEN up \ {n} ELSE up \cup {n}
  /\ UNCHANGED <<setup, world, g, status, engineVars, pc, mat, callVars, cancelVars>>

(***************************************************************************)
(* Refresh.                                                                *)
(***************************************************************************)

\* Refresh is entered: one goroutine per source.  Run calls it at once and
\* then at every tick until it has returned.
Start(c) ==
  /\ c \in setup.users
  /\ pc[c] = "idle"
  /\ c \notin stopped
  /\ IF setup.slots = {} THEN /\ ret' = [ret EXCEPT ![c] = "error"]   \* ErrNoSources
                        /\ UNCHANGED <<pc, flying, ok>>
     ELSE /\ pc' = [pc EXCEPT ![c] = "collect"]
          /\ flying' = [flying EXCEPT ![c] = setup.slots]
          /\ ok' = [ok EXCEPT ![c] = FALSE]
          /\ ret' = [ret EXCEPT ![c] = "none"]
  /\ UNCHANGED <<envVars, g, status, engineVars, results, mat, cancelVars>>

\* The fetch goroutine of slot i ends and sends its result: the table the
\* provider publishes at that moment, or an error when the provider does not
\* answer within FetchTimeout or the caller's ctx is done.
FetchEnd(c, i) ==
  /\ i \in flying[c]
  /\ LET n == Name[i]
         res == IF n \in up /\ c \notin cancelled
                THEN [slot |-> i, err |-> FALSE, edges |-> world[n]]
                ELSE [slot |-> i, err |-> TRUE, edges |-> 0]
     IN results' = [results EXCEPT ![c] = @ \cup {res}]
  /\ flying' = [flying EXCEPT ![c] = @ \ {i}]
  /\ UNCHANGED <<envVars, g, status, engineVars, pc, ok, mat, ret, cancelVars>>

\* One turn of the collecting loop up to r.mu.Unlock().
Apply(c) ==
  /\ pc[c] = "collect"
  /\ \E res \in results[c] :
       LET n == Name[res.slot] IN
       /\ results' = [results EXCEPT ![c] = @ \ {res}]
       /\ g' = Replaced(g, n, res)
       /\ status' = Noted(status, n, res)
       /\ ok' = [ok EXCEPT ![c] = @ \/ ~res.err]
       /\ mat' = [mat EXCEPT ![c] = Materialize(g')]
  /\ pc' = [pc EXCEPT ![c] = "load"]
  /\ UNCHANGED <<envVars, engineVars, flying, ret, cancelVars>>

AfterLoad(c) == IF c \in Hosts THEN "done" ELSE "collect"

\* A mutant of Installed: the engine keeps the first snapshot with rates.
InstalledFirst(s) == IF snap = {} THEN s ELSE snap

\* What Load leaves in e.snap.
Installed(s) == s

\* len(snap.Currencies) > 0.
MakesReady(s) == s # {}

\* Engine.Load, up to e.mu.Unlock().
Install(c) ==
  /\ pc[c] = "load"
  /\ snap' = Installed(mat[c])
  /\ pc' = [pc EXCEPT ![c] = IF MakesReady(mat[c]) THEN "latch" ELSE AfterLoad(c)]
  /\ UNCHANGED <<envVars, g, status, ready, mat, callVars, cancelVars>>

\* A mutant of Latched: readiness is set only if the engine is still empty.
LatchedIfEmpty == ready \/ snap = {}

\* readyOnce.Do(close(e.ready)): the channel is closed and stays closed.
Latched == TRUE

\* The rest of Engine.Load, for a snapshot with at least one currency.
Latch(c) ==
  /\ pc[c] = "latch"
  /\ ready' = Latched
  /\ pc' = [pc EXCEPT ![c] = AfterLoad(c)]
  /\ UNCHANGED <<envVars, g, status, snap, mat, callVars, cancelVars>>

\* A mutant of AllTaken: Refresh returns with its first usable result.
FirstTaken(c) == ok[c] \/ (flying[c] = {} /\ results[c] = {})

\* The loop over r.srcs has taken one result per source.
AllTaken(c) == flying[c] = {} /\ results[c] = {}

\* Refresh returns once it has taken one result per source.
Return(c) ==
  /\ pc[c] = "collect"
  /\ AllTaken(c)
  /\ ret' = [ret EXCEPT ![c] = IF ok[c] THEN "nil" ELSE "error"]
  /\ pc' = [pc EXCEPT ![c] = "idle"]
  /\ UNCHANGED <<envVars, g, status, engineVars, flying, results, ok, mat, cancelVars>>

(***************************************************************************)
(* Cancellation of a Run, and a host's own Engine.Load.                    *)
(***************************************************************************)
Cancel(c) ==
  /\ c \in (Runners \cap setup.users) \ cancelled
  /\ cancelled' = cancelled \cup {c}
  /\ UNCHANGED <<envVars, g, status, engineVars, pc, mat, callVars, stopped>>

\* A mutant of CtxDone: the loop looks at ctx only after a good refresh.
CtxDoneAfterOk(c) == c \in cancelled /\ ret[c] = "nil"

CtxDone(c) == c \in cancelled

\* Run's select takes ctx.Done(), after a first Refresh that looks at nothing.
\* With a tick pending too Go picks either.
Stop(c) ==
  /\ CtxDone(c)
  /\ pc[c] = "idle" /\ ret[c] # "none" /\ c \notin stopped
  /\ stopped' = stopped \cup {c}
  /\ UNCHANGED <<envVars, g, status, engineVars, pc, mat, callVars, cancelled>>

HostLoad(h, s) ==
  /\ h \in setup.users
  /\ pc[h] = "idle"
  /\ mat' = [mat EXCEPT ![h] = s]
  /\ pc' = [pc EXCEPT ![h] = "load"]
  /\ UNCHANGED <<envVars, g, status, engineVars, callVars, cancelVars>>

Next ==
  \/ \E n \in Names : Toggle(n) \/ \E t \in Published : Publish(n, t)
  \/ \E c \in Callers : \/ Start(c) \/ Apply(c) \/ Return(c)
                        \/ Cancel(c) \/ Stop(c)
                        \/ \E i \in Slots : FetchEnd(c, i)
  \/ \E c \in Loaders : Install(c) \/ Latch(c)
  \/ \E h \in Hosts, s \in HostSnaps : HostLoad(h, s)

(***************************************************************************)
(* Fairness.  A goroutine that can run is scheduled, a fetch ends within   *)
(* its timeout, and the ticker keeps ticking for a Run.  Go's select picks *)
(* at random among the cases that are ready, so a done ctx is not passed   *)
(* over for ever.  Nothing makes an ordinary caller call Refresh again.    *)
(***************************************************************************)
GoesOn(c) == Install(c) \/ Latch(c) \/ (c \in Callers /\ (Apply(c) \/ Return(c)))

Fairness ==
  /\ \A c \in Loaders : WF_vars(GoesOn(c))
  /\ \A c \in Callers : WF_vars(\E i \in Slots : FetchEnd(c, i))
  /\ \A c \in Runners : WF_vars(Start(c)) /\ SF_vars(Stop(c))

Spec == Init /\ [][Next]_vars

FairSpec == Spec /\ Fairness

(***************************************************************************)
(* Properties.                                                             *)
(***************************************************************************)

\* Every variable has its type, and a goroutine that is not refreshing has
\* no fetch in flight and no result waiting.
TypeOK ==
  /\ setup \in Setups
  /\ world \in [Names -> Tables]
  /\ \A n \in Asked : world[n] \in setup.published
  /\ up \in SUBSET Asked
  /\ g \in [Names -> Tables]
  /\ status \in [Names -> [failed : BOOLEAN, edges : Tables]]
  /\ snap \in Snapshots
  /\ ready \in BOOLEAN
  /\ pc \in [Loaders -> {"idle", "collect", "load", "latch", "done"}]
  /\ flying \in [Callers -> SUBSET setup.slots]
  /\ results \in [Callers -> SUBSET Result]
  /\ ok \in [Callers -> BOOLEAN]
  /\ mat \in [Loaders -> Snapshots]
  /\ ret \in [Callers -> {"none", "nil", "error"}]
  /\ cancelled \in SUBSET Runners
  /\ stopped \in SUBSET cancelled
  /\ \A c \in Callers : pc[c] = "idle" => flying[c] = {} /\ results[c] = {}
  /\ \A c \in Loaders : c \notin setup.users => pc[c] = "idle"

\* Status tells the truth about the graph, whatever the callers' results do to
\* each other and however many of them share a name: the edges it reports for
\* a source are the ones its contribution to the graph holds.
StatusMatchesGraph == \A n \in Names : status[n].edges = g[n]

\* "Do I have rates?" (refresh.go, Refresh): where every list a provider may
\* answer with has a usable edge, a Refresh that has returned nil has made the
\* engine ready, so a Ready call after it does not block.
OkMeansReady ==
  0 \notin setup.published => \A c \in Callers : ret[c] = "nil" => ready

\* "When it returns, the Engine holds everything this refresh could get"
\* (refresh.go, Refresh): with no call under way, what the engine answers from
\* is what the refreshes have put in the graph.
EngineHoldsWhatRefreshGot ==
  (\A c \in Callers : pc[c] = "idle") => snap = Materialize(g)

\* One goroutine uses the Refresher, and no host loads snapshots of its own.
Alone == \E c \in Callers : setup.users = {c}

\* That promise is kept to whoever is alone.
AloneEngineHolds == Alone => EngineHoldsWhatRefreshGot

\* "Ready blocks until the Engine holds a snapshot with at least one currency
\* in it" (refresh.go, Ready): once Ready lets a caller through, it finds rates.
ReadyMeansRates == ready => snap # {}

\* "A source that fails keeps its previous edges" (refresh.go, Refresh), as the
\* engine's readers see it: a source the engine answers from leaves it only when
\* that source's latest fetch succeeded and returned nothing.  (With others there, an
\* older snapshot may be loaded after a newer one.)
AloneNeverLosesASource ==
  [][Alone => \A n \in Names :
       /\ \E t \in Tables : <<n, t>> \in snap
       /\ ~\E t \in Tables : <<n, t>> \in snap'
       => ~status[n].failed /\ status[n].edges = 0]_vars

\* A Run that is not cancelled heals: when a provider settles on a table, the
\* engine comes to answer from it and from then on does, whatever else fails,
\* and whatever concurrent refreshes overwrote before.
RunConverges ==
  \A c \in Runners : \A n \in Names : \A t \in Tables \ {0} :
    (<>[](n \in up /\ world[n] = t) /\ [](c \in setup.users \ cancelled))
      => <>[](<<n, t>> \in snap)

\* A cancelled Run returns.
RunStops == \A c \in Runners : c \in cancelled ~> c \in stopped
=============================================================================
