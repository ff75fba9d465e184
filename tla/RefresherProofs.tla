--------------------------- MODULE RefresherProofs ---------------------------
(***************************************************************************)
(* Theorems about Refresher, for any sources, callers, hosts and setups.   *)
(***************************************************************************)
EXTENDS Refresher, TLAPS

LEMMA ReplacedType ==
  ASSUME NEW e \in [Names -> Tables], NEW n \in Names, NEW res \in Result
  PROVE  Replaced(e, n, res) \in [Names -> Tables]
  BY DEF Replaced, Result

LEMMA NotedType ==
  ASSUME NEW st \in [Names -> [failed : BOOLEAN, edges : Tables]],
         NEW n \in Names, NEW res \in Result
  PROVE  Noted(st, n, res) \in [Names -> [failed : BOOLEAN, edges : Tables]]
  BY DEF Noted, Result

\* What the assumption says of a setup, and of the providers it asks.
LEMMA SetupType ==
  ASSUME setup \in Setups
  PROVE  /\ setup.slots \subseteq Slots /\ setup.users \subseteq Loaders
         /\ setup.published \subseteq Published /\ Published \subseteq Tables
         /\ Asked \subseteq Names
         /\ \A i \in setup.slots : Name[i] \in Asked
<1>1. setup \in [slots : SUBSET Slots, published : SUBSET Published, users : SUBSET Loaders]
  BY RefresherAssumption
<1> QED
  BY <1>1 DEF Asked, Names, Tables

LEMMA MaterializeType ==
  ASSUME NEW e \in [Names -> Tables]
  PROVE  Materialize(e) \in Snapshots
  BY DEF Materialize, Snapshots

(***************************************************************************)
(* Type correctness.                                                       *)
(***************************************************************************)
LEMMA TypeInit == Init => TypeOK
<1> SUFFICES ASSUME Init PROVE TypeOK
  OBVIOUS
<1>1. 0 \in Tables /\ {} \in Snapshots
  BY DEF Tables, Snapshots
<1>2. status \in [Names -> [failed : BOOLEAN, edges : Tables]]
  BY <1>1 DEF Init
<1>3. /\ flying \in [Callers -> SUBSET setup.slots]
      /\ results \in [Callers -> SUBSET Result]
      /\ ok \in [Callers -> BOOLEAN]
      /\ mat \in [Loaders -> Snapshots]
      /\ ret \in [Callers -> {"none", "nil", "error"}]
  BY <1>1 DEF Init
<1>4. \A n \in Asked : world[n] \in setup.published
  BY SetupType DEF Init
<1> QED
  BY <1>1, <1>2, <1>3, <1>4 DEF Init, TypeOK

LEMMA TypeStep == TypeOK /\ [Next]_vars => TypeOK'
<1> SUFFICES ASSUME TypeOK, [Next]_vars PROVE TypeOK'
  OBVIOUS
<1> USE DEF TypeOK
<1>1. ASSUME NEW n \in Names, Toggle(n) PROVE TypeOK'
  BY <1>1 DEF Toggle, Asked, engineVars, callVars, cancelVars
<1>2. ASSUME NEW n \in Names, NEW t \in Published, Publish(n, t) PROVE TypeOK'
  <2>1. world' \in [Names -> Tables]
    BY <1>2 DEF Publish, Tables
  <2>2. \A m \in Asked' : world'[m] \in setup'.published
    BY <1>2, SetupType DEF Publish, Asked
  <2> QED
    BY <1>2, <2>1, <2>2 DEF Publish, Asked, engineVars, callVars, cancelVars
<1>3. ASSUME NEW c \in Callers, Start(c) PROVE TypeOK'
  <2>1. pc' \in [Loaders -> {"idle", "collect", "load", "latch", "done"}]
    BY <1>3 DEF Start
  <2>2. /\ flying' \in [Callers -> SUBSET setup.slots]
        /\ ok' \in [Callers -> BOOLEAN]
    <3>1. /\ flying' = flying \/ flying' = [flying EXCEPT ![c] = setup.slots]
          /\ ok' = ok \/ ok' = [ok EXCEPT ![c] = FALSE]
      BY <1>3 DEF Start
    <3>2. flying' \in [Callers -> SUBSET setup.slots]
      BY <3>1
    <3>3. ok' \in [Callers -> BOOLEAN]
      BY <3>1
    <3> QED
      BY <3>2, <3>3
  <2>3. ret' \in [Callers -> {"none", "nil", "error"}]
    BY <1>3 DEF Start
  <2>4. \A d \in Callers : pc'[d] = "idle" => flying'[d] = {} /\ results'[d] = {}
    BY <1>3 DEF Start, Loaders
  <2>5. \A d \in Loaders : d \notin setup.users => pc'[d] = "idle"
    BY <1>3 DEF Start
  <2> QED
    BY <1>3, <2>1, <2>2, <2>3, <2>4, <2>5 DEF Start, Asked, envVars, engineVars, cancelVars
<1>4. ASSUME NEW c \in Callers, NEW i \in Slots, FetchEnd(c, i) PROVE TypeOK'
  <2>1. Name[i] \in Names /\ world[Name[i]] \in Tables /\ 0 \in Tables
    BY DEF Names, Tables
  <2>2. results' \in [Callers -> SUBSET Result]
    <3> DEFINE res == IF Name[i] \in up /\ c \notin cancelled
                      THEN [slot |-> i, err |-> FALSE, edges |-> world[Name[i]]]
                      ELSE [slot |-> i, err |-> TRUE, edges |-> 0]
    <3>1. res \in Result
      BY <2>1 DEF Result
    <3>2. results' = [results EXCEPT ![c] = @ \cup {res}]
      BY <1>4 DEF FetchEnd
    <3> QED
      BY <3>1, <3>2
  <2>3. pc[c] # "idle"
    BY <1>4 DEF FetchEnd
  <2> QED
    BY <1>4, <2>2, <2>3 DEF FetchEnd, Asked, envVars, engineVars, cancelVars
<1>5. ASSUME NEW c \in Callers, Apply(c) PROVE TypeOK'
  <2>1. PICK res \in results[c] :
          /\ results' = [results EXCEPT ![c] = @ \ {res}]
          /\ g' = Replaced(g, Name[res.slot], res)
          /\ status' = Noted(status, Name[res.slot], res)
          /\ ok' = [ok EXCEPT ![c] = @ \/ ~res.err]
          /\ mat' = [mat EXCEPT ![c] = Materialize(g')]
    BY <1>5 DEF Apply
  <2>2. res \in Result /\ Name[res.slot] \in Names
    BY <2>1 DEF Result, Names
  <2>3. g' \in [Names -> Tables]
    BY <2>1, <2>2, ReplacedType
  <2>4. status' \in [Names -> [failed : BOOLEAN, edges : Tables]]
    BY <2>1, <2>2, NotedType
  <2>5. mat' \in [Loaders -> Snapshots]
    BY <2>1, <2>3, MaterializeType DEF Loaders
  <2>6. ok' \in [Callers -> BOOLEAN]
    BY <2>1, <2>2 DEF Result
  <2>7. results' \in [Callers -> SUBSET Result]
    BY <2>1
  <2>8. pc' \in [Loaders -> {"idle", "collect", "load", "latch", "done"}]
    BY <1>5 DEF Apply
  <2>9. \A d \in Callers : pc'[d] = "idle" => flying'[d] = {} /\ results'[d] = {}
    BY <1>5, <2>1 DEF Apply, Loaders
  <2>10. \A d \in Loaders : d \notin setup.users => pc'[d] = "idle"
    BY <1>5 DEF Apply, Loaders
  <2> QED
    BY <1>5, <2>3, <2>4, <2>5, <2>6, <2>7, <2>8, <2>9, <2>10
       DEF Apply, Asked, envVars, engineVars, cancelVars
<1>6. ASSUME NEW c \in Callers, Return(c) PROVE TypeOK'
  BY <1>6 DEF Return, AllTaken, Asked, envVars, engineVars, cancelVars, Loaders
<1>7. ASSUME NEW c \in Callers, Cancel(c) PROVE TypeOK'
  BY <1>7 DEF Cancel, Asked, envVars, engineVars, callVars
<1>8. ASSUME NEW c \in Callers, Stop(c) PROVE TypeOK'
  BY <1>8 DEF Stop, CtxDone, Asked, envVars, engineVars, callVars
<1>9. ASSUME NEW c \in Loaders, Install(c) PROVE TypeOK'
  BY <1>9 DEF Install, Installed, AfterLoad, Asked, envVars, callVars, cancelVars
<1>10. ASSUME NEW c \in Loaders, Latch(c) PROVE TypeOK'
  BY <1>10 DEF Latch, Latched, AfterLoad, Asked, envVars, callVars, cancelVars
<1>11. ASSUME NEW h \in Hosts, NEW s \in HostSnaps, HostLoad(h, s) PROVE TypeOK'
  BY <1>11, RefresherAssumption
     DEF HostLoad, Loaders, Asked, envVars, engineVars, callVars, cancelVars
<1>12. CASE UNCHANGED vars
  BY <1>12 DEF vars, Asked
<1> QED
  BY <1>1, <1>2, <1>3, <1>4, <1>5, <1>6, <1>7, <1>8, <1>9, <1>10, <1>11, <1>12
     DEF Next

\* In every behaviour every variable keeps its type, and a caller outside
\* Refresh has left no fetch running and no result untaken.
THEOREM TypeCorrect == Spec => []TypeOK
<1>1. Init => TypeOK
  BY TypeInit
<1>2. TypeOK /\ [Next]_vars => TypeOK'
  BY TypeStep
<1> QED
  BY <1>1, <1>2, PTL DEF Spec

(***************************************************************************)
(* Status and graph.                                                       *)
(***************************************************************************)

\* Whatever the interleaving of any number of refreshes, and whatever names
\* the sources share, the status table reports the edges the graph holds.
THEOREM StatusAgreesWithGraph == Spec => []StatusMatchesGraph
<1>1. Init => StatusMatchesGraph
  BY DEF Init, StatusMatchesGraph
<1>2. TypeOK /\ StatusMatchesGraph /\ [Next]_vars => StatusMatchesGraph'
  <2> SUFFICES ASSUME TypeOK, StatusMatchesGraph, [Next]_vars
               PROVE  StatusMatchesGraph'
    OBVIOUS
  <2>1. ASSUME NEW c \in Callers, Apply(c) PROVE StatusMatchesGraph'
    <3>1. PICK res \in results[c] : /\ g' = Replaced(g, Name[res.slot], res)
                                   /\ status' = Noted(status, Name[res.slot], res)
      BY <2>1 DEF Apply
    <3>2. res.err \in BOOLEAN
      BY <3>1 DEF TypeOK, Result
    <3>3. CASE res.err
      BY <3>1, <3>3 DEF Replaced, Noted, TypeOK, StatusMatchesGraph
    <3>4. CASE ~res.err
      BY <3>1, <3>4 DEF Replaced, Noted, TypeOK, StatusMatchesGraph
    <3> QED
      BY <3>2, <3>3, <3>4
  <2>2. CASE UNCHANGED <<g, status>>
    BY <2>2 DEF StatusMatchesGraph
  <2> QED
    BY <2>1, <2>2 DEF Next, vars, Toggle, Publish, Start, FetchEnd, Install,
       Latch, Return, Cancel, Stop, HostLoad
<1> QED
  BY <1>1, <1>2, TypeCorrect, PTL DEF Spec

(***************************************************************************)
(* A Refresh that returned nil has made the engine ready.  The invariant   *)
(* follows a usable result from the channel, through the snapshot waiting  *)
(* to be loaded, to the latch.                                             *)
(***************************************************************************)
OnItsWay(c) == (pc[c] = "load" /\ mat[c] # {}) \/ pc[c] = "latch"

OkInv ==
  /\ \A c \in Callers : \A res \in results[c] : ~res.err => res.edges \in setup.published
  /\ \A c \in Callers : ok[c] => ready \/ OnItsWay(c)
  /\ \A c \in Callers : ret[c] = "nil" => ready

LEMMA OkInvStep ==
  ASSUME 0 \notin setup.published, TypeOK, OkInv, [Next]_vars
  PROVE  OkInv'
<1> USE DEF TypeOK, OkInv, OnItsWay
<1>1. ASSUME NEW c \in Callers, Start(c) PROVE OkInv'
  BY <1>1 DEF Start, envVars, engineVars, Loaders
<1>2. ASSUME NEW c \in Callers, NEW i \in Slots, FetchEnd(c, i) PROVE OkInv'
  <2>1. world[Name[i]] \in setup.published
    BY <1>2, SetupType DEF FetchEnd
  <2>2. \A d \in Callers : \A res \in results'[d] : ~res.err => res.edges \in setup.published
    BY <1>2, <2>1 DEF FetchEnd
  <2> QED
    BY <1>2, <2>2 DEF FetchEnd, envVars, engineVars
<1>3. ASSUME NEW c \in Callers, Apply(c) PROVE OkInv'
  <2>1. PICK res \in results[c] :
          /\ results' = [results EXCEPT ![c] = @ \ {res}]
          /\ g' = Replaced(g, Name[res.slot], res)
          /\ ok' = [ok EXCEPT ![c] = @ \/ ~res.err]
          /\ mat' = [mat EXCEPT ![c] = Materialize(g')]
    BY <1>3 DEF Apply
  <2>2. res \in Result /\ Name[res.slot] \in Names
    BY <2>1 DEF Result, Names
  <2>3. ASSUME ~res.err PROVE mat'[c] # {}
    <3>1. g'[Name[res.slot]] = res.edges /\ Name[res.slot] \in DOMAIN g'
      BY <2>1, <2>2, <2>3 DEF Replaced
    <3>2. res.edges # 0
      BY <2>1, <2>3
    <3>3. mat'[c] = Materialize(g')
      BY <2>1 DEF Loaders
    <3>4. <<Name[res.slot], res.edges>> \in Materialize(g')
      BY <3>1, <3>2 DEF Materialize
    <3> QED
      BY <3>3, <3>4
  <2>4. pc'[c] = "load" /\ \A d \in Callers \ {c} : pc'[d] = pc[d] /\ mat'[d] = mat[d]
    BY <1>3, <2>1 DEF Apply, Loaders
  <2>5. pc[c] = "collect" /\ ready' = ready /\ ret' = ret /\ setup' = setup
    BY <1>3 DEF Apply, envVars, engineVars
  <2>6. \A d \in Callers : ok'[d] => ready' \/ OnItsWay(d)'
    BY <2>1, <2>2, <2>3, <2>4, <2>5 DEF Result
  <2> QED
    BY <2>1, <2>5, <2>6
<1>4. ASSUME NEW c \in Callers, Return(c) PROVE OkInv'
  BY <1>4 DEF Return, envVars, engineVars, Loaders
<1>5. ASSUME NEW c \in Loaders, Install(c) PROVE OkInv'
  BY <1>5 DEF Install, MakesReady, AfterLoad, envVars, callVars, Loaders
<1>6. ASSUME NEW c \in Loaders, Latch(c) PROVE OkInv'
  BY <1>6 DEF Latch, Latched, envVars, callVars
<1>7. ASSUME NEW h \in Hosts, NEW s \in HostSnaps, HostLoad(h, s) PROVE OkInv'
  BY <1>7, RefresherAssumption DEF HostLoad, envVars, engineVars, callVars, Loaders
<1>8. CASE UNCHANGED <<setup, ready, pc, results, ok, mat, ret>>
  BY <1>8
<1> QED
  BY <1>1, <1>2, <1>3, <1>4, <1>5, <1>6, <1>7, <1>8
     DEF Next, vars, Toggle, Publish, Cancel, Stop, envVars, engineVars, callVars

\* For any set of sources whose lists all have a usable edge, and any number
\* of concurrent refreshes and host loads: a Refresh that returned nil has made
\* the engine ready.
THEOREM OkMakesReady == Spec => []OkMeansReady
<1> DEFINE Usable == 0 \notin setup.published => OkInv
<1>1. Init => Usable
  BY DEF Init, OkInv
<1>2. TypeOK /\ Usable /\ [Next]_vars => Usable'
  <2> SUFFICES ASSUME TypeOK, Usable, [Next]_vars, 0 \notin setup'.published PROVE OkInv'
    OBVIOUS
  <2>1. setup' = setup
    BY DEF Next, vars, Toggle, Publish, Start, FetchEnd, Apply, Install, Latch,
       Return, Cancel, Stop, HostLoad, envVars
  <2> QED
    BY <2>1, OkInvStep
<1>3. Usable => OkMeansReady
  BY DEF OkInv, OkMeansReady
<1> QED
  BY <1>1, <1>2, <1>3, TypeCorrect, PTL DEF Spec

(***************************************************************************)
(* One caller at a time.  Then a snapshot is loaded before the next one is *)
(* materialized, so the engine is behind the graph only while a load is    *)
(* pending, and then by exactly that load.                                 *)
(***************************************************************************)
Dropped(n) == status[n].failed = FALSE /\ status[n].edges = 0

SeqInv ==
  Alone => \A c \in setup.users :
    IF pc[c] = "load"
    THEN /\ mat[c] = Materialize(g)
         /\ \A n \in Names : (\E t \in Tables : <<n, t>> \in snap) /\ g[n] = 0
                              => Dropped(n)
    ELSE snap = Materialize(g)

\* A goroutine that does not use the Refresher changes nothing.
LEMMA OthersRest ==
  ASSUME NEW c \in Callers, setup.users = {c}, [Next]_vars,
         \A d \in (Callers \cup Hosts) \ {c} : pc[d] = "idle"
  PROVE  \/ Apply(c) \/ Install(c) \/ Latch(c) \/ Start(c) \/ Return(c)
         \/ UNCHANGED <<g, status, snap, pc, mat>>
<1>1. ASSUME NEW d \in Callers \ {c}
      PROVE  ~Start(d) /\ ~Apply(d) /\ ~Return(d)
  BY DEF Start, Apply, Return
<1>2. ASSUME NEW d \in Loaders \ {c} PROVE ~Install(d) /\ ~Latch(d)
  BY <1>2 DEF Install, Latch, Loaders
<1>3. ASSUME NEW h \in Hosts, NEW s \in HostSnaps PROVE ~HostLoad(h, s)
  BY RefresherAssumption DEF HostLoad
<1> QED
  BY <1>1, <1>2, <1>3 DEF Next, vars, Toggle, Publish, FetchEnd, Cancel, Stop, engineVars

LEMMA SeqStep ==
  ASSUME TypeOK, StatusMatchesGraph, SeqInv, [Next]_vars
  PROVE  SeqInv'
<1>1. setup' = setup
  BY DEF Next, vars, Toggle, Publish, Start, FetchEnd, Apply, Install, Latch,
     Return, Cancel, Stop, HostLoad, envVars
<1> SUFFICES ASSUME Alone PROVE SeqInv'
  BY <1>1 DEF SeqInv, Alone
<1>2. PICK c \in Callers : setup.users = {c}
  BY DEF Alone
<1>3. \A d \in Loaders \ {c} : pc[d] = "idle"
  BY <1>2 DEF TypeOK
<1> USE <1>1, <1>2 DEF SeqInv, Alone, Dropped
<1>4. CASE Apply(c)
  <2>1. PICK res \in results[c] :
          /\ g' = Replaced(g, Name[res.slot], res)
          /\ status' = Noted(status, Name[res.slot], res)
          /\ mat' = [mat EXCEPT ![c] = Materialize(g')]
    BY <1>4 DEF Apply
  <2>2. res \in Result /\ Name[res.slot] \in Names
    BY <2>1 DEF TypeOK, Result, Names
  <2>3. pc'[c] = "load" /\ pc[c] = "collect" /\ snap' = snap
    BY <1>4 DEF Apply, engineVars, TypeOK, Loaders
  <2>4. mat'[c] = Materialize(g')
    BY <2>1 DEF TypeOK, Loaders
  <2>5. ASSUME NEW n \in Names, NEW t \in Tables, <<n, t>> \in snap, g'[n] = 0
        PROVE  Dropped(n)'
    <3>0. snap = Materialize(g) /\ g \in [Names -> Tables]
      BY <2>3 DEF TypeOK
    <3>1. g[n] # 0
      BY <3>0, <2>5 DEF Materialize
    <3>2. n = Name[res.slot] /\ ~res.err /\ res.edges = 0
      BY <2>1, <2>2, <2>5, <3>1 DEF Replaced, TypeOK, Result
    <3> QED
      BY <2>1, <2>2, <3>2 DEF Noted, TypeOK
  <2> QED
    BY <2>3, <2>4, <2>5
<1>5. CASE Install(c)
  BY <1>5 DEF Install, Installed, AfterLoad, Loaders, TypeOK
<1>6. CASE Latch(c)
  BY <1>6 DEF Latch, AfterLoad, Loaders, TypeOK
<1>7. CASE Start(c)
  BY <1>7 DEF Start, engineVars, TypeOK, Loaders
<1>8. CASE Return(c)
  BY <1>8 DEF Return, engineVars, TypeOK, Loaders
<1>9. CASE UNCHANGED <<g, status, snap, pc, mat>>
  BY <1>9
<1>10. \/ Apply(c) \/ Install(c) \/ Latch(c) \/ Start(c) \/ Return(c)
       \/ UNCHANGED <<g, status, snap, pc, mat>>
  BY <1>3, OthersRest DEF Loaders
<1> QED
  BY <1>4, <1>5, <1>6, <1>7, <1>8, <1>9, <1>10

LEMMA SeqInvariant == Spec => [](TypeOK /\ StatusMatchesGraph /\ SeqInv)
<1>1. Init => SeqInv
  BY SetupType DEF Init, SeqInv, Materialize
<1>2. TypeOK /\ StatusMatchesGraph /\ SeqInv /\ [Next]_vars => SeqInv'
  BY SeqStep
<1> QED
  BY <1>1, <1>2, TypeCorrect, StatusAgreesWithGraph, PTL DEF Spec

\* To whoever is alone with a Refresher, "when it returns, the Engine holds everything
\* this refresh could get" is true of Refresh, for any sources and tables.
THEOREM AloneEngineHoldsWhatRefreshGot == Spec => []AloneEngineHolds
<1>1. SeqInv => AloneEngineHolds
  BY DEF Alone, SeqInv, AloneEngineHolds, EngineHoldsWhatRefreshGot
<1> QED
  BY <1>1, SeqInvariant, PTL

\* With one caller, a source leaves the engine only after a fetch of it that
\* succeeded and returned nothing: no failure ever takes rates away.
THEOREM AloneNoSourceIsLost == Spec => AloneNeverLosesASource
<1> DEFINE Kept == Alone => \A n \in Names :
                     /\ \E t \in Tables : <<n, t>> \in snap
                     /\ ~\E t \in Tables : <<n, t>> \in snap'
                     => ~status[n].failed /\ status[n].edges = 0
<1>1. ASSUME TypeOK, StatusMatchesGraph, SeqInv, [Next]_vars PROVE Kept
  <2> SUFFICES ASSUME Alone, NEW n \in Names, NEW t \in Tables, <<n, t>> \in snap,
                      ~\E u \in Tables : <<n, u>> \in snap'
               PROVE  ~status[n].failed /\ status[n].edges = 0
    OBVIOUS
  <2>1. PICK c \in Callers : setup.users = {c}
    BY DEF Alone
  <2>2. \A d \in Loaders \ {c} : pc[d] = "idle"
    BY <1>1, <2>1 DEF TypeOK
  <2>3. \/ Apply(c) \/ Install(c) \/ Latch(c) \/ Start(c) \/ Return(c)
        \/ UNCHANGED <<g, status, snap, pc, mat>>
    BY <1>1, <2>1, <2>2, OthersRest DEF Loaders
  <2>4. Install(c)
    BY <2>3 DEF Apply, Latch, Start, Return, engineVars
  <2>5. snap' = Materialize(g) /\ pc[c] = "load"
    BY <1>1, <2>1, <2>4 DEF Install, Installed, SeqInv
  <2>6. g[n] = 0
    BY <1>1, <2>5 DEF Materialize, TypeOK
  <2> QED
    BY <1>1, <2>1, <2>5, <2>6 DEF SeqInv, Dropped
<1>2. TypeOK /\ StatusMatchesGraph /\ SeqInv /\ [Next]_vars => [Kept]_vars
  BY <1>1
<1> QED
  BY <1>2, SeqInvariant, PTL DEF Spec, AloneNeverLosesASource
=============================================================================
