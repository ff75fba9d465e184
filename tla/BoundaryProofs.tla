--------------------------- MODULE BoundaryProofs ---------------------------
(***************************************************************************)
(* Proofs about Boundary: what a Close and a supervisor leave behind, what *)
(* a fetch returns, who a request is charged to, and what it is told.  The *)
(* invariant of each part is proved of that part's steps, and carried over *)
(* to the composition.                                                     *)
(***************************************************************************)
EXTENDS Boundary, ServingProofs

\* Every step of the composition is one of Local or leaves its state alone, and it
\* starts as Local does or at rest.
LEMMA LocalPart ==
    /\ Init => LocalInit \/ LocalAtRest
    /\ [Next]_boundaryVars => [LocalNext]_localVars
  BY DEF Init, Next, boundaryVars

\* The same of Sidecar.
LEMMA SidecarPart ==
    /\ Init => SidecarInit \/ SidecarAtRest
    /\ [Next]_boundaryVars => [SidecarNext]_sidecarVars
  BY DEF Init, Next, boundaryVars

\* The same of Fetch.
LEMMA FetchPart ==
    /\ Init => FetchInit \/ FetchAtRest
    /\ [Next]_boundaryVars => [FetchNext]_fetchVars
  BY DEF Init, Next, boundaryVars

\* And of Clients.
LEMMA ClientsPart ==
    /\ Init => ClientsInit \/ ClientsAtRest
    /\ [Next]_boundaryVars => [ClientsNext]_clientVars
  BY DEF Init, Next, boundaryVars

\* And of Serving, which does nothing more once an answer is complete.
LEMMA ServingPart ==
    /\ Init => ServingInit \/ Resting
    /\ [Next]_boundaryVars => [ServingNext]_servingVars
  BY DEF Init, Next, ServeOne, ServingAtRest, Resting, boundaryVars

-----------------------------------------------------------------------------

\* The stages of Close, by what lies behind the caller.
ShutDown == {"drain", "drain_late", "serve", "loops", "loops_late"}
Stopped  == ShutDown \cup {"shutdown"}

\* A goroutine of the host calls Close only when Start has returned the handle.
StartedFirst == \A c \in Closers : pc[c] # "idle" => pc[Starter] = "done"

\* Whoever is in a stage, or has come out of Close, has done what lies before it.
HasStopped ==
    \A c \in Callers : pc[c] \in Stopped \/ (c # Starter /\ pc[c] = "done") =>
        sweeper = "none" \/ stopped

HasShutDown ==
    \A c \in Callers : pc[c] \in ShutDown \/ (c # Starter /\ pc[c] = "done") => srv = "shut"

HasDrained ==
    \A c \in Callers : pc[c] \in {"serve", "loops", "loops_late"} /\ err[c] = "none" => Quiet

HasServed == \A c \in Callers : pc[c] \in {"loops", "loops_late"} => served

CloseInv ==
    /\ LocalTypeOK /\ StartedFirst
    /\ HasStopped /\ HasShutDown /\ HasDrained /\ HasServed
    /\ CloseNilMeansQuiet

\* While no two calls have overlapped one caller at most is in Close, and the one
\* about to close the channel found it open.
OneAtATime ==
    overlapped \/ \A c, d \in Callers : pc[c] \in InClose /\ pc[d] \in InClose => c = d

StillOpen == overlapped \/ \A c \in Callers : pc[c] = "close_done" => ~stopped

SafeInv == OneAtATime /\ StillOpen /\ RepeatedCloseIsSafe

-----------------------------------------------------------------------------

\* Before Start every invariant holds.
LEMMA InitCloseInv == LocalInit => CloseInv /\ SafeInv
<1> SUFFICES ASSUME LocalInit PROVE CloseInv /\ SafeInv
  OBVIOUS
<1> USE LocalAssumption DEF LocalInit, Callers, Starter
<1>1. LocalTypeOK
  BY DEF LocalTypeOK, InClose
<1>2. \A c \in Callers : pc[c] \in {"start", "idle"}
  OBVIOUS
<1>3. StartedFirst /\ CloseNilMeansQuiet
  BY DEF StartedFirst, CloseNilMeansQuiet
<1>4. HasStopped /\ HasShutDown /\ HasDrained /\ HasServed
  BY <1>2 DEF HasStopped, HasShutDown, HasDrained, HasServed, Stopped, ShutDown
<1>5. SafeInv
  BY <1>2 DEF SafeInv, OneAtATime, StillOpen, RepeatedCloseIsSafe, InClose
<1> QED BY <1>1, <1>3, <1>4, <1>5 DEF CloseInv

\* Types are preserved by every step.
LEMMA TypePreserved == LocalTypeOK /\ [LocalNext]_localVars => LocalTypeOK'
<1> SUFFICES ASSUME LocalTypeOK, [LocalNext]_localVars PROVE LocalTypeOK'
  OBVIOUS
<1> USE DEF LocalTypeOK, background, history, Goto, Report, InClose, At
<1>1. CASE StartRefused \/ Healthy \/ NeverHealthy
  BY <1>1 DEF StartRefused, Healthy, NeverHealthy
<1>2. CASE Launch
  BY <1>2 DEF Launch
<1>3. CASE \E l \in Loops : Tick(l) \/ FetchOver(l) \/ Unwedged(l) \/ LoopEnds(l)
  BY <1>3 DEF Tick, FetchOver, Unwedged, LoopEnds, LoopStep
<1>4. CASE Accept \/ ServeReturns \/ SweeperEnds
  BY <1>4 DEF Accept, ServeReturns, SweeperEnds
<1>5. CASE \E r \in Requests : Arrive(r) \/ Answer(r) \/ Unstuck(r)
  BY <1>5 DEF Arrive, Answer, Unstuck, RequestStep
<1>6. CASE \E c \in Callers : Call(c)
  BY <1>6 DEF Call
<1>7. CASE \E c \in Callers : Cancel(c) \/ StopCheck(c) \/ StopClose(c) \/ Shutdown(c)
  BY <1>7 DEF Cancel, StopCheck, StopClose, Shutdown
<1>8. CASE \E c \in Callers : Late(c) \/ Drained(c) \/ AwaitServe(c)
  BY <1>8 DEF Late, Drained, AwaitServe
<1>9. CASE \E c \in Callers : AwaitLoops(c)
  BY <1>9 DEF AwaitLoops
<1>10. CASE UNCHANGED localVars
  BY <1>10 DEF localVars
<1> QED BY <1>1, <1>2, <1>3, <1>4, <1>5, <1>6, <1>7, <1>8, <1>9, <1>10 DEF LocalNext

\* What lies behind a stage of Close stays done, whoever steps.
LEMMA ClosePreserved == CloseInv /\ [LocalNext]_localVars => CloseInv'
<1> SUFFICES ASSUME CloseInv, [LocalNext]_localVars
             PROVE  (StartedFirst /\ HasStopped /\ HasShutDown /\ HasDrained /\ HasServed
                       /\ CloseNilMeansQuiet)'
  BY TypePreserved DEF CloseInv
<1>0. LocalTypeOK /\ LocalTypeOK'
  BY TypePreserved DEF CloseInv
<1>1. Starter \in Callers /\ \A c \in Closers : c \in Callers /\ c # Starter
  BY LocalAssumption DEF Callers
<1>2. \A c \in Callers : c # Starter => c \in Closers
  BY DEF Callers
<1> USE <1>0, <1>1, <1>2 DEF CloseInv, LocalTypeOK, StartedFirst, HasStopped, HasShutDown,
      HasDrained, HasServed, CloseNilMeansQuiet, Stopped, ShutDown, InClose, background,
      history, Goto, Report, At, Quiet, LoopsGone
<1>3. CASE StartRefused
  BY <1>3 DEF StartRefused
<1>4. CASE Launch
  BY <1>4 DEF Launch
<1>5. CASE Healthy \/ NeverHealthy
  BY <1>5 DEF Healthy, NeverHealthy
<1>6. CASE \E l \in Loops : Tick(l) \/ FetchOver(l) \/ Unwedged(l) \/ LoopEnds(l)
  BY <1>6 DEF Tick, FetchOver, Unwedged, LoopEnds, LoopStep
<1>7. CASE Accept \/ ServeReturns \/ SweeperEnds
  BY <1>7 DEF Accept, ServeReturns, SweeperEnds
<1>8. CASE \E r \in Requests : Arrive(r) \/ Answer(r) \/ Unstuck(r)
  BY <1>8 DEF Arrive, Answer, Unstuck, RequestStep
<1>9. CASE \E c \in Callers : Call(c)
  BY <1>9 DEF Call
<1>10. CASE \E c \in Callers : Cancel(c)
  BY <1>10 DEF Cancel
<1>11. CASE \E c \in Callers : StopCheck(c)
  BY <1>11 DEF StopCheck, MustStop
<1>12. CASE \E c \in Callers : StopClose(c)
  BY <1>12 DEF StopClose
<1>13. CASE \E c \in Callers : Shutdown(c)
  BY <1>13 DEF Shutdown
<1>14. CASE \E c \in Callers : Late(c)
  BY <1>14 DEF Late
<1>15. CASE \E c \in Callers : Drained(c)
  BY <1>15 DEF Drained
<1>16. CASE \E c \in Callers : AwaitServe(c)
  BY <1>16 DEF AwaitServe
<1>17. CASE \E c \in Callers : AwaitLoops(c)
  BY <1>17 DEF AwaitLoops, LoopsOver
<1>18. CASE UNCHANGED localVars
  BY <1>18 DEF localVars
<1> QED BY <1>3, <1>4, <1>5, <1>6, <1>7, <1>8, <1>9, <1>10, <1>11, <1>12, <1>13, <1>14,
           <1>15, <1>16, <1>17, <1>18 DEF LocalNext

\* While the calls of Close come one after the other, each finds the channel open or
\* leaves it alone.
LEMMA SafePreserved == CloseInv /\ SafeInv /\ [LocalNext]_localVars => SafeInv'
<1> SUFFICES ASSUME CloseInv, SafeInv, [LocalNext]_localVars PROVE SafeInv'
  OBVIOUS
<1>0. LocalTypeOK /\ LocalTypeOK'
  BY TypePreserved DEF CloseInv
<1>1. Starter \in Callers /\ \A c \in Callers : c # Starter => c \in Closers
  BY DEF Callers
<1> USE <1>0, <1>1 DEF CloseInv, SafeInv, LocalTypeOK, StartedFirst, OneAtATime, StillOpen,
      RepeatedCloseIsSafe, InClose, background, history, Goto, Report, At
<1>2. CASE StartRefused \/ Launch \/ Healthy
  BY <1>2 DEF StartRefused, Launch, Healthy
<1>3. CASE NeverHealthy
  BY <1>3 DEF NeverHealthy
<1>4. CASE \E l \in Loops : Tick(l) \/ FetchOver(l) \/ Unwedged(l) \/ LoopEnds(l)
  BY <1>4 DEF Tick, FetchOver, Unwedged, LoopEnds, LoopStep
<1>5. CASE Accept \/ ServeReturns \/ SweeperEnds
  BY <1>5 DEF Accept, ServeReturns, SweeperEnds
<1>6. CASE \E r \in Requests : Arrive(r) \/ Answer(r) \/ Unstuck(r)
  BY <1>6 DEF Arrive, Answer, Unstuck, RequestStep
<1>7. CASE \E c \in Callers : Call(c)
  <2>1. PICK c \in Callers : Call(c)
    BY <1>7
  <2>2. /\ pc' = [pc EXCEPT ![c] = "cancel"]
        /\ stopped' = stopped /\ panicked' = panicked
    BY <2>1 DEF Call
  <2>3. overlapped' = (overlapped \/ \E d \in Callers : pc[d] \in InClose)
    BY <2>1 DEF Call
  <2>4. CASE overlapped \/ \E d \in Callers : pc[d] \in InClose
    BY <2>2, <2>3, <2>4
  <2>5. CASE ~overlapped /\ \A d \in Callers : pc[d] \notin InClose
    BY <2>2, <2>3, <2>5
  <2> QED BY <2>4, <2>5
<1>8. CASE \E c \in Callers : Cancel(c)
  BY <1>8 DEF Cancel
<1>9. CASE \E c \in Callers : StopCheck(c)
  BY <1>9 DEF StopCheck, MustStop
<1>10. CASE \E c \in Callers : StopClose(c)
  BY <1>10 DEF StopClose
<1>11. CASE \E c \in Callers : Shutdown(c) \/ Late(c) \/ Drained(c) \/ AwaitServe(c)
  BY <1>11 DEF Shutdown, Late, Drained, AwaitServe
<1>12. CASE \E c \in Callers : AwaitLoops(c)
  BY <1>12 DEF AwaitLoops
<1>13. CASE UNCHANGED localVars
  BY <1>13 DEF localVars
<1> QED BY <1>2, <1>3, <1>4, <1>5, <1>6, <1>7, <1>8, <1>9, <1>10, <1>11, <1>12, <1>13
        DEF LocalNext

\* At rest no Close is under way, so what lies behind its stages holds.
LEMMA AtRestCloseInv == LocalAtRest => CloseInv /\ SafeInv
<1> SUFFICES ASSUME LocalAtRest PROVE CloseInv /\ SafeInv
  OBVIOUS
<1> USE LocalAssumption DEF LocalAtRest, Callers, Starter
<1>1. LocalTypeOK
  BY DEF LocalTypeOK, InClose
<1>2. \A c \in Callers : pc[c] \in {"refused", "idle"}
  OBVIOUS
<1>3. StartedFirst /\ CloseNilMeansQuiet
  BY DEF StartedFirst, CloseNilMeansQuiet
<1>4. HasStopped /\ HasShutDown /\ HasDrained /\ HasServed
  BY <1>2 DEF HasStopped, HasShutDown, HasDrained, HasServed, Stopped, ShutDown
<1>5. SafeInv
  BY <1>2 DEF SafeInv, OneAtATime, StillOpen, RepeatedCloseIsSafe, InClose
<1> QED BY <1>1, <1>3, <1>4, <1>5 DEF CloseInv

-----------------------------------------------------------------------------

\* Before there is a child none can be left; afterwards Close reaps it.  Nobody else
\* answers on the port, unless a stranger has had it; a child in "booting" has not
\* listened yet; a supervisor past waitReady was told of rates.
SidecarInv ==
    /\ SidecarTypeOK
    /\ sup \in {"port", "spawn"} \cup Over => child \in {"none", "reaped"}
    /\ port = "stranger" => foreign
    /\ sup = "ask" /\ ~foreign => rates

\* Every step of the supervisor, the child or a stranger keeps SidecarInv.
LEMMA SidecarPreserved == SidecarInv /\ [SidecarNext]_sidecarVars => SidecarInv'
<1> SUFFICES ASSUME SidecarInv, [SidecarNext]_sidecarVars PROVE SidecarInv'
  OBVIOUS
<1> USE DEF SidecarInv, SidecarTypeOK, Over, InClose2, Alive, Supervisor, Idle, Child
<1>1. CASE FreePort \/ Spawn \/ PollLive
  BY <1>1 DEF FreePort, Spawn, PollLive
<1>2. CASE LiveTimeout \/ ReadyTimeout \/ Ask
  BY <1>2 DEF LiveTimeout, AfterNoAnswer, ReadyTimeout, Ask
<1>3. CASE PollReady
  BY <1>3 DEF PollReady, AnswersReady
<1>4. CASE Interrupt
  BY <1>4 DEF Interrupt
<1>5. CASE Reap \/ CloseLate \/ Kill
  BY <1>5 DEF Reap, CloseLate, Kill
<1>6. CASE Boot \/ Listen \/ GetRates
  BY <1>6 DEF Boot, Listen, GetRates
<1>7. CASE Exit \/ Crash
  BY <1>7 DEF Exit, Crash
<1>8. CASE Stranger
  <2>1. CASE port = "nobody" /\ port' = "stranger" /\ foreign' = TRUE
    BY <1>8, <2>1 DEF Stranger
  <2>2. CASE port = "stranger" /\ port' = "nobody" /\ UNCHANGED foreign
    BY <1>8, <2>2 DEF Stranger
  <2> QED BY <1>8, <2>1, <2>2 DEF Stranger
<1>9. CASE UNCHANGED sidecarVars
  BY <1>9 DEF sidecarVars
<1> QED BY <1>1, <1>2, <1>3, <1>4, <1>5, <1>6, <1>7, <1>8, <1>9
        DEF SidecarNext, SupervisorNext

\* SidecarInv holds before the child is spawned, and at rest.
LEMMA InitSidecarInv == SidecarInit \/ SidecarAtRest => SidecarInv
  BY DEF SidecarInit, SidecarAtRest, SidecarInv, SidecarTypeOK, Over, InClose2, Alive

-----------------------------------------------------------------------------

\* FlattenSeq joins the sequences one after the other.
Joins(seqs, n, f) ==
  f = [i \in 1..n |-> IF i = 1 THEN seqs[i] ELSE f[i - 1] \o seqs[i]]

LEMMA JoinsExist ==
  ASSUME NEW seqs, NEW n \in Nat
  PROVE  \E f : Joins(seqs, n, f)
<1> DEFINE none == {m \in Nat : ~\E f : Joins(seqs, m, f)}
<1>1. ASSUME none # {} PROVE FALSE
  <2>1. PICK m \in none : \A k \in none : m <= k
    <3>1. none \subseteq Nat
      OBVIOUS
    <3> HIDE DEF none
    <3> QED BY <1>1, <3>1, Least
  <2>2. CASE m = 0
    <3>1. Joins(seqs, 0, [i \in 1..0 |-> <<>>])
      BY DEF Joins
    <3> QED BY <2>1, <2>2, <3>1
  <2>3. CASE m # 0
    <3>1. m \in Nat /\ m - 1 \in Nat /\ m - 1 \notin none
      BY <2>1, <2>3
    <3>2. PICK f : Joins(seqs, m - 1, f)
      BY <3>1
    <3> DEFINE G(g, i) == IF i = 1 THEN seqs[i] ELSE g[i - 1] \o seqs[i]
               g == [i \in 1..m |-> IF i = m THEN G(f, m) ELSE f[i]]
    <3>3. \A i \in 1..m - 1 : f[i] = G(f, i)
      BY <3>2 DEF Joins
    <3>4. \A i \in 1..m : g[i] = G(g, i)
      <4> TAKE i \in 1..m
      <4>1. i # 1 => i - 1 \in 1..m /\ i - 1 # m
        BY <3>1
      <4>2. i # 1 => g[i - 1] = f[i - 1]
        BY <4>1
      <4>3. i # m => i \in 1..m - 1 /\ g[i] = f[i]
        BY <3>1
      <4>4. g[m] = G(f, m)
        BY <2>3, <3>1
      <4> HIDE DEF g
      <4>5. CASE i = m
        BY <4>2, <4>4, <4>5
      <4>6. CASE i # m
        BY <3>3, <4>2, <4>3, <4>6
      <4> QED BY <4>5, <4>6
    <3>5. g = [i \in 1..m |-> g[i]]
      OBVIOUS
    <3> HIDE DEF g
    <3>6. Joins(seqs, m, g)
      BY <3>4, <3>5 DEF Joins
    <3> QED BY <2>1, <3>6
  <2> QED BY <2>2, <2>3
<1> QED BY <1>1

\* What the walk passes over, with these proxies trusted.
PassedOver(proxies, entry) ==
  entry = Blank \/ (Parses(entry) /\ \E n \in proxies : Covers(n, entry))

\* The walk over these entries comes to whom.
ComesTo(proxies, whom, entries) ==
  \E k \in DOMAIN entries :
    /\ entries[k] = whom
    /\ \A j \in DOMAIN entries : j > k => PassedOver(proxies, entries[j])

\* So does that over these lines.
LinesComeTo(proxies, whom, lines) ==
  \E i \in DOMAIN lines :
    /\ ComesTo(proxies, whom, lines[i])
    /\ \A j \in DOMAIN lines : j > i =>
         \A k \in DOMAIN lines[j] : PassedOver(proxies, lines[j][k])

LEMMA Concatenated ==
  ASSUME NEW T, NEW s \in Seq(T), NEW t \in Seq(T)
  PROVE  /\ s \o t \in Seq(T) /\ Len(s) \in Nat /\ Len(t) \in Nat
         /\ DOMAIN s = 1..Len(s) /\ DOMAIN t = 1..Len(t)
         /\ DOMAIN (s \o t) = 1..Len(s) + Len(t)
         /\ \A i \in 1..Len(s) : (s \o t)[i] = s[i]
         /\ \A i \in 1..Len(t) : (s \o t)[Len(s) + i] = t[i]
OBVIOUS

LEMMA JoinedComesTo ==
  ASSUME NEW T, NEW s \in Seq(T), NEW t \in Seq(T), NEW proxies, NEW whom,
         \/ ComesTo(proxies, whom, t)
         \/ ComesTo(proxies, whom, s) /\ \A k \in DOMAIN t : PassedOver(proxies, t[k])
  PROVE  ComesTo(proxies, whom, s \o t)
<1> DEFINE u == s \o t   m == Len(s)   n == Len(t)
<1>1. /\ m \in Nat /\ n \in Nat /\ DOMAIN s = 1..m /\ DOMAIN t = 1..n /\ DOMAIN u = 1..m + n
      /\ \A i \in 1..m : u[i] = s[i]
      /\ \A i \in 1..n : u[m + i] = t[i]
  BY Concatenated
<1> HIDE DEF u, m, n
<1>2. \A j \in 1..m + n : j > m => j - m \in 1..n /\ u[j] = t[j - m]
  <2> SUFFICES ASSUME NEW j \in 1..m + n, j > m PROVE j - m \in 1..n /\ u[j] = t[j - m]
    OBVIOUS
  <2>1. j - m \in 1..n /\ m + (j - m) = j
    BY <1>1
  <2> QED BY <1>1, <2>1
<1>3. CASE ComesTo(proxies, whom, t)
  <2>1. PICK k \in 1..n : /\ t[k] = whom
                          /\ \A j \in 1..n : j > k => PassedOver(proxies, t[j])
    BY <1>1, <1>3 DEF ComesTo
  <2>2. m + k \in DOMAIN u /\ u[m + k] = whom
    BY <1>1, <2>1
  <2>3. ASSUME NEW j \in DOMAIN u, j > m + k PROVE PassedOver(proxies, u[j])
    <3>1. j > m /\ j - m > k
      BY <1>1, <2>1, <2>3
    <3> QED BY <1>1, <1>2, <2>1, <3>1
  <2>4. ComesTo(proxies, whom, u)
    BY <2>2, <2>3 DEF ComesTo
  <2> QED BY <2>4 DEF u
<1>4. CASE ComesTo(proxies, whom, s) /\ \A k \in DOMAIN t : PassedOver(proxies, t[k])
  <2>1. PICK k \in 1..m : /\ s[k] = whom
                          /\ \A j \in 1..m : j > k => PassedOver(proxies, s[j])
    BY <1>1, <1>4 DEF ComesTo
  <2>2. k \in DOMAIN u /\ u[k] = whom
    BY <1>1, <2>1
  <2>3. ASSUME NEW j \in DOMAIN u, j > k PROVE PassedOver(proxies, u[j])
    <3>1. CASE j \in 1..m
      BY <1>1, <2>1, <2>3, <3>1
    <3>2. CASE j > m
      BY <1>1, <1>2, <1>4, <3>2
    <3> QED BY <1>1, <3>1, <3>2
  <2>4. ComesTo(proxies, whom, u)
    BY <2>2, <2>3 DEF ComesTo
  <2> QED BY <2>4 DEF u
<1> QED BY <1>3, <1>4

\* All the lines together come to whom they come to line by line.
LEMMA ForwardedComesTo ==
  ASSUME NEW lines \in Seq(Seq(Entry)), NEW proxies, NEW whom,
         LinesComeTo(proxies, whom, lines)
  PROVE  Forwarded(lines) \in Seq(Entry) /\ ComesTo(proxies, whom, Forwarded(lines))
<1> DEFINE N == Len(lines)
           G(g, i) == IF i = 1 THEN lines[i] ELSE g[i - 1] \o lines[i]
           f == CHOOSE g : g = [i \in 1..N |-> G(g, i)]
<1>1. N \in Nat /\ DOMAIN lines = 1..N /\ \A i \in 1..N : lines[i] \in Seq(Entry)
  OBVIOUS
<1>2. PICK i \in 1..N :
        /\ ComesTo(proxies, whom, lines[i])
        /\ \A j \in 1..N : j > i => \A k \in DOMAIN lines[j] : PassedOver(proxies, lines[j][k])
  BY <1>1 DEF LinesComeTo
<1>3. f = [n \in 1..N |-> G(f, n)]
  <2>1. PICK g : Joins(lines, N, g)
    BY <1>1, JoinsExist
  <2> QED BY <2>1 DEF Joins
<1>4. Forwarded(lines) = f[N]
  <2>1. N # 0
    BY <1>1, <1>2
  <2> QED BY <2>1 DEF Forwarded, FlattenSeq
<1> HIDE DEF f
<1>5. \A n \in 1..N : f[n] = G(f, n)
  BY <1>3, Zenon
<1> DEFINE Good(n) == f[n] \in Seq(Entry) /\ (n >= i => ComesTo(proxies, whom, f[n]))
           bad == {n \in 1..N : ~Good(n)}
<1>6. ASSUME bad # {} PROVE FALSE
  <2>1. PICK n \in bad : \A k \in bad : n <= k
    <3>1. bad \subseteq Nat
      OBVIOUS
    <3> HIDE DEF bad
    <3> QED BY <1>6, <3>1, Least
  <2>2. n \in 1..N /\ lines[n] \in Seq(Entry)
    BY <1>1
  <2>3. CASE n = 1
    <3>1. f[n] = lines[n]
      BY <1>5, <2>2, <2>3
    <3>2. n >= i => n = i
      BY <1>1, <1>2, <2>3
    <3> QED BY <1>2, <2>1, <2>2, <3>1, <3>2
  <2>4. CASE n # 1
    <3>1. n - 1 \in 1..N /\ n - 1 \notin bad
      BY <1>1, <2>1, <2>2, <2>4
    <3>2. Good(n - 1)
      BY <3>1
    <3>3. f[n] = f[n - 1] \o lines[n]
      BY <1>5, <2>2, <2>4
    <3>4. f[n] \in Seq(Entry)
      BY <2>2, <3>2, <3>3
    <3>5. ASSUME n >= i PROVE ComesTo(proxies, whom, f[n])
      <4>1. CASE n = i
        BY <1>2, <2>2, <3>2, <3>3, <4>1, JoinedComesTo
      <4>2. CASE n # i
        <5>1. n - 1 >= i /\ n > i
          BY <1>1, <1>2, <2>2, <3>5, <4>2
        <5>2. ComesTo(proxies, whom, f[n - 1])
          BY <3>2, <5>1
        <5> QED BY <1>2, <2>2, <3>2, <3>3, <5>1, <5>2, JoinedComesTo
      <4> QED BY <4>1, <4>2
    <3> QED BY <2>1, <3>4, <3>5
  <2> QED BY <2>3, <2>4
<1>7. N \in 1..N /\ N >= i
  BY <1>1, <1>2
<1>8. N \notin bad
  BY <1>6
<1>9. Good(N)
  BY <1>7, <1>8
<1> QED BY <1>4, <1>7, <1>9

-----------------------------------------------------------------------------

\* A request on its way was sent by a peer that is not trusted and comes from a proxy
\* that is, or from the sender itself; behind a proxy the walk over its lines comes
\* to the sender.
Underway ==
    /\ parcel \in [at : {"wire"}, from : Peers, sender : Peers,
                   lines : Seq(Seq(Entry)), hops : Nat]
    /\ ~TrustsPeer(parcel.sender)
    /\ parcel.from = parcel.sender \/
         (TrustsPeer(parcel.from) /\ LinesComeTo(trusted, parcel.sender, parcel.lines))

ClientInv ==
    /\ parcel.at = "wire" => Underway
    /\ ChargedToTheSender

\* A trusted caller is passed over, and is an address like any peer.
LEMMA TrustedIsPassedOver ==
  ASSUME NEW a, TrustsPeer(a)
  PROVE  PassedOver(trusted, a)
  BY DEF TrustsPeer, IpTrusted, PassedOver

\* What a trusted proxy adds keeps the walk on its way to the sender.
LEMMA AddedLine ==
  ASSUME NEW lines \in Seq(Seq(Entry)), NEW proxies, NEW whom \in Entry, NEW caller \in Entry,
         NEW line \in {<<caller>>, <<caller, Blank>>},
         \/ caller = whom
         \/ PassedOver(proxies, caller) /\ LinesComeTo(proxies, whom, lines)
  PROVE  LinesComeTo(proxies, whom, Append(lines, line))
<1> DEFINE more == Append(lines, line)   N == Len(lines)
<1>1. /\ N \in Nat /\ DOMAIN lines = 1..N /\ DOMAIN more = 1..N + 1
      /\ \A i \in 1..N : more[i] = lines[i]
      /\ more[N + 1] = line
  OBVIOUS
<1>2. /\ 1 \in DOMAIN line /\ line[1] = caller
      /\ \A k \in DOMAIN line : k = 1 \/ line[k] = Blank
      /\ \A k \in DOMAIN line : k > 1 => line[k] = Blank
  <2>1. CASE line = <<caller>>
    BY <2>1
  <2>2. CASE line = <<caller, Blank>>
    BY <2>2
  <2> QED BY <2>1, <2>2
<1>3. PassedOver(proxies, Blank)
  BY DEF PassedOver
<1> HIDE DEF more, N
<1>4. CASE caller = whom
  <2>1. ComesTo(proxies, whom, line)
    BY <1>2, <1>3, <1>4 DEF ComesTo
  <2>2. N + 1 \in DOMAIN more /\ \A j \in DOMAIN more : ~(j > N + 1)
    BY <1>1
  <2>3. LinesComeTo(proxies, whom, more)
    BY <1>1, <2>1, <2>2 DEF LinesComeTo
  <2> QED BY <2>3 DEF more
<1>5. CASE PassedOver(proxies, caller) /\ LinesComeTo(proxies, whom, lines)
  <2>1. \A k \in DOMAIN line : PassedOver(proxies, line[k])
    BY <1>2, <1>3, <1>5
  <2>2. PICK i \in 1..N :
          /\ ComesTo(proxies, whom, lines[i])
          /\ \A j \in 1..N : j > i => \A k \in DOMAIN lines[j] : PassedOver(proxies, lines[j][k])
    BY <1>1, <1>5 DEF LinesComeTo
  <2>3. i \in DOMAIN more /\ ComesTo(proxies, whom, more[i])
    BY <1>1, <2>2
  <2>4. ASSUME NEW j \in DOMAIN more, j > i
        PROVE  \A k \in DOMAIN more[j] : PassedOver(proxies, more[j][k])
    <3>1. CASE j \in 1..N
      BY <1>1, <2>2, <2>4, <3>1
    <3>2. CASE j = N + 1
      BY <1>1, <2>1, <3>2
    <3> QED BY <1>1, <3>1, <3>2
  <2>5. LinesComeTo(proxies, whom, more)
    BY <2>3, <2>4 DEF LinesComeTo
  <2> QED BY <2>5 DEF more
<1> QED BY <1>4, <1>5

\* The same when it adds the caller to the last line.
LEMMA AddedEntry ==
  ASSUME NEW lines \in Seq(Seq(Entry)), lines # <<>>,
         NEW proxies, NEW whom \in Entry, NEW caller \in Entry,
         \/ caller = whom
         \/ PassedOver(proxies, caller) /\ LinesComeTo(proxies, whom, lines)
  PROVE  LinesComeTo(proxies, whom,
                     [lines EXCEPT ![Len(lines)] = Append(@, caller)])
<1> DEFINE N == Len(lines)   last == lines[N]
           more == [lines EXCEPT ![N] = Append(@, caller)]
<1>1. /\ N \in Nat /\ DOMAIN lines = 1..N /\ DOMAIN more = 1..N /\ N \in 1..N
      /\ \A i \in 1..N : i # N => more[i] = lines[i]
      /\ more[N] = Append(last, caller)
  BY SMTT(30)
<1>2. last \in Seq(Entry)
  <2>1. \A i \in 1..N : lines[i] \in Seq(Entry)
    OBVIOUS
  <2> QED BY <1>1, <2>1
<1> HIDE DEF more, N, last
<1>3. Append(last, caller) = last \o <<caller>> /\ <<caller>> \in Seq(Entry)
  BY <1>2
<1>4. /\ DOMAIN last \subseteq DOMAIN more[N] /\ DOMAIN last = 1..Len(last) /\ Len(last) \in Nat
      /\ DOMAIN more[N] = 1..Len(last) + 1
      /\ \A k \in DOMAIN last : more[N][k] = last[k]
      /\ more[N][Len(last) + 1] = caller
  BY <1>1, <1>2
<1>5. CASE caller = whom
  <2> DEFINE k == Len(last) + 1
  <2>1. k \in DOMAIN more[N] /\ more[N][k] = whom /\ \A j \in DOMAIN more[N] : ~(j > k)
    BY <1>4, <1>5
  <2> HIDE DEF k
  <2>2. ComesTo(proxies, whom, more[N])
    BY <2>1 DEF ComesTo
  <2>3. N \in DOMAIN more /\ \A j \in DOMAIN more : ~(j > N)
    BY <1>1
  <2>4. LinesComeTo(proxies, whom, more)
    BY <2>2, <2>3 DEF LinesComeTo
  <2> QED BY <2>4 DEF more, N
<1>6. CASE PassedOver(proxies, caller) /\ LinesComeTo(proxies, whom, lines)
  <2>1. \A k \in DOMAIN <<caller>> : PassedOver(proxies, <<caller>>[k])
    BY <1>6
  <2>2. PICK i \in 1..N :
          /\ ComesTo(proxies, whom, lines[i])
          /\ \A j \in 1..N : j > i => \A k \in DOMAIN lines[j] : PassedOver(proxies, lines[j][k])
    BY <1>1, <1>6 DEF LinesComeTo
  <2>3. i = N => ComesTo(proxies, whom, more[N])
    BY <1>1, <1>2, <1>3, <2>1, <2>2, JoinedComesTo DEF last
  <2>4. ComesTo(proxies, whom, more[i])
    BY <1>1, <2>2, <2>3
  <2>5. ASSUME NEW j \in 1..N, j > i
        PROVE  \A k \in DOMAIN more[j] : PassedOver(proxies, more[j][k])
    <3>1. CASE j # N
      BY <1>1, <2>2, <2>5, <3>1
    <3>2. CASE j = N
      <4>1. \A k \in DOMAIN last : PassedOver(proxies, last[k])
        BY <2>2, <2>5, <3>2 DEF last
      <4>2. ASSUME NEW k \in DOMAIN more[N] PROVE PassedOver(proxies, more[N][k])
        <5>1. k \in DOMAIN last \/ k = Len(last) + 1
          BY <1>4
        <5> QED BY <1>4, <1>6, <4>1, <5>1
      <4> QED BY <3>2, <4>2
    <3> QED BY <3>1, <3>2
  <2>6. LinesComeTo(proxies, whom, more)
    BY <1>1, <2>4, <2>5 DEF LinesComeTo
  <2> QED BY <2>6 DEF more, N
<1> QED BY <1>5, <1>6

\* The first of the trusted proxies was called by the sender, each later one by a
\* trusted proxy before it.
LEMMA UnderwayKept ==
  ASSUME Underway, parcel.at = "wire", Forward
  PROVE  Underway'
<1> USE ClientsAssumption
<1> DEFINE from == parcel.from   sender == parcel.sender   lines == parcel.lines
<1>1. PICK p \in Peers :
        /\ TrustsPeer(p)
        /\ \E more \in
             {Append(lines, <<from>>), Append(lines, <<from, Blank>>)}
             \cup IF lines = <<>> THEN {}
                  ELSE {[lines EXCEPT ![Len(lines)] = Append(@, from)]} :
             parcel' = [parcel EXCEPT !.from = p, !.lines = more, !.hops = @ + 1]
  BY DEF Forward
<1>2. PICK more : /\ \/ more = Append(lines, <<from>>)
                     \/ more = Append(lines, <<from, Blank>>)
                     \/ lines # <<>> /\ more = [lines EXCEPT ![Len(lines)] = Append(@, from)]
                  /\ parcel' = [parcel EXCEPT !.from = p, !.lines = more, !.hops = @ + 1]
  BY <1>1
<1>3. trusted' = trusted
  BY DEF Forward
<1>4. /\ from \in Peers /\ sender \in Peers /\ from \in Entry /\ sender \in Entry
      /\ lines \in Seq(Seq(Entry)) /\ parcel.hops \in Nat
      /\ ~TrustsPeer(sender)
  BY DEF Underway, Entry
<1>5. from = sender \/ (PassedOver(trusted, from) /\ LinesComeTo(trusted, sender, lines))
  BY TrustedIsPassedOver DEF Underway
<1>6. LinesComeTo(trusted, sender, more)
  <2>1. CASE more = Append(lines, <<from>>)
    BY <1>4, <1>5, <2>1, AddedLine
  <2>2. CASE more = Append(lines, <<from, Blank>>)
    BY <1>4, <1>5, <2>2, AddedLine
  <2>3. CASE lines # <<>> /\ more = [lines EXCEPT ![Len(lines)] = Append(@, from)]
    BY <1>4, <1>5, <2>3, AddedEntry
  <2> QED BY <1>2, <2>1, <2>2, <2>3
<1>7. more \in Seq(Seq(Entry))
  <2>1. Blank \in Entry
    BY DEF Entry
  <2>2. <<from>> \in Seq(Entry) /\ <<from, Blank>> \in Seq(Entry)
    BY <1>4, <2>1
  <2> HIDE DEF from, lines
  <2>3. Append(lines, <<from>>) \in Seq(Seq(Entry))
    BY <1>4, <2>2
  <2>4. Append(lines, <<from, Blank>>) \in Seq(Seq(Entry))
    BY <1>4, <2>2
  <2>5. CASE lines # <<>> /\ more = [lines EXCEPT ![Len(lines)] = Append(@, from)]
    <3>1. Len(lines) \in 1..Len(lines) /\ lines[Len(lines)] \in Seq(Entry)
      BY <1>4, <2>5
    <3>2. Append(lines[Len(lines)], from) \in Seq(Entry)
      BY <1>4, <3>1
    <3> QED BY <1>4, <2>5, <3>1, <3>2
  <2> QED BY <1>2, <2>3, <2>4, <2>5
<1>8. /\ parcel'.from = p /\ parcel'.lines = more /\ parcel'.sender = sender
      /\ parcel' \in [at : {"wire"}, from : Peers, sender : Peers,
                     lines : Seq(Seq(Entry)), hops : Nat]
  <2>1. parcel \in [at : {"wire"}, from : Peers, sender : Peers,
                    lines : Seq(Seq(Entry)), hops : Nat]
    BY DEF Underway
  <2> DEFINE Wire == [at : {"wire"}, from : Peers, sender : Peers,
                      lines : Seq(Seq(Entry)), hops : Nat]
             Moved(w, m, n) == [w EXCEPT !.from = p, !.lines = m, !.hops = n]
  <2>2. ASSUME NEW w \in Wire, NEW m \in Seq(Seq(Entry)), NEW n \in Nat
        PROVE  /\ Moved(w, m, n) \in Wire
               /\ Moved(w, m, n).from = p
               /\ Moved(w, m, n).lines = m
               /\ Moved(w, m, n).sender = w.sender
    OBVIOUS
  <2>3. parcel.hops + 1 \in Nat /\ parcel \in Wire
    BY <2>1
  <2>4. parcel' = Moved(parcel, more, parcel.hops + 1)
    BY <1>2
  <2> HIDE DEF Wire, Moved
  <2>5. parcel' \in Wire /\ parcel'.from = p /\ parcel'.lines = more
        /\ parcel'.sender = parcel.sender
    BY <1>7, <2>2, <2>3, <2>4
  <2> QED BY <2>5 DEF Wire
<1>9. \A a : TrustsPeer(a)' <=> TrustsPeer(a)
  BY <1>3 DEF TrustsPeer, IpTrusted
<1> HIDE DEF from, sender, lines
<1> QED BY <1>1, <1>3, <1>4, <1>6, <1>7, <1>8, <1>9 DEF Underway

\* Two peers share a bucket when they share an IPv4 address or an IPv6 /64.
LEMMA SharedBucket ==
  ASSUME NEW a \in Address, NEW b \in Address
  PROVE  BucketKey(a) = BucketKey(b) <=>
           /\ V4(a) = V4(b) /\ a.net = b.net
           /\ V4(a) => a.host = b.host
<1>1. IsAddress(a) /\ IsAddress(b)
  BY DEF Address, IsAddress
<1>2. \A m, n, h : /\ <<"/32", m, h>>[1] = "/32"
                   /\ <<"/64", n>>[1] = "/64"
  OBVIOUS
<1>3. \A m, n, h : <<"/32", m, h>> # <<"/64", n>>
  BY <1>2
<1>4. \A m, n, h, g : <<"/32", m, h>> = <<"/32", n, g>> <=> m = n /\ h = g
  OBVIOUS
<1>5. \A m, n : <<"/64", m>> = <<"/64", n>> <=> m = n
  OBVIOUS
<1>6. V4(a) \in BOOLEAN /\ V4(b) \in BOOLEAN
  BY DEF V4, Address
<1>7. CASE V4(a) /\ V4(b)
  BY <1>1, <1>4, <1>7 DEF BucketKey
<1>8. CASE ~V4(a) /\ ~V4(b)
  <2>1. BucketKey(a) = <<"/64", a.net>> /\ BucketKey(b) = <<"/64", b.net>>
    BY <1>1, <1>8 DEF BucketKey
  <2>2. BucketKey(a) = BucketKey(b) <=> a.net = b.net
    BY <1>5, <2>1
  <2>3. V4(a) = V4(b)
    BY <1>6, <1>8
  <2> QED BY <1>8, <2>2, <2>3
<1>9. CASE V4(a) /\ ~V4(b)
  BY <1>1, <1>3, <1>9 DEF BucketKey
<1>10. CASE ~V4(a) /\ V4(b)
  BY <1>1, <1>3, <1>10 DEF BucketKey
<1> QED BY <1>6, <1>7, <1>8, <1>9, <1>10

\* The client of a request on its way is its sender, or, behind a proxy, that proxy
\* when the sender's address has a zone.
LEMMA ClientIsSender ==
  ASSUME Underway
  PROVE  ClientIP(parcel.from, parcel.lines) =
           IF parcel.from # parcel.sender /\ parcel.sender.zone
           THEN parcel.from ELSE parcel.sender
<1> USE ClientsAssumption
<1> DEFINE from == parcel.from   sender == parcel.sender   lines == parcel.lines
           hops == Forwarded(lines)
           stops == {i \in DOMAIN hops : hops[i] # Blank /\ ~(Parses(hops[i]) /\ IpTrusted(hops[i]))}
           stop == CHOOSE i \in stops : \A j \in stops : j <= i
<1>1. /\ from \in Address /\ sender \in Address /\ lines \in Seq(Seq(Entry))
      /\ ~TrustsPeer(sender)
      /\ from = sender \/ (TrustsPeer(from) /\ LinesComeTo(trusted, sender, lines))
  BY DEF Underway
<1>2. ClientIP(from, lines) =
        IF TrustsPeer(from) /\ stops # {} /\ Parses(hops[stop]) THEN hops[stop] ELSE from
  BY DEF ClientIP
<1> HIDE DEF from, sender, lines
<1>3. CASE from = sender
  <2>1. ClientIP(from, lines) = sender
    BY <1>1, <1>2, <1>3
  <2> QED BY <1>3, <2>1 DEF from, sender, lines
<1>4. CASE from # sender
  <2>1. TrustsPeer(from) /\ LinesComeTo(trusted, sender, lines)
    BY <1>1, <1>4
  <2>2. hops \in Seq(Entry) /\ ComesTo(trusted, sender, hops)
    BY <1>1, <2>1, ForwardedComesTo
  <2> HIDE DEF hops
  <2>3. PICK k \in DOMAIN hops :
          /\ hops[k] = sender
          /\ \A j \in DOMAIN hops : j > k => PassedOver(trusted, hops[j])
    BY <2>2 DEF ComesTo
  <2>4. sender # Blank /\ (Parses(sender) <=> ~sender.zone)
    <3>1. "net" \in DOMAIN sender
      BY <1>1 DEF Address
    <3>2. "net" \notin DOMAIN Blank
      BY DEF Blank
    <3> QED BY <3>1, <3>2 DEF Parses, IsAddress
  <2>5. k \in stops
    BY <1>1, <2>1, <2>3, <2>4 DEF TrustsPeer
  <2>6. \A j \in DOMAIN hops : j > k => j \notin stops
    BY <2>3 DEF PassedOver, IpTrusted
  <2>7. stops \subseteq Int
    BY <2>2
  <2> HIDE DEF stops
  <2>8. \A j \in stops : j <= k
    <3>1. stops \subseteq DOMAIN hops
      BY DEF stops
    <3> QED BY <2>5, <2>6, <2>7, <3>1
  <2>9. stop = k
    <3>1. \A i \in stops : (\A j \in stops : j <= i) => i = k
      BY <2>5, <2>7, <2>8
    <3> QED BY <2>5, <2>8, <3>1
  <2> HIDE DEF stop
  <2>10. ClientIP(from, lines) = IF sender.zone THEN from ELSE sender
    BY <1>2, <2>1, <2>3, <2>4, <2>5, <2>9
  <2> QED BY <1>4, <2>10 DEF from, sender, lines
<1> QED BY <1>3, <1>4

\* Every step of a client, a proxy or the server keeps ClientInv.
LEMMA ClientsPreserved == ClientInv /\ [ClientsNext]_clientVars => ClientInv'
<1> SUFFICES ASSUME ClientInv, [ClientsNext]_clientVars PROVE ClientInv'
  OBVIOUS
<1> USE ClientsAssumption
<1>1. CASE Send
  <2>1. PICK p \in Peers, lines \in Headers :
          /\ ~TrustsPeer(p)
          /\ parcel' = [at |-> "wire", from |-> p, sender |-> p, lines |-> lines, hops |-> 0]
    BY <1>1 DEF Send
  <2>2. \A a : TrustsPeer(a)' <=> TrustsPeer(a)
    BY <1>1 DEF Send, TrustsPeer, IpTrusted
  <2>3. Underway'
    BY <2>1, <2>2 DEF Underway
  <2>4. ChargedToTheSender'
    BY <2>1 DEF ChargedToTheSender
  <2> QED BY <2>3, <2>4 DEF ClientInv
<1>2. CASE Forward
  <2>1. parcel.at = "wire" /\ Underway
    BY <1>2 DEF Forward, ClientInv
  <2>2. Underway'
    BY <1>2, <2>1, UnderwayKept
  <2>3. ChargedToTheSender'
    BY <2>2 DEF Underway, ChargedToTheSender
  <2> QED BY <2>2, <2>3 DEF ClientInv
<1>3. CASE Charge
  <2> DEFINE whom == IF parcel.from # parcel.sender /\ parcel.sender.zone
                     THEN parcel.from ELSE parcel.sender
  <2>1. Underway
    BY <1>3 DEF Charge, ClientInv
  <2>2. whom \in Address
    BY <2>1 DEF Underway
  <2>3. /\ parcel'.at = "charged" /\ parcel'.from = parcel.from
        /\ parcel'.sender = parcel.sender
        /\ parcel'.key = BucketKey(ClientIP(parcel.from, parcel.lines))
    BY <1>3 DEF Charge
  <2>4. parcel'.key = BucketKey(whom)
    BY <2>1, <2>3, ClientIsSender
  <2>5. \A p \in Peers : BucketKey(p) = BucketKey(whom) <=>
           /\ V4(p) = V4(whom) /\ p.net = whom.net
           /\ V4(p) => p.host = whom.host
    <3> HIDE DEF whom
    <3> QED BY <2>2, SharedBucket
  <2>6. whom = IF parcel'.from # parcel'.sender /\ parcel'.sender.zone
               THEN parcel'.from ELSE parcel'.sender
    BY <2>3
  <2> HIDE DEF whom
  <2>7. ChargedToTheSender'
    BY <2>4, <2>5, <2>6 DEF ChargedToTheSender
  <2> QED BY <2>3, <2>7 DEF ClientInv
<1>4. CASE UNCHANGED clientVars
  BY <1>4 DEF clientVars, ClientInv, Underway, ChargedToTheSender, TrustsPeer, IpTrusted
<1> QED BY <1>1, <1>2, <1>3, <1>4 DEF ClientsNext

\* ClientInv holds before a request is sent.
LEMMA InitClientInv == ClientsInit \/ ClientsAtRest => ClientInv
  BY DEF ClientsInit, ClientsAtRest, ClientInv, ChargedToTheSender

-----------------------------------------------------------------------------

\* The edges of rows that quote allowed codes truthfully against a base.
LEMMA FromBaseTrue ==
  ASSUME NEW base, NEW rows, RowsTrue(base, rows), NEW source, NEW day \in Dates, NEW e,
         e \in FromBase(base, rows, source, Dated(day, Today))
  PROVE  IsTheMarkets(e)
<1>1. PICK r \in rows : /\ Allowed(r.code) /\ Positive(r.rate)
                        /\ e = Edge(base, r.code, r.rate, source, Dated(day, Today))
  BY DEF FromBase
<1>2. r.rate \in {Price[base] - Price[r.code], NaN}
  BY <1>1 DEF RowsTrue, Quoting, Positive
<1>3. Dated(day, Today) \in {Day, Today}
  BY DEF Dates, Dated
<1> QED BY <1>1, <1>2, <1>3 DEF IsTheMarkets, Edge

\* Adapters that have no date to give put the present there, as for a missing one.
LEMMA DatedNow == Today = Dated(Undated, Today) /\ Undated \in Dates
  BY DEF Dated, Dates

\* What is dropped of a feed leaves the rest as true as it was.
LEMMA FiatOnlyTrue ==
  ASSUME NEW base, NEW rows, RowsTrue(base, rows)
  PROVE  RowsTrue(base, FiatOnly(rows))
  BY DEF FiatOnly, RowsTrue

\* The edges of rows that quote pairs truthfully.
LEMMA FromPairsTrue ==
  ASSUME NEW rows, PairsTrue(rows), NEW source, NEW e, e \in FromPairs(rows, source, Today)
  PROVE  IsTheMarkets(e)
<1>1. PICK r \in rows : /\ Positive(r.rate)
                        /\ e = Edge(r.symbol[1], r.symbol[2], r.rate, source, Dated(r.day, Today))
  BY DEF FromPairs
<1>2. r.rate \in {Price[r.symbol[1]] - Price[r.symbol[2]], NaN}
  BY <1>1 DEF PairsTrue, Quoting, Positive
<1>3. Dated(r.day, Today) \in {Day, Today}
  BY DEF PairsTrue, Dates, Dated
<1> QED BY <1>1, <1>2, <1>3 DEF IsTheMarkets, Edge

\* One lemma for each source: of a truthful document its adapter makes the market's rates.
\* coinbase quotes against USD.
LEMMA CoinbaseTrue ==
  ASSUME NEW i, NEW doc, Truthful("coinbase", i, doc), NEW e \in Coinbase(doc, Today)
  PROVE  IsTheMarkets(e)
<1>1. RowsTrue("USD", doc.rows)
  BY DEF Truthful
<1> QED BY <1>1, DatedNow, FromBaseTrue DEF Coinbase

\* erapi names its base, or means USD.
LEMMA ErapiTrue ==
  ASSUME NEW i, NEW doc, Truthful("erapi", i, doc), NEW e \in Erapi(doc, Today)
  PROVE  IsTheMarkets(e)
<1>1. RowsTrue(OrBase(doc.base, "USD"), doc.rows) /\ doc.day \in Dates
  BY DEF Truthful
<1>2. RowsTrue(OrBase(doc.base, "USD"), FiatOnly(doc.rows))
  BY <1>1, FiatOnlyTrue
<1> QED BY <1>1, <1>2, FromBaseTrue DEF Erapi

\* frankfurter names its base, or means EUR.
LEMMA FrankfurterTrue ==
  ASSUME NEW i, NEW doc, Truthful("frankfurter", i, doc), NEW e \in Frankfurter(doc, Today)
  PROVE  IsTheMarkets(e)
<1>1. RowsTrue(OrBase(doc.base, "EUR"), doc.rows) /\ doc.day \in Dates
  BY DEF Truthful
<1> QED BY <1>1, FromBaseTrue DEF Frankfurter

\* oxr names its base, or means USD.
LEMMA OxrTrue ==
  ASSUME NEW i, NEW doc, Truthful("oxr", i, doc), NEW e \in Oxr(doc, Today)
  PROVE  IsTheMarkets(e)
<1>1. RowsTrue(OrBase(doc.base, "USD"), doc.rows) /\ doc.day \in Dates
  BY DEF Truthful
<1>2. RowsTrue(OrBase(doc.base, "USD"), FiatOnly(doc.rows))
  BY <1>1, FiatOnlyTrue
<1> QED BY <1>1, <1>2, FromBaseTrue DEF Oxr

\* ecb quotes against EUR, in a cube for each day.
LEMMA EcbTrue ==
  ASSUME NEW i, NEW doc, Truthful("ecb", i, doc), NEW e \in Ecb(doc, Today)
  PROVE  IsTheMarkets(e)
<1>1. \A cube \in doc.cubes : RowsTrue("EUR", cube.rows) /\ cube.day \in Dates
  BY DEF Truthful
<1>2. PICK cube \in doc.cubes : e \in FromBase("EUR", cube.rows, "ecb", Dated(cube.day, Today))
  BY DEF Ecb
<1> QED BY <1>1, <1>2, FromBaseTrue

\* tradermade quotes pairs, undated.
LEMMA TraderMadeTrue ==
  ASSUME NEW i, NEW doc, Truthful("tradermade", i, doc), NEW e \in TraderMade(doc, Today)
  PROVE  IsTheMarkets(e)
<1> DEFINE rows == {[symbol |-> r.symbol, rate |-> r.rate, day |-> Undated] : r \in doc.rows}
<1>1. PairsTrue(doc.rows)
  BY DEF Truthful
<1>2. PairsTrue(rows)
  BY <1>1 DEF PairsTrue, Dates
<1> HIDE DEF rows
<1> QED BY <1>2, FromPairsTrue DEF TraderMade, rows

\* polygon quotes pairs, dated.
LEMMA PolygonTrue ==
  ASSUME NEW i, NEW doc, Truthful("polygon", i, doc), NEW e \in Polygon(doc, Today)
  PROVE  IsTheMarkets(e)
<1>1. PairsTrue(doc.rows)
  BY DEF Truthful
<1> QED BY <1>1, FromPairsTrue DEF Polygon

\* twelvedata quotes codes against USD, by name or not.
LEMMA TwelveDataTrue ==
  ASSUME NEW i, NEW doc, Truthful("twelvedata", i, doc), NEW e \in TwelveData(doc, Today)
  PROVE  IsTheMarkets(e)
<1>1. \A r \in doc.rows :
        r.symbol[1] \in {"", "USD"} => r.rate \in Quoting("USD", r.symbol[2])
  BY DEF Truthful
<1>2. PICK r \in doc.rows : /\ r.symbol[1] \in {"", "USD"} /\ Positive(r.rate)
                            /\ e = Edge("USD", r.symbol[2], r.rate, "twelvedata", Today)
  BY DEF TwelveData
<1>3. r.rate \in {Price["USD"] - Price[r.symbol[2]], NaN}
  BY <1>1, <1>2 DEF Quoting, Positive
<1> QED BY <1>2, <1>3 DEF IsTheMarkets, Edge

\* fawazahmed0 quotes against USD, in lower case.
LEMMA FawazTrue ==
  ASSUME NEW i, NEW doc, Truthful("fawazahmed0", i, doc), NEW e \in Fawaz(doc, Today)
  PROVE  IsTheMarkets(e)
<1> DEFINE rows == {[code |-> Upper[r.code], rate |-> r.rate] : r \in doc.rows}
<1>1. (\A r \in doc.rows : r.rate \in Quoting("USD", Upper[r.code])) /\ doc.day \in Dates
  BY DEF Truthful
<1>2. RowsTrue("USD", rows)
  BY <1>1 DEF RowsTrue
<1> HIDE DEF rows
<1> QED BY <1>1, <1>2, FromBaseTrue DEF Fawaz, rows

\* luno quotes pairs; those in ZAR are kept, and XBT is renamed.
LEMMA LunoTrue ==
  ASSUME NEW i, NEW doc, Truthful("luno", i, doc), NEW e \in Luno(doc, Today)
  PROVE  IsTheMarkets(e)
<1>1. PairsTrue(doc.rows)
  BY DEF Truthful
<1>2. PICK r \in doc.rows : /\ r.symbol[2] = "ZAR" /\ Positive(r.rate)
                            /\ e = Edge(NormSym(r.symbol[1]), "ZAR", r.rate, "luno", Dated(r.day, Today))
  BY DEF Luno
<1>3. r.rate \in {Price[r.symbol[1]] - Price["ZAR"], NaN} /\ r.day \in Dates
  BY <1>1, <1>2 DEF PairsTrue, Quoting, Positive
<1>4. Price[NormSym(r.symbol[1])] = Price[r.symbol[1]]
  BY FetchAssumption DEF NormSym
<1>5. Dated(r.day, Today) \in {Day, Today}
  BY <1>3 DEF Dates, Dated
<1> QED BY <1>2, <1>3, <1>4, <1>5 DEF IsTheMarkets, Edge

\* sarb gives rand per foreign unit, under the names of its series.
LEMMA SarbTrue ==
  ASSUME NEW i, NEW doc, Truthful("sarb", i, doc), NEW e \in Sarb(doc, Today)
  PROVE  IsTheMarkets(e)
<1>1. \A r \in doc.rows : r.code \in DOMAIN SarbCodes =>
        r.rate \in Quoting(SarbCodes[r.code], "ZAR") /\ r.day \in Dates
  BY DEF Truthful
<1>2. PICK r \in doc.rows : /\ r.code \in DOMAIN SarbCodes /\ Positive(r.rate)
                            /\ e = Edge(SarbCodes[r.code], "ZAR", r.rate, "sarb", Dated(r.day, Today))
  BY DEF Sarb
<1>3. r.rate \in {Price[SarbCodes[r.code]] - Price["ZAR"], NaN} /\ r.day \in Dates
  BY <1>1, <1>2 DEF Quoting, Positive
<1>4. Dated(r.day, Today) \in {Day, Today}
  BY <1>3 DEF Dates, Dated
<1> QED BY <1>2, <1>3, <1>4 DEF IsTheMarkets, Edge

\* yahoo answers for one symbol a request: each answer is taken for that symbol.
LEMMA YahooTrue ==
  ASSUME NEW docs, \A i \in DOMAIN docs : Truthful("yahoo", i, docs[i]),
         NEW e \in Yahoo(docs, Today)
  PROVE  IsTheMarkets(e)
<1>1. PICK i \in DOMAIN docs :
        /\ Positive(docs[i].rate)
        /\ e = Edge(Symbols[i][1], Symbols[i][2], docs[i].rate, "yahoo", Dated(docs[i].day, Today))
  BY DEF Yahoo
<1>2. docs[i].rate \in Quoting(Symbols[i][1], Symbols[i][2]) /\ docs[i].day \in Dates
  BY DEF Truthful
<1>3. docs[i].rate \in {Price[Symbols[i][1]] - Price[Symbols[i][2]], NaN}
  BY <1>1, <1>2 DEF Quoting, Positive
<1>4. Dated(docs[i].day, Today) \in {Day, Today}
  BY <1>2 DEF Dates, Dated
<1> QED BY <1>1, <1>3, <1>4 DEF IsTheMarkets, Edge

\* sarbrates gives records of several series; the index alone may pass 100.
LEMMA SarbRatesTrue ==
  ASSUME NEW i, NEW doc, Truthful("sarbrates", i, doc), NEW e \in SarbRates(doc)
  PROVE  IsTheMarkets(e)
<1>1. PICK r \in doc.rows : r.day # Undated /\
        \E f \in DOMAIN r.fields \cap DOMAIN ZaroniaSeries :
             /\ f = "ZARONIA_INDEX" \/ r.fields[f] \in 0..100
             /\ e = Observation(ZaroniaSeries[f], r.fields[f], r.day, "sarbrates")
  BY DEF SarbRates
<1>2. PICK f \in DOMAIN r.fields \cap DOMAIN ZaroniaSeries :
             /\ f = "ZARONIA_INDEX" \/ r.fields[f] \in 0..100
             /\ e = Observation(ZaroniaSeries[f], r.fields[f], r.day, "sarbrates")
  BY <1>1
<1>3. r.day = Day /\ r.fields[f] = Level[ZaroniaSeries[f]]
  BY <1>1, <1>2 DEF Truthful, Dates
<1> QED BY <1>2, <1>3 DEF IsTheMarkets, Observation

\* bis gives a level to a row.
LEMMA BisTrue ==
  ASSUME NEW i, NEW doc, Truthful("bis", i, doc), NEW j \in DOMAIN doc, NEW e \in BisRow(doc[j])
  PROVE  IsTheMarkets(e)
<1>1. doc \in Seq(LevelRows)
  BY DEF Truthful
<1>2. doc[j] \in LevelRows
  BY <1>1
<1> DEFINE r == doc[j]
<1>3. /\ r.area # "" /\ r.day # Undated /\ r.value \notin {Zero, NaN}
      /\ e = Observation(r.area, r.value, r.day, "bis")
  BY DEF BisRow
<1>4. r.day = Day /\ r.value = Level[r.area]
  BY <1>2, <1>3 DEF LevelRows, Dates
<1> HIDE DEF r
<1> QED BY <1>3, <1>4 DEF IsTheMarkets, Observation

\* fred answers for one series a request: each answer is taken for that series.
LEMMA FredTrue ==
  ASSUME NEW docs, \A i \in DOMAIN docs : Truthful("fred", i, docs[i]), NEW e \in Fred(docs)
  PROVE  IsTheMarkets(e)
<1>1. PICK i \in DOMAIN docs : \E r \in docs[i].rows :
        r.day # Undated /\ r.value # Zero /\ e = Observation(FredSeries[i], r.value, r.day, "fred")
  BY DEF Fred
<1>2. PICK r \in docs[i].rows :
        r.day # Undated /\ r.value # Zero /\ e = Observation(FredSeries[i], r.value, r.day, "fred")
  BY <1>1
<1>3. r.day = Day /\ r.value \in {Level[FredSeries[i]], NaN}
  BY <1>1, <1>2 DEF Truthful
<1> QED BY <1>2, <1>3 DEF IsTheMarkets, Observation

\* boc walks observations from the latest: the first number found for a currency stands,
\* whether or not a later observation had a row without one.
LEMMA BocTrue ==
  ASSUME NEW i, NEW doc, Truthful("boc", i, doc), NEW e \in Boc(doc, Today)
  PROVE  IsTheMarkets(e)
<1> DEFINE O == doc.observations
           usable(o) == {r \in o.rows : /\ r.symbol[2] = "CAD" /\ Allowed(r.symbol[1])
                                        /\ Positive(r.rate)}
           of(c) == {k \in DOMAIN O : \E r \in usable(O[k]) : r.symbol[1] = c}
<1>1. Len(O) \in Nat /\ DOMAIN O = 1..Len(O) /\ LatestTrue(O)
  BY DEF Truthful
<1>2. PICK k \in DOMAIN O : \E r \in usable(O[k]) :
        /\ Max(of(r.symbol[1])) = k
        /\ e = Edge(r.symbol[1], "CAD", r.rate, "boc", Dated(O[k].day, Today))
  BY DEF Boc
<1>3. PICK r \in usable(O[k]) :
        /\ Max(of(r.symbol[1])) = k
        /\ e = Edge(r.symbol[1], "CAD", r.rate, "boc", Dated(O[k].day, Today))
  BY <1>2
<1>4. \A j \in of(r.symbol[1]) : j <= k
  <2>1. of(r.symbol[1]) \subseteq 0..Len(O) /\ k \in of(r.symbol[1])
    BY <1>1, <1>3
  <2> HIDE DEF of
  <2> QED BY <1>1, <1>3, <2>1, Ends
<1>5. ASSUME NEW j \in DOMAIN O, NEW q \in O[j].rows, j > k,
             q.symbol[1] = r.symbol[1], q.symbol[2] = "CAD"
      PROVE  q.rate = Zero
  <2>1. j \notin of(r.symbol[1])
    BY <1>1, <1>4, <1>5
  <2>2. q \notin usable(O[j])
    BY <1>5, <2>1
  <2> QED BY <1>3, <1>5, <2>2 DEF Positive
<1>6. r.rate \in Quoting(r.symbol[1], "CAD") /\ O[k].day \in Dates
  <2>1. r \in O[k].rows /\ r.symbol[2] = "CAD"
    BY <1>3
  <2> HIDE DEF O
  <2> QED BY <1>1, <1>5, <2>1 DEF LatestTrue
<1>7. r.rate \in {Price[r.symbol[1]] - Price["CAD"], NaN}
  BY <1>3, <1>6 DEF Quoting, Positive
<1>8. Dated(O[k].day, Today) \in {Day, Today}
  BY <1>6 DEF Dates, Dated
<1> HIDE DEF O, usable, of
<1> QED BY <1>3, <1>7, <1>8 DEF IsTheMarkets, Edge

\* The documents a fetch has read so far.
AllTruthful(name, docs) ==
  /\ docs # <<>> => DOMAIN docs # {}
  /\ \A i \in DOMAIN docs : Truthful(name, i, docs[i])

\* What the adapters make of truthful documents is the market's.
LEMMA ParsedTrue ==
  ASSUME NEW name \in FxKnown \cup InterestKnown, NEW docs, AllTruthful(name, docs),
         NEW e \in Parse(name, docs)
  PROVE  IsTheMarkets(e)
<1>1. docs # <<>>
  BY DEF Parse
<1> DEFINE i == CHOOSE i \in DOMAIN docs : TRUE
           doc == docs[i]
<1>2. Truthful(name, i, doc)
  BY <1>1 DEF AllTruthful
<1>3. \A j \in DOMAIN docs : Truthful(name, j, docs[j])
  BY DEF AllTruthful
<1>4. CASE name = "coinbase"
  <2>1. e \in Coinbase(doc, Today)
    BY <1>1, <1>4 DEF Parse
  <2> HIDE DEF doc
  <2> QED BY <1>2, <1>4, <2>1, CoinbaseTrue
<1>5. CASE name = "erapi"
  <2>1. e \in Erapi(doc, Today)
    BY <1>1, <1>5 DEF Parse
  <2> HIDE DEF doc
  <2> QED BY <1>2, <1>5, <2>1, ErapiTrue
<1>6. CASE name = "frankfurter"
  <2>1. e \in Frankfurter(doc, Today)
    BY <1>1, <1>6 DEF Parse
  <2> HIDE DEF doc
  <2> QED BY <1>2, <1>6, <2>1, FrankfurterTrue
<1>7. CASE name = "oxr"
  <2>1. e \in Oxr(doc, Today)
    BY <1>1, <1>7 DEF Parse
  <2> HIDE DEF doc
  <2> QED BY <1>2, <1>7, <2>1, OxrTrue
<1>8. CASE name = "ecb"
  <2>1. e \in Ecb(doc, Today)
    BY <1>1, <1>8 DEF Parse
  <2> HIDE DEF doc
  <2> QED BY <1>2, <1>8, <2>1, EcbTrue
<1>9. CASE name = "tradermade"
  <2>1. e \in TraderMade(doc, Today)
    BY <1>1, <1>9 DEF Parse
  <2> HIDE DEF doc
  <2> QED BY <1>2, <1>9, <2>1, TraderMadeTrue
<1>10. CASE name = "polygon"
  <2>1. e \in Polygon(doc, Today)
    BY <1>1, <1>10 DEF Parse
  <2> HIDE DEF doc
  <2> QED BY <1>2, <1>10, <2>1, PolygonTrue
<1>11. CASE name = "twelvedata"
  <2>1. e \in TwelveData(doc, Today)
    BY <1>1, <1>11 DEF Parse
  <2> HIDE DEF doc
  <2> QED BY <1>2, <1>11, <2>1, TwelveDataTrue
<1>12. CASE name = "fawazahmed0"
  <2>1. e \in Fawaz(doc, Today)
    BY <1>1, <1>12 DEF Parse
  <2> HIDE DEF doc
  <2> QED BY <1>2, <1>12, <2>1, FawazTrue
<1>13. CASE name = "luno"
  <2>1. e \in Luno(doc, Today)
    BY <1>1, <1>13 DEF Parse
  <2> HIDE DEF doc
  <2> QED BY <1>2, <1>13, <2>1, LunoTrue
<1>14. CASE name = "boc"
  <2>1. e \in Boc(doc, Today)
    BY <1>1, <1>14 DEF Parse
  <2> HIDE DEF doc
  <2> QED BY <1>2, <1>14, <2>1, BocTrue
<1>15. CASE name = "sarb"
  <2>1. e \in Sarb(doc, Today)
    BY <1>1, <1>15 DEF Parse
  <2> HIDE DEF doc
  <2> QED BY <1>2, <1>15, <2>1, SarbTrue
<1>16. CASE name = "yahoo"
  <2>1. e \in Yahoo(docs, Today)
    BY <1>1, <1>16 DEF Parse
  <2> HIDE DEF doc
  <2> QED BY <1>3, <1>16, <2>1, YahooTrue
<1>17. CASE name = "sarbrates"
  <2>1. e \in SarbRates(doc)
    BY <1>1, <1>17 DEF Parse
  <2> HIDE DEF doc
  <2> QED BY <1>2, <1>17, <2>1, SarbRatesTrue
<1>18. CASE name = "bis"
  <2>1. PICK j \in DOMAIN doc : e \in BisRow(doc[j])
    BY <1>1, <1>18 DEF Parse
  <2> HIDE DEF doc
  <2> QED BY <1>2, <1>18, <2>1, BisTrue
<1>19. CASE name = "fred"
  <2>1. e \in Fred(docs)
    BY <1>1, <1>19 DEF Parse
  <2> HIDE DEF doc
  <2> QED BY <1>3, <1>19, <2>1, FredTrue
<1> HIDE DEF doc, i
<1> QED BY <1>4, <1>5, <1>6, <1>7, <1>8, <1>9, <1>10, <1>11, <1>12, <1>13,
           <1>14, <1>15, <1>16, <1>17, <1>18, <1>19 DEF FxKnown, InterestKnown

-----------------------------------------------------------------------------

\* The n-th name is known and is not one of those before it.
Chooses(names, known, n) == names[n] \in known /\ \A i \in 1..(n - 1) : names[i] # names[n]

Choosing(names, known, n, f) ==
  f = [i \in 0..n |-> IF i = 0 THEN <<>>
                      ELSE IF Chooses(names, known, i) THEN Append(f[i - 1], names[i])
                      ELSE f[i - 1]]

\* The recursive function of Resolve exists.
LEMMA ChoicesExist ==
  ASSUME NEW names, NEW known, NEW n \in Nat
  PROVE  \E f : Choosing(names, known, n, f)
<1> DEFINE none == {m \in Nat : ~\E f : Choosing(names, known, m, f)}
<1>1. ASSUME none # {} PROVE FALSE
  <2>1. PICK m \in none : \A k \in none : m <= k
    <3>1. none \subseteq Nat
      OBVIOUS
    <3> HIDE DEF none
    <3> QED BY <1>1, <3>1, Least
  <2>2. CASE m = 0
    <3>1. Choosing(names, known, 0, [i \in 0..0 |-> <<>>])
      BY DEF Choosing
    <3> QED BY <2>1, <2>2, <3>1
  <2>3. CASE m # 0
    <3>1. m \in Nat /\ m - 1 \in Nat /\ m - 1 \notin none
      BY <2>1, <2>3
    <3>2. PICK f : Choosing(names, known, m - 1, f)
      BY <3>1
    <3> DEFINE G(g, i) == IF i = 0 THEN <<>>
                          ELSE IF Chooses(names, known, i) THEN Append(g[i - 1], names[i])
                          ELSE g[i - 1]
               g == [i \in 0..m |-> IF i = m THEN G(f, m) ELSE f[i]]
    <3>3. \A i \in 0..m - 1 : f[i] = G(f, i)
      BY <3>2 DEF Choosing
    <3>4. \A i \in 0..m : g[i] = G(g, i)
      <4> TAKE i \in 0..m
      <4>1. i # 0 => i - 1 \in 0..m /\ i - 1 # m
        BY <3>1
      <4>2. i # 0 => g[i - 1] = f[i - 1]
        BY <4>1
      <4>3. i # m => i \in 0..m - 1 /\ g[i] = f[i]
        BY <3>1
      <4>4. g[m] = G(f, m)
        BY <3>1
      <4> HIDE DEF g
      <4>5. CASE i = m
        BY <2>3, <4>2, <4>4, <4>5
      <4>6. CASE i # m
        BY <3>3, <4>2, <4>3, <4>6
      <4> QED BY <4>5, <4>6
    <3>5. g = [i \in 0..m |-> g[i]]
      OBVIOUS
    <3> HIDE DEF g
    <3>6. Choosing(names, known, m, g)
      BY <3>4, <3>5 DEF Choosing
    <3> QED BY <2>1, <3>6
  <2> QED BY <2>2, <2>3
<1> QED BY <1>1

\* s has the first n of these names that are known, each once.
HasOnce(s, names, known, n) ==
  /\ s \in Seq(ToSet(names))
  /\ ToSet(s) = {names[j] : j \in 1..n} \cap known
  /\ IsInjective(s)

\* One turn of the loop.
LEMMA ChosenNext ==
  ASSUME NEW names, NEW known, Len(names) \in Nat, DOMAIN names = 1..Len(names),
         NEW n \in 1..Len(names), NEW s, HasOnce(s, names, known, n - 1)
  PROVE  HasOnce(IF Chooses(names, known, n) THEN Append(s, names[n]) ELSE s, names, known, n)
<1>1. names[n] \in ToSet(names)
  BY DEF ToSet
<1>2. {names[j] : j \in 1..n} = {names[j] : j \in 1..(n - 1)} \cup {names[n]}
  <2>1. 1..n = 1..(n - 1) \cup {n}
    OBVIOUS
  <2> QED BY <2>1
<1>3. CASE Chooses(names, known, n)
  <2> DEFINE t == Append(s, names[n])
  <2>1. /\ s \in Seq(ToSet(names)) /\ IsInjective(s)
        /\ ToSet(s) = {names[j] : j \in 1..(n - 1)} \cap known
    BY DEF HasOnce
  <2>2. /\ t \in Seq(ToSet(names)) /\ DOMAIN t = DOMAIN s \cup {Len(s) + 1}
        /\ Len(s) + 1 \notin DOMAIN s
        /\ t[Len(s) + 1] = names[n] /\ \A i \in DOMAIN s : t[i] = s[i]
    BY <1>1, <2>1
  <2> HIDE DEF t
  <2>3. ToSet(t) = ToSet(s) \cup {names[n]}
    BY <2>2 DEF ToSet
  <2>4. names[n] \in known /\ names[n] \notin ToSet(s)
    BY <1>3, <2>1 DEF Chooses
  <2>5. IsInjective(t)
    BY <2>1, <2>2, <2>4 DEF IsInjective, ToSet
  <2>6. HasOnce(t, names, known, n)
    BY <1>2, <2>1, <2>2, <2>3, <2>4, <2>5 DEF HasOnce
  <2> QED BY <1>3, <2>6 DEF t
<1>4. CASE ~Chooses(names, known, n)
  <2>1. names[n] \in known => names[n] \in {names[j] : j \in 1..(n - 1)}
    BY <1>4 DEF Chooses
  <2>2. {names[j] : j \in 1..n} \cap known = {names[j] : j \in 1..(n - 1)} \cap known
    BY <1>2, <2>1
  <2> QED BY <1>4, <2>2 DEF HasOnce
<1> QED BY <1>3, <1>4

\* Resolve returns the names that are known, each once.
LEMMA ResolvedAre ==
  ASSUME NEW names, NEW known, Len(names) \in Nat, DOMAIN names = 1..Len(names)
  PROVE  /\ Resolve(names, known) \in Seq(ToSet(names))
         /\ ToSet(Resolve(names, known)) = ToSet(names) \cap known
         /\ IsInjective(Resolve(names, known))
<1> DEFINE N == Len(names)
           G(g, i) == IF i = 0 THEN <<>>
                      ELSE IF Chooses(names, known, i) THEN Append(g[i - 1], names[i])
                      ELSE g[i - 1]
           h == CHOOSE g : g = [i \in 0..N |-> G(g, i)]
           bad == {n \in 0..N : ~HasOnce(h[n], names, known, n)}
<1>1. N \in Nat
  OBVIOUS
<1>2. PICK f : Choosing(names, known, N, f)
  BY SMTT(30), <1>1, ChoicesExist
<1>3. h = [i \in 0..N |-> G(h, i)]
  BY <1>2 DEF Choosing
<1>4. Resolve(names, known) = h[N]
  BY DEF Resolve, Chooses
<1> HIDE DEF h
<1>5. \A i \in 0..N : h[i] = G(h, i)
  BY <1>3, Zenon
<1>6. ASSUME bad # {} PROVE FALSE
  <2>1. PICK n \in bad : \A k \in bad : n <= k
    <3>1. bad \subseteq Nat
      OBVIOUS
    <3> HIDE DEF bad
    <3> QED BY <1>6, <3>1, Least
  <2>2. CASE n = 0
    <3>1. h[0] = <<>>
      BY <1>1, <1>5
    <3>2. DOMAIN <<>> = {}
      OBVIOUS
    <3>3. HasOnce(<<>>, names, known, 0)
      BY <3>2 DEF HasOnce, ToSet, IsInjective
    <3> QED BY <2>1, <2>2, <3>1, <3>3
  <2>3. CASE n # 0
    <3>1. n \in 1..N /\ n - 1 \in 0..N /\ n - 1 \notin bad
      BY <1>1, <2>1, <2>3
    <3>2. HasOnce(h[n - 1], names, known, n - 1)
      BY <3>1
    <3>3. h[n] = IF Chooses(names, known, n) THEN Append(h[n - 1], names[n]) ELSE h[n - 1]
      BY <1>5, <3>1
    <3>4. HasOnce(h[n], names, known, n)
      BY <3>1, <3>2, <3>3, ChosenNext
    <3> QED BY <2>1, <3>4
  <2> QED BY <2>2, <2>3
<1>7. HasOnce(h[N], names, known, N)
  BY <1>1, <1>6
<1>8. {names[j] : j \in 1..N} = ToSet(names)
  BY DEF ToSet
<1> HIDE DEF N
<1> QED BY <1>4, <1>7, <1>8 DEF HasOnce

\* The names of one pass, and what a second adds.
Twice(names, known, extra, keys) ==
  LET named == Resolve(names, known) IN Resolve(named \o extra, ToSet(named) \cup keys)

\* A place past the first m of m + n is one of the n that follow.
LEMMA SecondHalf ==
  ASSUME NEW m \in Nat, NEW n \in Nat, NEW i \in 1..(m + n), i \notin 1..m
  PROVE  \E j \in 1..n : i = m + j
<1>1. i - m \in 1..n /\ i = m + (i - m)
  OBVIOUS
<1> QED BY <1>1

\* So does a second pass over them and the names whose key is set.
LEMMA TwiceResolved ==
  ASSUME NEW names, NEW known, NEW extra, NEW keys,
         Len(names) \in Nat, DOMAIN names = 1..Len(names),
         Len(extra) \in Nat, DOMAIN extra = 1..Len(extra)
  PROVE  /\ ToSet(Twice(names, known, extra, keys))
              = (ToSet(names) \cap known) \cup (ToSet(extra) \cap keys)
         /\ IsInjective(Twice(names, known, extra, keys))
<1> DEFINE named == Resolve(names, known)
           both == named \o extra
           all == Resolve(both, ToSet(named) \cup keys)
<1>1. named \in Seq(ToSet(names)) /\ ToSet(named) = ToSet(names) \cap known
  BY ResolvedAre
<1> HIDE DEF named
<1>2. Len(named) \in Nat /\ DOMAIN named = 1..Len(named)
  BY <1>1
<1>3. /\ Len(both) = Len(named) + Len(extra) /\ DOMAIN both = 1..Len(both)
      /\ \A i \in 1..Len(named) : both[i] = named[i]
      /\ \A i \in 1..Len(extra) : both[Len(named) + i] = extra[i]
      /\ \A i \in 1..Len(both) : i \in 1..Len(named)
            \/ \E j \in 1..Len(extra) : i = Len(named) + j
  <2>1. /\ Len(both) = Len(named) + Len(extra) /\ DOMAIN both = 1..Len(both)
        /\ \A i \in 1..Len(named) : both[i] = named[i]
    BY <1>2
  <2>2. ASSUME NEW i \in 1..Len(extra) PROVE both[Len(named) + i] = extra[i]
    BY <1>2
  <2> HIDE DEF both
  <2>3. ASSUME NEW i \in 1..Len(both), i \notin 1..Len(named)
        PROVE  \E j \in 1..Len(extra) : i = Len(named) + j
    <3>1. i \in 1..(Len(named) + Len(extra))
      BY <2>1, Zenon
    <3> QED BY SMTT(30), <1>2, <2>3, <3>1, SecondHalf, Zenon
  <2> QED BY <2>1, <2>2, <2>3, Zenon
<1> HIDE DEF both
<1>4. ToSet(both) = ToSet(named) \cup ToSet(extra)
  <2>1. ASSUME NEW x \in ToSet(both) PROVE x \in ToSet(named) \cup ToSet(extra)
    <3>1. PICK i \in 1..Len(both) : x = both[i]
      BY <1>3 DEF ToSet
    <3>2. CASE i \in 1..Len(named)
      BY <1>2, <1>3, <3>1, <3>2 DEF ToSet
    <3>3. CASE \E j \in 1..Len(extra) : i = Len(named) + j
      BY <1>3, <3>1, <3>3 DEF ToSet
    <3> QED BY <1>3, <3>1, <3>2, <3>3
  <2>2. ASSUME NEW x \in ToSet(named) PROVE x \in ToSet(both)
    BY <1>2, <1>3 DEF ToSet
  <2>3. ASSUME NEW x \in ToSet(extra) PROVE x \in ToSet(both)
    <3>1. PICK j \in 1..Len(extra) : x = extra[j]
      BY DEF ToSet
    <3>2. Len(named) + j \in DOMAIN both /\ both[Len(named) + j] = x
      BY <1>2, <1>3, <3>1
    <3> QED BY <3>2 DEF ToSet
  <2> QED BY <2>1, <2>2, <2>3
<1>5. Len(both) \in Nat
  BY <1>2, <1>3
<1>6. ToSet(all) = ToSet(both) \cap (ToSet(named) \cup keys) /\ IsInjective(all)
  BY <1>3, <1>5, ResolvedAre
<1> HIDE DEF all
<1>7. ToSet(all) = (ToSet(names) \cap known) \cup (ToSet(extra) \cap keys)
  BY <1>1, <1>4, <1>6
<1>8. Twice(names, known, extra, keys) = all
  BY DEF Twice, all, both, named
<1> QED BY <1>6, <1>7, <1>8

\* The sources of a configuration are those asked for, each once.
LEMMA SourcesAre ==
  ASSUME NEW s, NEW S, s.spec \in Seq(S), s.interest \in Seq(S)
  PROVE  /\ Sources(s) = SourcesAsked(s) /\ EachOnce(s)
         /\ Sources(s) \subseteq FxKnown \cup InterestKnown
<1> DEFINE spec == IF s.spec = <<>> THEN DefaultSources ELSE s.spec
           interest == IF s.interest = <<>> THEN <<"bis", "sarbrates">> ELSE s.interest
<1>1. /\ Len(spec) \in Nat /\ DOMAIN spec = 1..Len(spec)
      /\ Len(interest) \in Nat /\ DOMAIN interest = 1..Len(interest)
  <2>1. Len(DefaultSources) = 4 /\ DOMAIN DefaultSources = 1..4
    BY DEF DefaultSources
  <2>2. Len(<<"bis", "sarbrates">>) = 2 /\ DOMAIN <<"bis", "sarbrates">> = 1..2
    OBVIOUS
  <2>3. /\ spec = DefaultSources \/ spec \in Seq(S)
        /\ interest = <<"bis", "sarbrates">> \/ interest \in Seq(S)
    OBVIOUS
  <2> HIDE DEF spec, interest
  <2> QED BY <2>1, <2>2, <2>3
<1>2. ToSet(spec) = NamedOr(s.spec, ToSet(DefaultSources))
  BY DEF NamedOr
<1>3. ToSet(interest) = NamedOr(s.interest, {"bis", "sarbrates"})
  <2>1. ToSet(<<"bis", "sarbrates">>) = {"bis", "sarbrates"}
    BY DEF ToSet
  <2> QED BY <2>1 DEF NamedOr
<1> HIDE DEF spec, interest
<1>4. Len(Paid) = 4 /\ DOMAIN Paid = 1..4 /\ Len(<<"fred">>) = 1 /\ DOMAIN <<"fred">> = 1..1
  BY DEF Paid
<1>5. /\ ToSet(FromEnvSpec(s.spec, s.keys))
           = (ToSet(spec) \cap FxKnown) \cup (ToSet(Paid) \cap s.keys)
      /\ IsInjective(FromEnvSpec(s.spec, s.keys))
  <2>1. FromEnvSpec(s.spec, s.keys) = Twice(spec, FxKnown, Paid, s.keys)
    BY DEF FromEnvSpec, Build, Twice, spec
  <2> QED BY <1>1, <1>4, <2>1, TwiceResolved
<1>6. /\ ToSet(InterestBuild(s.interest, s.keys))
           = (ToSet(interest) \cap InterestKnown) \cup (ToSet(<<"fred">>) \cap s.keys)
      /\ IsInjective(InterestBuild(s.interest, s.keys))
  <2>1. InterestBuild(s.interest, s.keys) = Twice(interest, InterestKnown, <<"fred">>, s.keys)
    BY DEF InterestBuild, Twice, interest
  <2> QED BY <1>1, <1>4, <2>1, TwiceResolved
<1>7. ToSet(<<"fred">>) = {"fred"}
  BY DEF ToSet
<1>8. Sources(s) = SourcesAsked(s) /\ EachOnce(s)
  BY <1>2, <1>3, <1>5, <1>6, <1>7 DEF Sources, SourcesAsked, EachOnce
<1>9. ToSet(Paid) \subseteq FxKnown
  BY <1>4 DEF ToSet, Paid, FxKnown
<1> QED BY <1>5, <1>6, <1>7, <1>8, <1>9 DEF Sources, InterestKnown

\* The least of a set is the one that is least.
LEMMA LeastIs ==
  ASSUME NEW S, S \subseteq Int, NEW m \in S, \A x \in S : m <= x
  PROVE  Min(S) = m
<1>1. \A x \in S : (\A y \in S : x <= y) => x = m
  OBVIOUS
<1> QED BY <1>1 DEF Min

\* A duration that is not refused is that many units; none wraps.
LEMMA DurationIs ==
  ASSUME NEW n \in Int, -15 <= n, n <= 15
  PROVE  Duration(n) = 4 * n
  BY DEF Duration, Half, PerUnit

\* The time a fetch is given is what was asked for.
LEMMA BudgetIs ==
  ASSUME NEW call \in Int, NEW config \in Int, ~ConfigRefused(config)
  PROVE  Budget(call, config) = TimeAsked(call, config)
<1> DEFINE c == IF config <= 0 THEN 10 ELSE config
           k == IF call > 15 THEN 15 ELSE call
<1>1. MaxDuration = 15
  BY DEF MaxDuration, Half, PerUnit
<1>2. -15 <= config /\ config <= 15 /\ c \in 1..15
  BY <1>1 DEF ConfigRefused
<1>3. FetchTimeout(config) = 4 * c
  <2>1. Duration(config) = 4 * config
    BY <1>2, DurationIs
  <2> QED BY <2>1 DEF FetchTimeout, PerUnit
<1>4. call > 0 => CallDeadline(call) = 4 * k
  <2>1. call > 0 => Duration(k) = 4 * k
    BY DurationIs
  <2> QED BY <1>1, <2>1 DEF CallDeadline, Clamped
<1>5. call <= 0 => CallDeadline(call) = 63
  BY DEF CallDeadline, Half
<1>6. CASE call <= 0
  <2>1. Min({63, 4 * c}) = 4 * c
    <3> DEFINE S == {63, 4 * c}
    <3>1. S \subseteq Int /\ 4 * c \in S /\ \A x \in S : 4 * c <= x
      BY <1>2
    <3> HIDE DEF S, c
    <3>2. Min(S) = 4 * c
      BY <3>1, LeastIs
    <3> QED BY <3>2 DEF S
  <2>2. Budget(call, config) = c
    BY <1>2, <1>3, <1>5, <1>6, <2>1 DEF Budget, PerUnit
  <2> DEFINE T == {c, 15} \cup {}
  <2>3. T \subseteq Int /\ c \in T /\ \A x \in T : c <= x
    BY <1>2
  <2> HIDE DEF T, c
  <2>4. Min(T) = c
    BY <2>3, LeastIs
  <2>5. TimeAsked(call, config) = Min(T)
    BY <1>1, <1>6 DEF TimeAsked, T, c
  <2> QED BY <2>2, <2>4, <2>5
<1>7. CASE call > 0
  <2> DEFINE lo == IF c <= call THEN c ELSE call
             S == {4 * k, 4 * c}
             T == {c, 15} \cup {call}
  <2>1. lo = IF k <= c THEN k ELSE c
    BY <1>2, <1>7
  <2>2. S \subseteq Int /\ 4 * lo \in S /\ \A x \in S : 4 * lo <= x
    BY <1>2, <1>7
  <2>3. T \subseteq Int /\ lo \in T /\ \A x \in T : lo <= x
    BY <1>2, <1>7
  <2>4. lo \in Int
    BY <1>2
  <2> HIDE DEF S, T, lo, k, c
  <2>5. Min(S) = 4 * lo /\ Min(T) = lo
    BY <2>2, <2>3, LeastIs
  <2>6. Budget(call, config) = Min(S) \div 4
    BY <1>3, <1>4, <1>7 DEF Budget, PerUnit, S
  <2>7. Budget(call, config) = lo
    BY <2>4, <2>5, <2>6
  <2>8. TimeAsked(call, config) = Min(T)
    BY <1>1, <1>7 DEF TimeAsked, T, c
  <2> QED BY <2>5, <2>7, <2>8
<1> QED BY <1>6, <1>7

-----------------------------------------------------------------------------

(***************************************************************************)
(* The invariant of a fetch.                                               *)
(***************************************************************************)
Asking   == {"dialled", "body", "header", "rows"}
AtWork == {"next"} \cup Asking

\* A fetch under way is of a known source and has read nothing but the truth; what it
\* is reading is also true.
Reads ==
  /\ fetch.name \in FxKnown \cup InterestKnown
  /\ fetch.turn \in Nat \ {0}
  /\ AllTruthful(fetch.name, fetch.docs)
  /\ fetch.name = "bis" => DOMAIN fetch.docs \subseteq {1}
  /\ fetch.at # "next" => fetch.turn <= Attempts(fetch.name)
  /\ fetch.at \in {"body", "header", "rows"} => Truthful(fetch.name, fetch.turn, fetch.body)
  /\ fetch.at \in {"header", "rows"} => fetch.name = "bis"

\* Whom it reached.
Trusted ==
  fetch.reached # <<>> /\ Blocked(fetch.reached[2]) =>
    fetch.reached[1] # [host |-> "name", env |-> "plain"]

IsFetch(f) == f = [at |-> f.at, name |-> f.name, turn |-> f.turn, spent |-> f.spent,
                   left |-> f.left, reached |-> f.reached, body |-> f.body, docs |-> f.docs,
                   err |-> f.err, out |-> f.out]

Told ==
  /\ (fetch.out = {}) # (fetch.err = "none")
  /\ fetch.err # "key"
  /\ \A e \in fetch.out : IsTheMarkets(e)

FetchInv ==
  /\ IsFetch(fetch)
  /\ fetch.at = "begin" =>
       setup \in Setups /\ fetch.turn = 1 /\ fetch.docs = <<>> /\ fetch.out = {}
  /\ fetch.at \in AtWork => Reads
  /\ fetch.at = "returned" => Told
  /\ Trusted

\* FetchInv holds before the fetch begins.
LEMMA InitFetchInv == FetchInit => FetchInv
<1> SUFFICES ASSUME FetchInit PROVE FetchInv
  OBVIOUS
<1> USE DEF FetchInit
<1>1. IsFetch(fetch)
  BY DEF IsFetch
<1> QED BY <1>1 DEF FetchInv, AtWork, Asking, Trusted

\* At rest the fetch has returned, with nothing.
LEMMA AtRestFetchInv == FetchAtRest => FetchInv
<1> SUFFICES ASSUME FetchAtRest PROVE FetchInv
  OBVIOUS
<1> USE DEF FetchAtRest
<1>1. IsFetch(fetch)
  BY DEF IsFetch
<1> QED BY <1>1 DEF FetchInv, AtWork, Asking, Trusted, Told

\* One lemma for each thing a fetch may do.  A request that failed left nothing behind.
LEMMA FailKeeps ==
  ASSUME FetchInv, fetch.at \in AtWork, NEW why, Fail(why), UNCHANGED setup
  PROVE  FetchInv'
<1> DEFINE last == CASE fetch.name = "yahoo" -> "none"
                     [] fetch.name = "fred" /\ fetch.err # "none" -> fetch.err
                     [] OTHER -> why
<1>1. fetch' = [fetch EXCEPT !.at = "next", !.turn = @ + 1, !.spent = 0, !.reached = <<>>,
                             !.body = <<>>, !.err = last]
  BY DEF Fail
<1> HIDE DEF last
<1>2. /\ IsFetch(fetch')
      /\ fetch'.at = "next" /\ fetch'.name = fetch.name /\ fetch'.turn = fetch.turn + 1
      /\ fetch'.reached = <<>> /\ fetch'.docs = fetch.docs
  BY <1>1 DEF IsFetch, FetchInv
<1>3. Reads'
  BY <1>2 DEF FetchInv, Reads
<1> QED BY <1>2, <1>3 DEF FetchInv, Trusted

\* What is known of the documents when one more has been read.
LEMMA OneMoreTruthful ==
  ASSUME NEW name, NEW docs, AllTruthful(name, docs), NEW i, NEW doc, Truthful(name, i, doc)
  PROVE  /\ AllTruthful(name, Holding(docs, i, doc))
         /\ DOMAIN Holding(docs, i, doc) = {i} \cup DOMAIN docs
  BY DEF AllTruthful, Holding

\* A document that was read is one that was published, for the request that was made.
LEMMA SucceedKeeps ==
  ASSUME FetchInv, fetch.at \in {"body", "rows"}, NEW doc,
         Truthful(fetch.name, fetch.turn, doc), Succeed(doc), UNCHANGED setup
  PROVE  FetchInv'
<1> DEFINE turn == IF fetch.name \in Each THEN fetch.turn + 1 ELSE Attempts(fetch.name) + 1
           why == IF fetch.name \in Each THEN fetch.err ELSE "none"
           docs == Holding(fetch.docs, fetch.turn, doc)
<1>1. fetch' = [fetch EXCEPT !.at = "next", !.spent = 0, !.reached = <<>>, !.body = <<>>,
                             !.turn = turn, !.docs = docs, !.err = why]
  BY DEF Succeed
<1>2. fetch.at \in AtWork /\ Reads
  BY DEF FetchInv, AtWork, Asking
<1>3. AllTruthful(fetch.name, docs) /\ DOMAIN docs = {fetch.turn} \cup DOMAIN fetch.docs
  <2>1. \A name, old, i : AllTruthful(name, old) /\ Truthful(name, i, doc) =>
          /\ AllTruthful(name, Holding(old, i, doc))
          /\ DOMAIN Holding(old, i, doc) = {i} \cup DOMAIN old
    BY OneMoreTruthful
  <2>2. AllTruthful(fetch.name, fetch.docs)
    BY <1>2 DEF Reads
  <2> QED BY <2>1, <2>2
<1>4. fetch.turn \in 1..Attempts(fetch.name) /\ Attempts(fetch.name) \in Nat
  <2>1. Attempts(fetch.name) \in Nat
    BY FetchAssumption DEF Attempts
  <2> QED BY <1>2, <2>1 DEF Reads
<1>5. turn \in Nat \ {0}
  BY <1>4
<1>6. fetch.name = "bis" => fetch.turn = 1
  BY <1>4 DEF Attempts, Retried
<1> HIDE DEF turn, why, docs
<1>7. /\ IsFetch(fetch')
      /\ fetch'.at = "next" /\ fetch'.name = fetch.name /\ fetch'.turn = turn
      /\ fetch'.reached = <<>> /\ fetch'.docs = docs
  BY <1>1 DEF IsFetch, FetchInv
<1>8. Reads'
  BY <1>2, <1>3, <1>5, <1>6, <1>7 DEF Reads
<1> QED BY <1>7, <1>8 DEF FetchInv, Trusted

\* The fetch is of a known source: a registry chooses no other.
LEMMA BeginKeeps == FetchInv /\ Begin => FetchInv'
<1> SUFFICES ASSUME FetchInv, Begin PROVE FetchInv'
  OBVIOUS
<1>1. setup \in Setups /\ fetch.turn = 1 /\ fetch.docs = <<>> /\ fetch.out = {} /\ Trusted
      /\ IsFetch(fetch)
  BY DEF Begin, FetchInv
<1> DEFINE keyless(n) == n \in DOMAIN KeyParam \ setup.keys
           at(n) == IF keyless(n) THEN "returned" ELSE "next"
           why(n) == IF keyless(n) THEN "plain" ELSE "none"
           left == Budget(setup.call, setup.config)
<1>2. PICK n \in Sources(setup) :
        fetch' = [fetch EXCEPT !.name = n, !.left = left, !.at = at(n), !.err = why(n)]
  BY DEF Begin
<1>3. at(n) \in {"returned", "next"} /\ (at(n) = "returned" => why(n) = "plain")
  OBVIOUS
<1> HIDE DEF at, why, left
<1>4. n \in FxKnown \cup InterestKnown
  <2>1. setup.spec \in Seq(STRING) /\ setup.interest \in Seq(STRING)
    BY <1>1, FetchAssumption, Zenon
  <2> QED BY <1>2, <2>1, SourcesAre
<1>5. /\ IsFetch(fetch')
      /\ fetch'.at = at(n) /\ fetch'.name = n /\ fetch'.turn = 1 /\ fetch'.reached = fetch.reached
      /\ fetch'.docs = <<>> /\ fetch'.out = {} /\ fetch'.err = why(n)
  BY <1>1, <1>2 DEF IsFetch
<1>6. at(n) = "returned" => Told'
  BY <1>3, <1>5 DEF Told
<1>7. at(n) = "next" => Reads'
  <2>1. DOMAIN <<>> = {}
    OBVIOUS
  <2> QED BY <1>4, <1>5, <2>1 DEF Reads, AllTruthful
<1>8. Trusted'
  BY <1>1, <1>5 DEF Trusted
<1> QED BY <1>3, <1>5, <1>6, <1>7, <1>8 DEF FetchInv, AtWork, Asking

\* What is returned is kept.
LEMMA ReturnKeeps ==
  ASSUME FetchInv, NEW out, NEW why, Return(out, why),
         (out = {}) # (why = "none"), why # "key", \A e \in out : IsTheMarkets(e)
  PROVE  FetchInv'
<1>1. /\ IsFetch(fetch')
      /\ fetch'.at = "returned" /\ fetch'.reached = <<>> /\ fetch'.out = out /\ fetch'.err = why
  BY DEF Return, IsFetch, FetchInv
<1>2. Told'
  BY <1>1 DEF Told
<1> QED BY <1>1, <1>2 DEF FetchInv, Trusted, AtWork, Asking

\* A configuration that is refused fetches nothing.
LEMMA RefuseKeeps == FetchInv /\ Refuse => FetchInv'
  BY ReturnKeeps DEF Refuse

\* Each source's key is in a parameter that is masked.
LEMMA NoKeyShown ==
  ASSUME NEW name, NEW why
  PROVE  Redacted(name, why) = "plain"
<1>1. \A n \in DOMAIN KeyParam : IsSensitive(KeyParam[n])
  BY DEF KeyParam, IsSensitive, Sensitive
<1> QED BY <1>1 DEF Redacted

\* The adapter makes of the documents what they say.
LEMMA FinishKeeps == FetchInv /\ Finish => FetchInv'
<1> SUFFICES ASSUME FetchInv, Finish PROVE FetchInv'
  OBVIOUS
<1> DEFINE out == IF fetch.err # "none" /\ fetch.name \notin Each THEN {}
                  ELSE Parse(fetch.name, fetch.docs)
           why == IF out # {} THEN "none" ELSE Redacted(fetch.name, fetch.err)
<1>1. Return(out, why) /\ fetch.at = "next"
  BY DEF Finish
<1>2. Reads
  BY <1>1 DEF FetchInv, AtWork
<1>3. \A e \in out : IsTheMarkets(e)
  BY <1>2, ParsedTrue DEF Reads
<1>4. (out = {}) # (why = "none") /\ why # "key"
  BY NoKeyShown
<1> HIDE DEF out, why
<1> QED BY <1>1, <1>3, <1>4, ReturnKeeps

\* A name that was not to be trusted is dialled at no blocked address.
LEMMA DialKeeps == FetchInv /\ Dial => FetchInv'
<1> SUFFICES ASSUME FetchInv, Dial PROVE FetchInv'
  OBVIOUS
<1>1. fetch.at = "next" /\ fetch.at \in AtWork /\ Reads /\ More /\ UNCHANGED setup
  BY DEF Dial, FetchInv, AtWork
<1>2. PICK net \in Networks, address \in Addresses :
        IF Guarded(net) /\ Blocked(address) THEN Fail("url")
        ELSE fetch' = [fetch EXCEPT !.at = "dialled", !.reached = <<net, address>>]
  BY DEF Dial
<1>3. CASE Guarded(net) /\ Blocked(address)
  BY <1>1, <1>2, <1>3, FailKeeps
<1>4. CASE ~(Guarded(net) /\ Blocked(address))
  <2>1. /\ IsFetch(fetch')
        /\ fetch'.at = "dialled" /\ fetch'.name = fetch.name /\ fetch'.turn = fetch.turn
        /\ fetch'.reached = <<net, address>> /\ fetch'.docs = fetch.docs
    BY <1>2, <1>4 DEF IsFetch, FetchInv
  <2>2. Reads'
    BY <1>1, <2>1 DEF Reads, More
  <2>3. net = [host |-> "name", env |-> "plain"] => Guarded(net)
    BY DEF Guarded, AllowPrivate, IsConfiguredProxy
  <2>4. Trusted'
    BY <1>4, <2>1, <2>3 DEF Trusted
  <2> QED BY <2>1, <2>2, <2>4 DEF FetchInv
<1> QED BY <1>3, <1>4

\* What is answered is one of the documents of the URL that was asked.
LEMMA ReplyKeeps == FetchInv /\ Reply => FetchInv'
<1> SUFFICES ASSUME FetchInv, Reply PROVE FetchInv'
  OBVIOUS
<1>1. fetch.at = "dialled" /\ fetch.at \in AtWork /\ Reads /\ UNCHANGED setup
  BY DEF Reply, FetchInv, AtWork, Asking
<1>2. CASE Fail("plain")
  BY <1>1, <1>2, FailKeeps
<1>3. ASSUME NEW doc \in DocsOf(fetch.name, fetch.turn),
             fetch' = [fetch EXCEPT !.at = IF fetch.name = "bis" THEN "header" ELSE "body",
                                    !.body = doc, !.reached = <<>>]
      PROVE  FetchInv'
  <2> DEFINE at == IF fetch.name = "bis" THEN "header" ELSE "body"
  <2>1. at \in {"header", "body"} /\ (at = "header" => fetch.name = "bis")
    OBVIOUS
  <2>2. fetch' = [fetch EXCEPT !.at = at, !.body = doc, !.reached = <<>>]
    BY <1>3
  <2> HIDE DEF at
  <2>3. /\ IsFetch(fetch')
        /\ fetch'.at = at /\ fetch'.name = fetch.name /\ fetch'.turn = fetch.turn
        /\ fetch'.reached = <<>> /\ fetch'.docs = fetch.docs /\ fetch'.body = doc
    BY <2>2 DEF IsFetch, FetchInv
  <2>4. fetch.turn \in 1..Attempts(fetch.name)
    <3>1. Attempts(fetch.name) \in Nat
      BY FetchAssumption DEF Attempts
    <3> QED BY <1>1, <3>1 DEF Reads
  <2>5. Truthful(fetch.name, fetch.turn, doc)
    BY <1>1, <1>3, <2>4, DocumentsAssumption, Zenon DEF Reads
  <2>6. Reads'
    BY <1>1, <2>1, <2>3, <2>5 DEF Reads
  <2> QED BY <2>1, <2>3, <2>6 DEF FetchInv, Trusted
<1> QED BY <1>2, <1>3 DEF Reply

\* A body is read as it was sent.
LEMMA ReadBodyKeeps == FetchInv /\ ReadBody => FetchInv'
<1> SUFFICES ASSUME FetchInv, ReadBody PROVE FetchInv'
  OBVIOUS
<1>1. fetch.at = "body" /\ Truthful(fetch.name, fetch.turn, fetch.body)
  BY DEF ReadBody, FetchInv, Reads, AtWork, Asking
<1> QED BY <1>1, SucceedKeeps DEF ReadBody

\* Nothing changes but how far it is, and what it has left.
LEMMA GoesOn ==
  ASSUME FetchInv, fetch.at \in AtWork, IsFetch(fetch'), UNCHANGED setup,
         fetch'.at = fetch.at \/ (fetch.at = "header" /\ fetch'.at = "rows"),
         fetch'.name = fetch.name, fetch'.turn = fetch.turn, fetch'.reached = fetch.reached,
         fetch'.docs = fetch.docs, fetch'.body = fetch.body
  PROVE  FetchInv'
<1>1. Reads'
  BY DEF FetchInv, Reads
<1>2. Trusted'
  BY DEF FetchInv, Trusted
<1> QED BY <1>1, <1>2 DEF FetchInv, AtWork, Asking

\* A header is passed over.
LEMMA ReadHeaderKeeps == FetchInv /\ ReadHeader => FetchInv'
  BY GoesOn DEF ReadHeader, FetchInv, IsFetch, AtWork, Asking

\* Time passes.
LEMMA ElapseKeeps == FetchInv /\ Elapse => FetchInv'
  BY GoesOn DEF Elapse, FetchInv, IsFetch, AtWork, Asking

\* Each row is added to those already read.
LEMMA ReadRowKeeps == FetchInv /\ ReadRow => FetchInv'
<1> SUFFICES ASSUME FetchInv, ReadRow PROVE FetchInv'
  OBVIOUS
<1>1. /\ fetch.at = "rows" /\ fetch.at \in AtWork /\ Reads /\ UNCHANGED setup
      /\ fetch.name = "bis" /\ fetch.body \in Seq(LevelRows)
  BY DEF ReadRow, FetchInv, Reads, AtWork, Asking, Truthful
<1> DEFINE sofar == IF fetch.docs = <<>> THEN <<>> ELSE fetch.docs[1]
<1>2. sofar \in Seq(LevelRows)
  <2>1. CASE fetch.docs = <<>>
    BY <2>1
  <2>2. CASE fetch.docs # <<>>
    <3>1. 1 \in DOMAIN fetch.docs
      BY <1>1, <2>2 DEF Reads, AllTruthful
    <3>2. Truthful("bis", 1, fetch.docs[1])
      BY <1>1, <3>1 DEF Reads, AllTruthful
    <3> QED BY <2>2, <3>2 DEF Truthful
  <2> QED BY <2>1, <2>2
<1> HIDE DEF sofar
<1>3. CASE fetch.body = <<>>
  <2>1. Succeed(sofar)
    BY <1>1, <1>3 DEF ReadRow, sofar
  <2>2. Truthful(fetch.name, fetch.turn, sofar)
    BY <1>1, <1>2 DEF Truthful
  <2> QED BY <1>1, <2>1, <2>2, SucceedKeeps
<1>4. CASE fetch.body # <<>>
  <2> DEFINE row == Append(sofar, Head(fetch.body))
  <2>1. fetch' = [fetch EXCEPT !.body = Tail(fetch.body), !.docs = <<row>>]
    BY <1>1, <1>4 DEF ReadRow, sofar
  <2>2. row \in Seq(LevelRows) /\ Tail(fetch.body) \in Seq(LevelRows)
    BY <1>1, <1>2, <1>4
  <2> HIDE DEF row
  <2>3. /\ IsFetch(fetch')
        /\ fetch'.at = "rows" /\ fetch'.name = "bis" /\ fetch'.turn = fetch.turn
        /\ fetch'.reached = fetch.reached /\ fetch'.docs = <<row>>
        /\ fetch'.body = Tail(fetch.body)
    BY <1>1, <2>1 DEF IsFetch, FetchInv
  <2>4. AllTruthful("bis", <<row>>) /\ DOMAIN <<row>> = {1}
    <3>1. DOMAIN <<row>> = {1} /\ <<row>>[1] = row
      OBVIOUS
    <3>2. Truthful("bis", 1, row)
      BY <2>2 DEF Truthful
    <3> QED BY <3>1, <3>2 DEF AllTruthful
  <2>5. Truthful("bis", fetch.turn, Tail(fetch.body))
    BY <2>2 DEF Truthful
  <2>6. Reads'
    BY <1>1, <2>3, <2>4, <2>5 DEF Reads
  <2>7. Trusted'
    BY <2>3 DEF Trusted, FetchInv
  <2> QED BY <2>3, <2>6, <2>7 DEF FetchInv
<1> QED BY <1>3, <1>4

\* A request that is cut off has failed; a reader of rows never gets out.
LEMMA BreakKeeps == FetchInv /\ Break => FetchInv'
<1> SUFFICES ASSUME FetchInv, Break PROVE FetchInv'
  OBVIOUS
<1>1. CASE fetch.at \in AtWork /\ \E why : Fail(why)
  BY <1>1, FailKeeps DEF Break
<1>2. CASE fetch.at = "rows" /\ fetch' = [fetch EXCEPT !.at = AfterBrokenRow]
  <2>1. IsFetch(fetch') /\ fetch'.at = "broken" /\ fetch'.reached = fetch.reached
    BY <1>2 DEF IsFetch, FetchInv, AfterBrokenRow
  <2>2. Trusted'
    BY <2>1 DEF Trusted, FetchInv
  <2> QED BY <2>1, <2>2 DEF FetchInv, AtWork, Asking
<1> QED BY <1>1, <1>2 DEF Break, AtWork, Asking

\* FetchInv is kept by every step of the fetch.
LEMMA FetchPreserved == FetchInv /\ [FetchNext]_fetchVars => FetchInv'
<1> SUFFICES ASSUME FetchInv, [FetchNext]_fetchVars PROVE FetchInv'
  OBVIOUS
<1>1. CASE UNCHANGED fetchVars
  BY <1>1 DEF fetchVars, FetchInv, IsFetch, Reads, Told, Trusted
<1> QED BY <1>1, BeginKeeps, RefuseKeeps, DialKeeps, ReplyKeeps, ReadBodyKeeps, ReadHeaderKeeps,
           ReadRowKeeps, ElapseKeeps, BreakKeeps, FinishKeeps DEF FetchNext

\* FetchInv is enough.
LEMMA FetchTells == FetchInv => FetchTellsTheTruth
<1> SUFFICES ASSUME FetchInv PROVE FetchTellsTheTruth
  OBVIOUS
<1>1. CASE fetch.at = "begin"
  <2>1. /\ setup.spec \in Seq(STRING) /\ setup.interest \in Seq(STRING)
        /\ setup.call \in Int /\ setup.config \in Int
    <3>1. setup \in Setups
      BY <1>1 DEF FetchInv
    <3> QED BY <3>1, FetchAssumption, Zenon
  <2>2. Sources(setup) = SourcesAsked(setup) /\ EachOnce(setup)
    BY <2>1, SourcesAre
  <2>3. ~ConfigRefused(setup.config) =>
          Budget(setup.call, setup.config) = TimeAsked(setup.call, setup.config)
    BY <2>1, BudgetIs
  <2> QED BY <1>1, <2>2, <2>3 DEF FetchTellsTheTruth, FetchInv, Trusted
<1>2. CASE fetch.at # "begin"
  BY <1>2 DEF FetchTellsTheTruth, FetchInv, Trusted, Told
<1> QED BY <1>1, <1>2

-----------------------------------------------------------------------------

\* Whatever the numbers of goroutines that close and of requests: a Close that returned
\* nil left nothing at work, and a supervising program that has ended left no child.
THEOREM NothingIsLeftBehind == Spec => []NothingLeftBehind
<1>1. Init => CloseInv /\ SidecarInv
  BY LocalPart, SidecarPart, InitCloseInv, AtRestCloseInv, InitSidecarInv
<1>2. CloseInv /\ [Next]_boundaryVars => CloseInv'
  BY LocalPart, ClosePreserved
<1>3. SidecarInv /\ [Next]_boundaryVars => SidecarInv'
  BY SidecarPart, SidecarPreserved
<1>4. CloseInv /\ SidecarInv => NothingLeftBehind
  BY DEF CloseInv, SidecarInv, NothingLeftBehind, NoOrphan
<1> QED BY <1>1, <1>2, <1>3, <1>4, PTL DEF Spec

\* Only calls of Close that overlap can close the limiter's channel twice: a host that
\* closes again and again, one call after the other, never ends the process.
THEOREM SequentialClosesAreSafe == Spec => []RepeatedCloseIsSafe
<1>1. Init => CloseInv /\ SafeInv
  BY LocalPart, InitCloseInv, AtRestCloseInv
<1>2. CloseInv /\ [Next]_boundaryVars => CloseInv'
  BY LocalPart, ClosePreserved
<1>3. CloseInv /\ SafeInv /\ [Next]_boundaryVars => SafeInv'
  BY LocalPart, SafePreserved
<1>4. SafeInv => RepeatedCloseIsSafe
  BY DEF SafeInv
<1> QED BY <1>1, <1>2, <1>3, <1>4, PTL DEF Spec

\* A supervisor that has been told "ready" by its own child converts over rates.
THEOREM ReadyChildHasRates == Spec => []ReadyMeansRates
<1>1. Init => SidecarInv
  BY SidecarPart, InitSidecarInv
<1>2. SidecarInv /\ [Next]_boundaryVars => SidecarInv'
  BY SidecarPart, SidecarPreserved
<1>3. SidecarInv => ReadyMeansRates
  BY DEF SidecarInv, ReadyMeansRates
<1> QED BY <1>1, <1>2, <1>3, PTL DEF Spec

\* Whatever the source, its documents, the configuration, the network and the moment at
\* which each request fails or is cut off: what a fetch returns is the market's, or an
\* error, and its sources, its time, whom it reaches and what its error shows are as
\* they should be.
THEOREM FetchesTellTheTruth == Spec => []FetchTellsTheTruth
<1>1. Init => FetchInv
  BY FetchPart, InitFetchInv, AtRestFetchInv
<1>2. FetchInv /\ [Next]_boundaryVars => FetchInv'
  BY FetchPart, FetchPreserved
<1> QED BY <1>1, <1>2, FetchTells, PTL DEF Spec

\* However many trusted proxies a request passes through, each adding who called it in
\* its own way, and whatever lines the sender came up with: the bucket charged is the
\* sender's, and shared with those of the same IPv4 address or IPv6 /64 alone.
THEOREM SendersPayForThemselves == Spec => []ChargedToTheSender
<1>1. Init => ClientInv
  BY ClientsPart, InitClientInv
<1>2. ClientInv /\ [Next]_boundaryVars => ClientInv'
  BY ClientsPart, ClientsPreserved
<1>3. ClientInv => ChargedToTheSender
  BY DEF ClientInv
<1> QED BY <1>1, <1>2, <1>3, PTL DEF Spec

\* What is read of the Refresher's state, in whatever order its refreshes come between,
\* is what ServingInv says, for any sources, feeds, clock and requests.
LEMMA ServingHolds == Spec => [](ServingInv \/ Resting)
<1>1. Init => ServingInv \/ Resting
  BY ServingPart, InitServingInv
<1>2. (ServingInv \/ Resting) /\ [Next]_boundaryVars => (ServingInv \/ Resting)'
  BY ServingPart, ServingPreserved, RestingStays
<1> QED BY <1>1, <1>2, PTL DEF Spec

\* HTTP, the C ABI and the library convert alike, between any two codes and for any
\* amount written, on any snapshot the Refresher can have made.
THEOREM SurfacesTellOneStory == Spec => []SurfacesAgree
BY ServingHolds, ConversionsAgree, PTL

\* A refresh may land between any two reads of a request: no table mixes two snapshots,
\* no list of currencies comes with the statuses of an earlier one, no age is negative.
THEOREM AnswersAreOfOneMoment == Spec => []OneMomentPerAnswer
BY ServingHolds, AnswersMatch, PTL

\* Whatever the authority of the sources, the currencies with a caveat, the rates quoted
\* and the path found: a conversion graded A is fresh, short, sourced and corroborated.
THEOREM AnAIsEarned == Spec => []GradeAIsEarned
BY ServingHolds, ConversionsAreGradedFairly, PTL
=============================================================================
