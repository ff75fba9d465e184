------------------------------- MODULE Local -------------------------------
(***************************************************************************)
(* openrate.Start and the handle it returns: the loops and the server it   *)
(* launches, the wait for the listener, and Close, which any number of     *)
(* host goroutines may call.  net/http's server is used by its contract:   *)
(* Shutdown closes the listener and waits for the requests in flight or    *)
(* for its ctx, and Serve returns once Shutdown has begun.                 *)
(***************************************************************************)
EXTENDS FiniteSets

CONSTANTS
    Closers,        \* the host goroutines that may call Close
    Requests        \* the requests a client may send

Starter == "Start"               \* the goroutine in Start, which closes when it fails
Loops   == {"refresher", "interest"}
Callers == Closers \cup {Starter}

ASSUME LocalAssumption == Starter \notin Closers

VARIABLES
    ctxDone,        \* l.cancel has been called
    loop,           \* per loop: off, idle, fetching, wedged (ignores its ctx), gone
    srv,            \* none, bound, accepting, shut
    served,         \* l.done is closed: Serve has returned
    request,        \* per request: none, active, stuck (its client is slow), over
    sweeper,        \* the limiter's goroutine: none, running, gone
    stopped,        \* the limiter's done channel is closed
    pc,             \* per caller: where it is in Start or Close
    err,            \* per caller: what its Close has to report
    overlapped,     \* history: two calls of Close were once under way together
    panicked        \* a close of the closed channel ended the process

background == <<loop, srv, served, request, sweeper>>
history    == <<overlapped, panicked>>
localVars  == <<ctxDone, background, stopped, pc, err, history>>

InClose == {"cancel", "stop", "close_done", "shutdown", "drain", "drain_late",
            "serve", "loops", "loops_late"}

LocalTypeOK ==
    /\ {ctxDone, served, stopped, overlapped, panicked} \subseteq BOOLEAN
    /\ loop \in [Loops -> {"off", "idle", "fetching", "wedged", "gone"}]
    /\ srv \in {"none", "bound", "accepting", "shut"}
    /\ request \in [Requests -> {"none", "active", "stuck", "over"}]
    /\ sweeper \in {"none", "running", "gone"}
    /\ pc \in [Callers -> {"idle", "start", "poll", "done", "refused"} \cup InClose]
    /\ err \in [Callers -> {"none", "shutdown", "loops"}]

Quiet     == \A r \in Requests : request[r] \in {"none", "over"}
LoopsGone == \A l \in Loops : loop[l] \in {"off", "gone"}

LocalInit ==
    /\ ctxDone = FALSE /\ served = FALSE /\ stopped = FALSE
    /\ overlapped = FALSE /\ panicked = FALSE
    /\ loop = [l \in Loops |-> "off"]
    /\ srv = "none"
    /\ request = [r \in Requests |-> "none"]
    /\ sweeper = "none"
    /\ pc = [c \in Callers |-> IF c = Starter THEN "start" ELSE "idle"]
    /\ err = [c \in Callers |-> "none"]

At(c, here) == pc[c] = here /\ ~panicked
Goto(c, there) == pc' = [pc EXCEPT ![c] = there]
Report(c, e) == err' = [err EXCEPT ![c] = e]

-----------------------------------------------------------------------------
(* Start.                                                                   *)

\* No valid source, or an address that cannot be bound: nothing was started.
StartRefused ==
    /\ At(Starter, "start") /\ Goto(Starter, "refused")
    /\ UNCHANGED <<ctxDone, background, stopped, err, history>>

\* The loops, which begin with a refresh (the interest rates' when there are sources for
\* it), the handler, which creates the limiter and its sweeper when a rate limit is set,
\* and the goroutine that will call Serve.
Launch ==
    /\ At(Starter, "start") /\ Goto(Starter, "poll")
    /\ loop' \in [Loops -> {"off", "fetching", "wedged"}] /\ loop'["refresher"] # "off"
    /\ sweeper' \in {"none", "running"}
    /\ srv' = "bound"
    /\ UNCHANGED <<ctxDone, served, request, stopped, err, history>>

\* waitHealthy: /healthz answered, or the deadline passed first and Start
\* closes what it has launched.
Healthy ==
    /\ At(Starter, "poll") /\ srv = "accepting" /\ Goto(Starter, "done")
    /\ UNCHANGED <<ctxDone, background, stopped, err, history>>

NeverHealthy ==
    /\ At(Starter, "poll") /\ Goto(Starter, "cancel")
    /\ UNCHANGED <<ctxDone, background, stopped, err, history>>

-----------------------------------------------------------------------------
(* What runs in the background: each loop, the server, the sweeper.         *)

LoopStep(l, from, to) ==
    /\ loop[l] = from /\ ~panicked
    /\ loop' = [loop EXCEPT ![l] = to]
    /\ UNCHANGED <<ctxDone, srv, served, request, sweeper, stopped, pc, err, history>>

\* A source may ignore the ctx of its fetch, and then end late or never.  With a tick
\* pending, select may take it though ctx is done.
Tick(l)     == \E s \in {"fetching", "wedged"} : LoopStep(l, "idle", s)
FetchOver(l) == LoopStep(l, "fetching", "idle")
Unwedged(l)  == LoopStep(l, "wedged", "idle")
LoopEnds(l)  == ctxDone /\ LoopStep(l, "idle", "gone")

Accept ==
    /\ srv = "bound" /\ srv' = "accepting" /\ ~panicked
    /\ UNCHANGED <<ctxDone, loop, served, request, sweeper, stopped, pc, err, history>>

ServeReturns ==
    /\ srv = "shut" /\ ~served /\ served' = TRUE /\ ~panicked
    /\ UNCHANGED <<ctxDone, loop, srv, request, sweeper, stopped, pc, err, history>>

RequestStep(r, from, to) ==
    /\ request[r] = from /\ ~panicked
    /\ request' = [request EXCEPT ![r] = to]
    /\ UNCHANGED <<ctxDone, loop, srv, served, sweeper, stopped, pc, err, history>>

\* A client may read so slowly that its request ends late or never.
Arrive(r) == srv = "accepting" /\ \E s \in {"active", "stuck"} : RequestStep(r, "none", s)
Answer(r) == RequestStep(r, "active", "over")
Unstuck(r) == RequestStep(r, "stuck", "over")

\* gc's select takes the closed done channel.
SweeperEnds ==
    /\ sweeper = "running" /\ stopped /\ sweeper' = "gone" /\ ~panicked
    /\ UNCHANGED <<ctxDone, loop, srv, served, request, stopped, pc, err, history>>

-----------------------------------------------------------------------------
(* Close, by a host goroutine (again and again) or by a Start that failed.  *)

Call(c) ==
    /\ At(Starter, "done") /\ pc[c] \in {"idle", "done"} /\ c # Starter
    /\ Goto(c, "cancel") /\ Report(c, "none")
    /\ overlapped' = (overlapped \/ \E d \in Callers : pc[d] \in InClose)
    /\ UNCHANGED <<ctxDone, background, stopped, panicked>>

Cancel(c) ==
    /\ At(c, "cancel") /\ Goto(c, "stop")
    /\ ctxDone' = TRUE
    /\ UNCHANGED <<background, stopped, err, history>>

\* serve.Server.Close and the check in Limiter.Stop: is there a limiter, and
\* its done channel open?  Nothing is held between the check and the close.
MustStopUnchecked == sweeper # "none"        \* for a mutant: no check
MustStop == sweeper # "none" /\ ~stopped

StopCheck(c) ==
    /\ At(c, "stop") /\ Goto(c, IF MustStop THEN "close_done" ELSE "shutdown")
    /\ UNCHANGED <<ctxDone, background, stopped, err, history>>

StopClose(c) ==
    /\ At(c, "close_done") /\ Goto(c, "shutdown")
    /\ stopped' = TRUE
    /\ panicked' = stopped
    /\ UNCHANGED <<ctxDone, background, err, overlapped>>

Shutdown(c) ==
    /\ At(c, "shutdown") /\ Goto(c, "drain")
    /\ srv' = "shut"
    /\ UNCHANGED <<ctxDone, loop, served, request, sweeper, stopped, err, history>>

\* Five seconds of Close have passed: of Shutdown's, or of the loops'.
Late(c) ==
    /\ \/ At(c, "drain") /\ Goto(c, "drain_late")
       \/ At(c, "loops") /\ Goto(c, "loops_late")
    /\ UNCHANGED <<ctxDone, background, stopped, err, history>>

Drained(c) ==
    /\ \/ At(c, "drain") /\ Quiet /\ Report(c, "none")
       \/ At(c, "drain_late") /\ Report(c, "shutdown")
    /\ Goto(c, "serve")
    /\ UNCHANGED <<ctxDone, background, stopped, history>>

AwaitServe(c) ==
    /\ At(c, "serve") /\ served /\ Goto(c, "loops")
    /\ UNCHANGED <<ctxDone, background, stopped, err, history>>

\* The select over the loops' end and the timer; an error of Shutdown is kept.
LoopsWait(c) == LoopsGone                    \* for a mutant: a wait without a bound
LoopsNoWait(c) == TRUE                       \* for a mutant: Close as it once was
LoopsOver(c) == LoopsGone \/ pc[c] = "loops_late"

AwaitLoops(c) ==
    /\ At(c, "loops") \/ At(c, "loops_late")
    /\ LoopsOver(c)
    /\ \/ Report(c, IF pc[c] = "loops_late" /\ err[c] = "none" THEN "loops" ELSE err[c])
       \/ LoopsGone /\ UNCHANGED err
    /\ Goto(c, IF c = Starter THEN "refused" ELSE "done")
    /\ UNCHANGED <<ctxDone, background, stopped, history>>

-----------------------------------------------------------------------------
LocalNext ==
    \/ StartRefused \/ Launch \/ Healthy \/ NeverHealthy
    \/ \E l \in Loops : Tick(l) \/ FetchOver(l) \/ Unwedged(l) \/ LoopEnds(l)
    \/ Accept \/ ServeReturns \/ SweeperEnds
    \/ \E r \in Requests : Arrive(r) \/ Answer(r) \/ Unstuck(r)
    \/ \E c \in Callers :
         \/ Call(c) \/ Cancel(c) \/ StopCheck(c) \/ StopClose(c) \/ Shutdown(c)
         \/ Late(c) \/ Drained(c) \/ AwaitServe(c) \/ AwaitLoops(c)

\* A goroutine that can go on does, and a timer fires.  Nothing obliges a fetch
\* or a slow client to end, a loop to look at its ctx in time, a host to call
\* Close, or the network to bring a request.
LocalFairness ==
    /\ WF_localVars(Launch) /\ WF_localVars(Healthy \/ NeverHealthy)
    /\ WF_localVars(Accept) /\ WF_localVars(ServeReturns)
    /\ \A r \in Requests : WF_localVars(Answer(r))
    /\ \A c \in Callers :
         WF_localVars(\/ Cancel(c) \/ StopCheck(c) \/ StopClose(c) \/ Shutdown(c)
                      \/ Late(c) \/ Drained(c) \/ AwaitServe(c) \/ AwaitLoops(c))

LocalSpec == LocalInit /\ [][LocalNext]_localVars /\ LocalFairness

-----------------------------------------------------------------------------
(* Properties.                                                              *)

\* A Close that returned nil left nothing of the engine at work: no fetch in
\* flight, no loop, no request, no server, and the limiter told to stop
\* (openrate.go:187, "waits for the server AND the background loops to stop").
CloseNilMeansQuiet ==
    \A c \in Closers : pc[c] = "done" /\ err[c] = "none" =>
        LoopsGone /\ Quiet /\ served /\ (sweeper = "none" \/ stopped)

\* Start and Close return whatever a source or a client does: a wedged fetch
\* "must not turn Close into a hang" (openrate.go:198), and the Close of a
\* Start that failed is the same.
LocalCallsReturn ==
    \A c \in Callers : pc[c] \in InClose \cup {"start", "poll"}
                         ~> pc[c] \in {"done", "refused"} \/ panicked

\* Close is "safe to call more than once" (serve.go:141, ratelimit.go:127) as
\* long as the calls do not overlap: two that do may both find the limiter's
\* channel open, and the second close of it ends the process.
RepeatedCloseIsSafe == panicked => overlapped

=============================================================================
