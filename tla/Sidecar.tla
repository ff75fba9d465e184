------------------------------ MODULE Sidecar ------------------------------
(***************************************************************************)
(* A program that keeps openrate as a child process: startSidecar, the     *)
(* wait for the listener, the wait for rates, the calls and Close, against *)
(* the child, which is cmd/openrate's main.  The port is chosen by binding *)
(* and releasing it, so some other openrate may get it before the child;   *)
(* the child may fail to start, crash, hang, and never get a rate.  A      *)
(* child that has exited stays a zombie until it is reaped.  waitLive also *)
(* looks at cmd.ProcessState, which nothing sets before Close: it never    *)
(* fires, and a child that is gone is polled until the deadline.           *)
(***************************************************************************)
EXTENDS Naturals

VARIABLES
    sup,            \* where the supervising program is
    child,          \* none, booting, running, serving, draining, zombie, reaped
    port,           \* who answers on the port: nobody, child, stranger
    rates,          \* the child's engine holds a currency
    foreign         \* history: a stranger has held the port

sidecarVars == <<sup, child, port, rates, foreign>>

InClose2 == {"signal", "reap", "kill", "reap_killed"}
Over     == {"failed", "closed"}       \* startSidecar returned an error; Close returned
Alive    == {"booting", "running", "serving", "draining"}

SidecarTypeOK ==
    /\ sup \in {"port", "spawn", "live", "ready", "ask"} \cup InClose2 \cup Over
    /\ child \in {"none", "zombie", "reaped"} \cup Alive
    /\ port \in {"nobody", "child", "stranger"}
    /\ {rates, foreign} \subseteq BOOLEAN

SidecarInit ==
    /\ sup = "port" /\ child = "none" /\ port = "nobody"
    /\ rates = FALSE /\ foreign = FALSE

Supervisor(from, to) == sup = from /\ sup' = to
Idle == UNCHANGED <<child, port, rates, foreign>>

-----------------------------------------------------------------------------
(* The supervising program.                                                 *)

FreePort == (Supervisor("port", "spawn") \/ Supervisor("port", "failed")) /\ Idle

Spawn ==
    \/ Supervisor("spawn", "failed") /\ Idle
    \/ /\ Supervisor("spawn", "live")
       /\ child' = "booting"
       /\ UNCHANGED <<port, rates, foreign>>

\* /healthz: openrate answers 200 as soon as it listens; a stranger may be
\* another openrate.  Any other answer, or none, is polled again.
PollLive == port # "nobody" /\ Supervisor("live", "ready") /\ Idle

\* "On any failure it kills whatever it started."
AfterNoAnswerLeft == "failed"                \* for a mutant: the child is left
AfterNoAnswer     == "signal"
LiveTimeout == Supervisor("live", AfterNoAnswer) /\ Idle

\* /readyz of the child is 200 exactly when its snapshot has a currency.
AnswersAlive == port # "nobody"              \* for a mutant: readiness asked of /healthz
AnswersReady == port = "stranger" \/ (port = "child" /\ rates)
PollReady == AnswersReady /\ Supervisor("ready", "ask") /\ Idle

\* waitReady's timeout, or the ctx of the whole run.
ReadyTimeout == Supervisor("ready", "signal") /\ Idle

\* meta, convert, rates: whatever they answer, the deferred Close follows.
Ask == Supervisor("ask", "signal") /\ Idle

\* Close: SIGINT, which before main has its handler ends the process at once.
Interrupt ==
    /\ Supervisor("signal", "reap")
    /\ child' = IF child = "booting" THEN "zombie"
                ELSE IF child \in {"running", "serving"} THEN "draining" ELSE child
    /\ port' = IF port = "child" THEN "nobody" ELSE port
    /\ UNCHANGED <<rates, foreign>>

Reap ==
    /\ child = "zombie"
    /\ Supervisor("reap", "closed") \/ Supervisor("reap_killed", "closed")
    /\ child' = "reaped"
    /\ UNCHANGED <<port, rates, foreign>>

\* Five seconds after the signal: Kill, and wait for it.
CloseLate == Supervisor("reap", "kill") /\ Idle
Kill ==
    /\ Supervisor("kill", "reap_killed")
    /\ child' = "zombie"
    /\ UNCHANGED <<port, rates, foreign>>

-----------------------------------------------------------------------------
(* The child.                                                               *)

Child(from, to) == child = from /\ child' = to /\ UNCHANGED <<sup, foreign>>

\* main: the flags and the sources, then the signal handler; or no valid source.
Boot == (Child("booting", "running") \/ Child("booting", "zombie"))
        /\ UNCHANGED <<port, rates>>

\* ListenAndServe, which ends the process when the port is taken.
Listen ==
    \/ Child("running", "serving") /\ port = "nobody" /\ port' = "child" /\ UNCHANGED rates
    \/ Child("running", "zombie") /\ port = "stranger" /\ UNCHANGED <<port, rates>>

\* A refresh that got something; a later failure keeps it (refresh.go:165).
GetRates == \E c \in {"running", "serving"} : Child(c, c) /\ rates' = TRUE /\ UNCHANGED port

\* Shutdown returned, in at most five seconds, and main with it.
Exit == Child("draining", "zombie") /\ UNCHANGED <<port, rates>>

Crash ==
    /\ child \in Alive
    /\ Child(child, "zombie")
    /\ port' = IF port = "child" THEN "nobody" ELSE port
    /\ UNCHANGED rates

\* Another process takes the free port, or leaves it.
Stranger ==
    /\ sup \notin {"port"} \cup Over
    /\ \/ port = "nobody" /\ port' = "stranger" /\ foreign' = TRUE
       \/ port = "stranger" /\ port' = "nobody" /\ UNCHANGED foreign
    /\ UNCHANGED <<sup, child, rates>>

-----------------------------------------------------------------------------
SupervisorNext ==
    \/ FreePort \/ Spawn \/ PollLive \/ LiveTimeout \/ PollReady \/ ReadyTimeout
    \/ Ask \/ Interrupt \/ Reap \/ CloseLate \/ Kill

SidecarNext ==
    \/ SupervisorNext
    \/ Boot \/ Listen \/ GetRates \/ Exit \/ Crash \/ Stranger

\* The program goes on and its timers fire; the child is obliged to nothing
\* but, being a process, to die when it is killed.
SidecarFairness == WF_sidecarVars(SupervisorNext)

SidecarSpec == SidecarInit /\ [][SidecarNext]_sidecarVars /\ SidecarFairness

-----------------------------------------------------------------------------
(* Properties.                                                              *)

\* When startSidecar has returned an error, or Close has returned, no child is
\* left, neither running nor unreaped ("a caller never has to clean up after a
\* constructor that returned an error", main.go:235).
NoOrphan == sup \in Over => child \in {"none", "reaped"}

\* Whoever converts after waitReady is not told "unknown pair" for want of
\* rates: unless a stranger has had the port, the child that still serves has
\* a currency (main.go:317 on why /healthz is not that).
ReadyMeansRates ==
    sup = "ask" /\ child = "serving" /\ ~foreign => rates

\* The program ends, with its child, however the child behaves.
SidecarCallsReturn == <>(sup \in Over)

=============================================================================
