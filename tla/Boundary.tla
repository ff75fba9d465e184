------------------------------ MODULE Boundary ------------------------------
(***************************************************************************)
(* openrate at its boundaries: the program that hosts it in its own        *)
(* process (Local) or keeps it as a child (Sidecar), the sources it asks   *)
(* (Fetch), the clients that call (Clients) and what they are told         *)
(* (Serving).  The five share no state, and each behaviour is of one of    *)
(* them: the others are at rest, as they are before or after use.          *)
(***************************************************************************)
EXTENDS Local, Sidecar, Fetch, Clients, Serving

boundaryVars == <<localVars, sidecarVars, fetchVars, clientVars, servingVars>>

SidecarAtRest ==
    /\ sup = "closed" /\ child = "none" /\ port = "nobody"
    /\ rates = FALSE /\ foreign = FALSE

LocalAtRest ==
    /\ ctxDone = FALSE /\ served = FALSE /\ stopped = FALSE
    /\ overlapped = FALSE /\ panicked = FALSE
    /\ loop = [l \in Loops |-> "off"]
    /\ srv = "none"
    /\ request = [r \in Requests |-> "none"]
    /\ sweeper = "none"
    /\ pc = [c \in Callers |-> IF c = Starter THEN "refused" ELSE "idle"]
    /\ err = [c \in Callers |-> "none"]

FetchAtRest ==
    /\ setup = Ran
    /\ fetch = [at |-> "returned", name |-> "", turn |-> 1, spent |-> 0, left |-> 0,
                reached |-> <<>>, body |-> <<>>, docs |-> <<>>, err |-> "plain", out |-> {}]

ClientsAtRest == trusted = {} /\ parcel = [at |-> "none"]

ServingAtRest ==
    /\ clock = Max(Instants)
    /\ graph = <<>> /\ status = <<>> /\ pending = None /\ engine = EmptyBook
    /\ results = MaxResults
    /\ reading = [ask |-> [method |-> "none"], todo |-> <<>>]

Init ==
    \/ LocalInit /\ SidecarAtRest /\ FetchAtRest /\ ClientsAtRest /\ ServingAtRest
    \/ LocalAtRest /\ SidecarInit /\ FetchAtRest /\ ClientsAtRest /\ ServingAtRest
    \/ LocalAtRest /\ SidecarAtRest /\ FetchInit /\ ClientsAtRest /\ ServingAtRest
    \/ LocalAtRest /\ SidecarAtRest /\ FetchAtRest /\ ClientsInit /\ ServingAtRest
    \/ LocalAtRest /\ SidecarAtRest /\ FetchAtRest /\ ClientsAtRest /\ ServingInit

\* Nothing that happens after the answer changes it.
ServeOne == ServingNext /\ ~\E q \in Asked : Answered(q.method)

Next ==
    \/ LocalNext /\ UNCHANGED <<sidecarVars, fetchVars, clientVars, servingVars>>
    \/ SidecarNext /\ UNCHANGED <<localVars, fetchVars, clientVars, servingVars>>
    \/ FetchNext /\ UNCHANGED <<localVars, sidecarVars, clientVars, servingVars>>
    \/ ClientsNext /\ UNCHANGED <<localVars, sidecarVars, fetchVars, servingVars>>
    \/ ServeOne /\ UNCHANGED <<localVars, sidecarVars, fetchVars, clientVars>>

Fairness == LocalFairness /\ SidecarFairness /\ FetchFairness

Spec == Init /\ [][Next]_boundaryVars /\ Fairness

-----------------------------------------------------------------------------

\* When Close has returned nil, or a supervising program has ended, nothing of what it
\* started is left: no fetch in flight, loop, request or server (openrate.go:187), no
\* child, running or unreaped (sidecar/main.go:235).
NothingLeftBehind == CloseNilMeansQuiet /\ NoOrphan

\* Every Start and Close, every program with a sidecar and every fetch but bis's comes
\* to its end, whatever a source, a client or the child does.
EveryCallReturns == LocalCallsReturn /\ SidecarCallsReturn /\ FetchReturns
=============================================================================
