--------------------------------- MODULE Abi ---------------------------------
(***************************************************************************)
(* The handle registry and the object lifetimes of the C ABI (ffi/abi).    *)
(*                                                                         *)
(* Host threads create engines, build refreshers over them, call methods   *)
(* on handles and close handles, all at once and on the same handles.  A   *)
(* call first looks its handle up, under the registry lock, and then works *)
(* on the object, under the object's lock: whatever happens in between is  *)
(* what this module is about.  Each critical section of the code is one    *)
(* action; no lock is held across a wait, and the one place that takes two *)
(* (adopt) takes them in the package's declared order.                     *)
(*                                                                         *)
(* An operation that answers with an error before it changes anything, a   *)
(* stale handle or the wrong kind of one, is a step that changes nothing   *)
(* and is left out.                                                        *)
(***************************************************************************)
EXTENDS Integers, FiniteSets

CONSTANTS
  Threads,     \* threads of the host
  MaxHandle,   \* bound: handles 1..MaxHandle are given out
  LoopIds,     \* bound: loops of one refresher that exist at a time
  Methods      \* the refresher methods the host calls

ASSUME AbiAssumption ==
  /\ MaxHandle \in Nat
  /\ LoopIds \subseteq Nat \ {0}
  /\ Methods \subseteq {"refresh", "ready", "start", "stop"}

Handles == 1..MaxHandle

VARIABLES
  registry,   \* the handles in `objects'
  next,       \* the next handle reserve gives out
  obj,        \* the object made for each handle, also after its close
  loops,      \* <<h, i>>: the goroutines of start that have not returned
  ended,      \* the loops whose ctx has been cancelled
  th,         \* the threads: where each is and what it holds
  cut,        \* the threads whose call's ctx has been cancelled
  retired     \* history: the handles whose close has returned

vars == <<registry, next, obj, loops, ended, th, cut, retired>>

\* engineObj and refresherObj together: parent, cancel, inflight and drained
\* are a refresher's, children and loaded an engine's.  cancel is the loop
\* o.cancel and o.stopped belong to, 0 when they are nil.
\* The order of the list of children is left out: a closing engine may take them
\* in any order.
NoObject == [kind |-> "none", parent |-> 0, closed |-> FALSE, children |-> {},
             loaded |-> FALSE, cancel |-> 0, inflight |-> {}, drained |-> "nil"]

EngineObj == [NoObject EXCEPT !.kind = "engine"]
RefresherObj(e) == [NoObject EXCEPT !.kind = "refresher", !.parent = e]

Idle == [pc |-> "idle", at |-> 0, over |-> 0, loop |-> 0, pending |-> {}, todo |-> {}]

Init ==
  /\ registry = {}
  /\ next = 1
  /\ obj = [h \in Handles |-> NoObject]
  /\ loops = {} /\ ended = {}
  /\ th = [t \in Threads |-> Idle]
  /\ cut = {}
  /\ retired = {}

At(t, p) == th[t].pc = p

Goto(t, p) == th' = [th EXCEPT ![t].pc = p]

Finish(t) == th' = [th EXCEPT ![t] = Idle]

(***************************************************************************)
(* New and NewRefresher.                                                   *)
(***************************************************************************)
New(t) ==
  /\ At(t, "idle") /\ next \in Handles
  /\ next' = next + 1
  /\ obj' = [obj EXCEPT ![next] = EngineObj]
  /\ registry' = registry \cup {next}
  /\ UNCHANGED <<loops, ended, th, cut, retired>>

\* NewRefresher's lookup, and the reserve that follows it.
NewRefresher(t, e) ==
  /\ At(t, "idle") /\ next \in Handles
  /\ e \in registry /\ obj[e].kind = "engine"
  /\ next' = next + 1
  /\ th' = [th EXCEPT ![t] = [Idle EXCEPT !.pc = "adopt", !.at = next, !.over = e]]
  /\ UNCHANGED <<registry, obj, loops, ended, cut, retired>>

\* newRefresherObj refuses the config; the reserved number is not used again.
BadConfig(t) ==
  /\ At(t, "adopt")
  /\ Finish(t)
  /\ UNCHANGED <<registry, next, obj, loops, ended, cut, retired>>

\* A mutant of MayAdopt: adopt does not look at closed.
AdoptAlways(e) == TRUE

MayAdopt(e) == ~obj[e].closed

\* adopt: the handle is published and the child appended, or neither.
Adopt(t) ==
  LET h == th[t].at   e == th[t].over IN
  /\ At(t, "adopt")
  /\ IF MayAdopt(e)
     THEN /\ obj' = [obj EXCEPT ![h] = RefresherObj(e), ![e].children = @ \cup {h}]
          /\ registry' = registry \cup {h}
     ELSE UNCHANGED <<obj, registry>>
  /\ Finish(t)
  /\ UNCHANGED <<next, loops, ended, cut, retired>>

(***************************************************************************)
(* Call: lookup, then the method.                                          *)
(***************************************************************************)
Call(t, h, m) ==
  /\ At(t, "idle")
  /\ h \in registry
  /\ IF m = "load" THEN obj[h].kind = "engine" ELSE obj[h].kind = "refresher"
  /\ th' = [th EXCEPT ![t] = [Idle EXCEPT !.pc = m, !.at = h]]
  /\ UNCHANGED <<registry, next, obj, loops, ended, cut, retired>>

\* The engine's load, of a snapshot with rates.
Load(t) ==
  /\ At(t, "load")
  /\ obj' = [obj EXCEPT ![th[t].at].loaded = TRUE]
  /\ Finish(t)
  /\ UNCHANGED <<registry, next, loops, ended, cut, retired>>

\* A mutant of MayBegin: only the registry decides.
BeginAlways(h) == TRUE

\* The `closed' check of enter and of start.
MayBegin(h) == ~obj[h].closed

\* enter, for refresh and for ready.
Enter(t) ==
  LET h == th[t].at IN
  /\ At(t, "refresh") \/ At(t, "ready")
  /\ IF MayBegin(h)
     THEN /\ obj' = [obj EXCEPT ![h].inflight = @ \cup {t}]
          /\ Goto(t, IF At(t, "refresh") THEN "fetching" ELSE "waiting")
     ELSE Finish(t) /\ UNCHANGED obj
  /\ UNCHANGED <<registry, next, loops, ended, cut, retired>>

\* A source of the one-shot Refresh has answered and the engine has rates: this
\* may still happen to a call just cancelled, its answer being in the channel.
FetchLoads(t) ==
  /\ At(t, "fetching")
  /\ obj' = [obj EXCEPT ![obj[th[t].at].parent].loaded = TRUE]
  /\ UNCHANGED <<registry, next, loops, ended, th, cut, retired>>

\* Refresh returns: the fetches have answered, timed out or been cancelled.
FetchDone(t) ==
  /\ At(t, "fetching")
  /\ Goto(t, "leave")
  /\ UNCHANGED <<registry, next, obj, loops, ended, cut, retired>>

\* Ready returns: the engine has rates, or the call was cancelled.  A ready
\* without timeout_ms has nothing else to wake it.
ReadyDone(t) ==
  /\ At(t, "waiting")
  /\ t \in cut \/ obj[obj[th[t].at].parent].loaded
  /\ Goto(t, "leave")
  /\ UNCHANGED <<registry, next, obj, loops, ended, cut, retired>>

\* A mutant of LastOut: whoever leaves releases the close.
LastOutAny(o) == o.closed /\ o.drained = "made"

\* leave decides, with its call already deleted, whether close is waiting for it.
LastOut(o) == o.closed /\ o.inflight = {} /\ o.drained = "made"

\* leave, up to its unlock.
Leave(t) ==
  LET h == th[t].at
      o == [obj[h] EXCEPT !.inflight = @ \ {t}]
  IN
  /\ At(t, "leave")
  /\ obj' = [obj EXCEPT ![h] = IF LastOut(o) THEN [o EXCEPT !.drained = "taken"] ELSE o]
  /\ IF LastOut(o) THEN Goto(t, "release") ELSE Finish(t)
  /\ cut' = cut \ {t}
  /\ UNCHANGED <<registry, next, loops, ended, retired>>

\* leave, after its unlock: close(release).
Release(t) ==
  /\ At(t, "release")
  /\ obj' = [obj EXCEPT ![th[t].at].drained = "closed"]
  /\ Finish(t)
  /\ UNCHANGED <<registry, next, loops, ended, cut, retired>>

\* The loop ids of h nobody refers to any more.
FreeLoops(h) ==
  {i \in LoopIds : /\ <<h, i>> \notin loops /\ obj[h].cancel # i
                   /\ ~\E t \in Threads : th[t].at = h /\ th[t].loop = i}

Start(t) ==
  LET h == th[t].at IN
  /\ At(t, "start")
  /\ IF MayBegin(h) /\ obj[h].cancel = 0
     THEN \E i \in FreeLoops(h) :
            /\ obj' = [obj EXCEPT ![h].cancel = i]
            /\ loops' = loops \cup {<<h, i>>}
     ELSE UNCHANGED <<obj, loops>>
  /\ Finish(t)
  /\ UNCHANGED <<registry, next, ended, cut, retired>>

\* A mutant of Taken: the loop stays in the object while it is being stopped.
TakenNot(i) == i

\* What a stop leaves in o.cancel, where loop i was.
Taken(i) == 0

\* stopLoop takes the loop out of the object ...
Stop(t) ==
  LET h == th[t].at IN
  /\ At(t, "stop")
  /\ obj' = [obj EXCEPT ![h].cancel = Taken(@)]
  /\ IF obj[h].cancel = 0 THEN Finish(t)
     ELSE th' = [th EXCEPT ![t].pc = "cancel", ![t].loop = obj[h].cancel]
  /\ UNCHANGED <<registry, next, loops, ended, cut, retired>>

\* cancel(): the ctx of loop i of h.
Cancelled(h, i) == ended \cup {<<h, i>>}

\* ... cancels it ...
StopCancel(t) ==
  /\ At(t, "cancel")
  /\ ended' = Cancelled(th[t].at, th[t].loop)
  /\ Goto(t, "await")
  /\ UNCHANGED <<registry, next, obj, loops, cut, retired>>

\* ... and waits for it to return.
StopAwait(t) ==
  /\ At(t, "await")
  /\ <<th[t].at, th[t].loop>> \notin loops
  /\ Finish(t)
  /\ UNCHANGED <<registry, next, obj, loops, ended, cut, retired>>

(***************************************************************************)
(* The goroutine of start: it refreshes until it sees its ctx done.        *)
(***************************************************************************)
LoopLoads(h, i) ==
  /\ <<h, i>> \in loops
  /\ obj' = [obj EXCEPT ![obj[h].parent].loaded = TRUE]
  /\ UNCHANGED <<registry, next, loops, ended, th, cut, retired>>

LoopExit(h, i) ==
  /\ <<h, i>> \in loops \cap ended
  /\ loops' = loops \ {<<h, i>>}
  /\ ended' = ended \ {<<h, i>>}
  /\ UNCHANGED <<registry, next, obj, th, cut, retired>>

(***************************************************************************)
(* Close: take, then the object's close.                                   *)
(***************************************************************************)
Take(t, h) ==
  /\ At(t, "idle")
  /\ h \in registry
  /\ registry' = registry \ {h}
  /\ th' = [th EXCEPT ![t] =
              [Idle EXCEPT !.pc = IF obj[h].kind = "engine" THEN "eclose" ELSE "rclose",
                           !.at = h]]
  /\ UNCHANGED <<next, obj, loops, ended, cut, retired>>

\* engineObj.close, its critical section.
EngineClose(t) ==
  LET e == th[t].at IN
  /\ At(t, "eclose")
  /\ obj' = [obj EXCEPT ![e].closed = TRUE, ![e].children = {}]
  /\ th' = [th EXCEPT ![t].pc = "children", ![t].over = e, ![t].todo = obj[e].children]
  /\ UNCHANGED <<registry, next, loops, ended, cut, retired>>

\* Its loop over the children: each is closed by whoever takes it.
NextChild(t) ==
  /\ At(t, "children")
  /\ \E h \in th[t].todo :
       /\ registry' = registry \ {h}
       /\ th' = [th EXCEPT ![t].pc = IF h \in registry THEN "rclose" ELSE "children",
                           ![t].at = h, ![t].todo = @ \ {h}]
  /\ UNCHANGED <<next, obj, loops, ended, cut, retired>>

EngineClosed(t) ==
  /\ At(t, "children") /\ th[t].todo = {}
  /\ retired' = retired \cup {th[t].over}
  /\ Finish(t)
  /\ UNCHANGED <<registry, next, obj, loops, ended, cut>>

\* refresherObj.close, its critical section: it marks the object closed, takes
\* the loop and the calls in flight, and makes a channel if there are any.
RefresherClose(t) ==
  LET h == th[t].at   o == obj[h] IN
  /\ At(t, "rclose")
  /\ obj' = [obj EXCEPT ![h] = [o EXCEPT !.closed = TRUE, !.cancel = 0,
                                  !.drained = IF o.inflight # {} THEN "made" ELSE @]]
  /\ th' = [th EXCEPT ![t].pc = IF o.cancel # 0 THEN "rcancel" ELSE "rpending",
                      ![t].loop = o.cancel, ![t].pending = o.inflight]
  /\ UNCHANGED <<registry, next, loops, ended, cut, retired>>

CloseCancel(t) ==
  /\ At(t, "rcancel")
  /\ ended' = Cancelled(th[t].at, th[t].loop)
  /\ Goto(t, "rawait")
  /\ UNCHANGED <<registry, next, obj, loops, cut, retired>>

CloseAwait(t) ==
  /\ At(t, "rawait")
  /\ <<th[t].at, th[t].loop>> \notin loops
  /\ Goto(t, "rpending")
  /\ UNCHANGED <<registry, next, obj, loops, ended, cut, retired>>

\* A mutant of Interrupted: close outlasts the calls instead of cancelling them.
InterruptedNone(t) == cut

\* The calls a close cancels, those that have not left meanwhile.
Interrupted(t) ==
  cut \cup {c \in th[t].pending : c \in obj[th[t].at].inflight}

CloseInterrupt(t) ==
  /\ At(t, "rpending")
  /\ cut' = Interrupted(t)
  /\ Goto(t, "rdrain")
  /\ UNCHANGED <<registry, next, obj, loops, ended, retired>>

\* <-drained, for a close that found calls in flight.
Drained(t) == th[t].pending # {} => obj[th[t].at].drained = "closed"

CloseDrain(t) ==
  /\ At(t, "rdrain")
  /\ Drained(t)
  /\ Goto(t, "detach")
  /\ UNCHANGED <<registry, next, obj, loops, ended, cut, retired>>

\* A mutant of Detached: a closed refresher stays on its engine's list.
DetachedNot(s, h) == s

Detached(s, h) == s \ {h}

\* detach, and the return of refresherObj.close to whoever called it.
Detach(t) ==
  LET h == th[t].at   e == obj[h].parent IN
  /\ At(t, "detach")
  /\ obj' = [obj EXCEPT ![e].children = Detached(@, h)]
  /\ retired' = retired \cup {h}
  /\ IF th[t].over # 0
     THEN th' = [th EXCEPT ![t].pc = "children", ![t].loop = 0, ![t].pending = {}]
     ELSE Finish(t)
  /\ UNCHANGED <<registry, next, loops, ended, cut>>

Begin(t) ==
  \/ New(t)
  \/ \E h \in Handles : \/ NewRefresher(t, h) \/ Take(t, h)
                        \/ \E m \in Methods \cup {"load"} : Call(t, h, m)

Continue(t) ==
  \/ BadConfig(t) \/ Adopt(t) \/ Load(t)
  \/ Enter(t) \/ FetchDone(t) \/ ReadyDone(t) \/ Leave(t) \/ Release(t)
  \/ Start(t) \/ Stop(t) \/ StopCancel(t) \/ StopAwait(t)
  \/ EngineClose(t) \/ NextChild(t) \/ EngineClosed(t)
  \/ RefresherClose(t) \/ CloseCancel(t) \/ CloseAwait(t)
  \/ CloseInterrupt(t) \/ CloseDrain(t) \/ Detach(t)

Next ==
  \/ \E t \in Threads : Begin(t) \/ FetchLoads(t) \/ Continue(t)
  \/ \E h \in Handles, i \in LoopIds : LoopLoads(h, i) \/ LoopExit(h, i)

(***************************************************************************)
(* Fairness.  A thread inside the library goes on as soon as it can, a     *)
(* fetch ends within its timeout, and a loop that has been cancelled comes *)
(* to its select.  Nothing obliges a host to begin anything.               *)
(***************************************************************************)
Fairness ==
  /\ \A t \in Threads : WF_vars(Continue(t))
  /\ \A h \in Handles, i \in LoopIds : WF_vars(LoopExit(h, i))

Spec == Init /\ [][Next]_vars

FairSpec == Spec /\ Fairness

(***************************************************************************)
(* Properties.                                                             *)
(***************************************************************************)
Refreshers == {h \in Handles : obj[h].kind = "refresher"}

Working == {"fetching", "waiting", "leave"}
Ending  == {"cancel", "await", "rcancel", "rawait"}
Closing == {"eclose", "children", "rclose", "rcancel", "rawait", "rpending",
            "rdrain", "detach"}

Object == [kind : {"none", "engine", "refresher"},
           parent : 0..MaxHandle, closed : BOOLEAN,
           children : SUBSET Handles, loaded : BOOLEAN,
           cancel : LoopIds \cup {0}, inflight : SUBSET Threads,
           drained : {"nil", "made", "taken", "closed"}]

Stages == {"idle", "adopt", "load", "refresh", "ready", "start", "stop", "release"}
            \cup Working \cup Ending \cup Closing

Thread == [pc : Stages, at : 0..MaxHandle, over : 0..MaxHandle,
           loop : LoopIds \cup {0}, pending : SUBSET Threads, todo : SUBSET Handles]

TypeOK ==
  /\ registry \in SUBSET {h \in Handles : obj[h].kind # "none"}
  /\ next \in 1..(MaxHandle + 1)
  /\ obj \in [Handles -> Object]
  /\ loops \in SUBSET (Handles \X LoopIds)
  /\ ended \in SUBSET loops
  /\ th \in [Threads -> Thread]
  /\ cut \in SUBSET Threads
  /\ retired \in SUBSET Handles

\* "There is no window in which a refresher exists but no close can reach it"
\* (openrate.h, openrate_open_handles): an open refresher is on the list of an
\* engine not yet closed, or on the list a closing engine is working through.
EveryRefresherReachable ==
  \A h \in registry \cap Refreshers :
    \/ ~obj[obj[h].parent].closed /\ h \in obj[obj[h].parent].children
    \/ \E t \in Threads : h \in th[t].todo

\* "`refresh' racing openrate_close() can never put a request on the wire after
\* openrate_close() has returned" (openrate.h, Threads): once the close of a
\* refresher has returned, none of its blocking calls is running.
NoCallOutlivesClose ==
  \A h \in retired \cap Refreshers :
    obj[h].inflight = {} /\ ~\E t \in Threads : th[t].at = h /\ th[t].pc \in Working

\* A loop is never lost: it is the one its open refresher knows how to stop, or
\* some thread is stopping it.  A closed refresher knows none, and the only loop that
\* outlives a close that has returned is one that a stop has taken out before it, and
\* that stop has not returned.
EveryLoopHasAnOwner ==
  /\ \A l \in loops :
       \/ obj[l[1]].cancel = l[2]
       \/ \E t \in Threads : /\ th[t].at = l[1] /\ th[t].loop = l[2]
                             /\ th[t].pc \in Ending
                             /\ l[1] \in retired => th[t].pc \in {"cancel", "await"}
  /\ \A h \in Handles : obj[h].closed => obj[h].cancel = 0

\* "A refresher you close drops out of" the engine's meta (openrate.h), even when
\* its engine is being closed, or building another refresher, at the time.
ClosedChildrenDropOut ==
  \A h \in retired \cap Refreshers : h \notin obj[obj[h].parent].children

\* "A host that closes everything and then unloads the library has no thread of
\* ours left in its address space" (openrate.h, openrate_close): with no handle
\* open and every call returned, nothing runs.
UnloadIsSafe ==
  (registry = {} /\ \A t \in Threads : At(t, "idle"))
    => loops = {} /\ \A h \in Handles : obj[h].inflight = {}

\* "When it returns, any background loop on the handle has been cancelled AND
\* has exited" (openrate.h, openrate_close).
CloseEndsTheLoop ==
  \A h \in retired \cap Refreshers : \A i \in LoopIds : <<h, i>> \notin loops

\* close and stop always return, though a ready without a timeout is waiting for
\* rates that nobody fetches and other threads close the same objects.
CloseAndStopReturn ==
  \A t \in Threads : th[t].pc \in Closing \cup Ending ~> At(t, "idle")
=============================================================================
