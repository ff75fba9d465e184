------------------------------ MODULE AbiSteps ------------------------------
(***************************************************************************)
(* The inductive invariant of Abi, and what each step of it does: first    *)
(* that it keeps the types, then, for each action, which fields of which   *)
(* objects and which thread it changes.  AbiProofs draws the theorems.     *)
(***************************************************************************)
EXTENDS Abi, TLAPS

\* The stages of a refresher's close after its critical section, and those of any
\* close of a refresher.
Shutting  == {"rcancel", "rawait", "rpending", "rdrain", "detach"}
Unmaking  == Shutting \cup {"rclose"}

\* The stages in which a thread works on a refresher that exists.
OnRefresher ==
  {"refresh", "ready", "start", "stop", "cancel", "await", "release"} \cup Working \cup Unmaking

(***************************************************************************)
(* The strengthening: who works on what, what an object of each kind       *)
(* holds, whose a loop is, which calls are in flight, what a close has     *)
(* done by each of its stages.                                             *)
(***************************************************************************)
\* Each thread works on a handle of the kind its stage is about.  A handle reserved
\* for a refresher has no object yet and is one thread's own.
Role(t) ==
  /\ th[t].pc \in OnRefresher => th[t].at \in Refreshers
  /\ th[t].pc \in {"load", "eclose"} => th[t].at \in Handles /\ obj[th[t].at].kind = "engine"
  /\ th[t].pc = "adopt" => /\ th[t].at \in Handles /\ th[t].at < next
                           /\ obj[th[t].at].kind = "none"
                           /\ th[t].over \in Handles /\ obj[th[t].over].kind = "engine"
  /\ th[t].pc = "children" \/ (th[t].pc \in Unmaking /\ th[t].over # 0) =>
       th[t].over \in Handles /\ obj[th[t].over].kind = "engine"
  /\ th[t].todo \subseteq Refreshers
  /\ th[t].todo # {} => th[t].over # 0 /\ th[t].pc \in Unmaking \cup {"children"}

OwnReserve ==
  \A t, u \in Threads : th[t].pc = "adopt" /\ th[u].pc = "adopt" /\ th[t].at = th[u].at => t = u

Roles == OwnReserve /\ \A t \in Threads : Role(t)

\* What the object behind a handle is.
Objects ==
  \A h \in Handles :
    /\ h >= next => obj[h].kind = "none"
    /\ obj[h].kind # "refresher" => obj[h].cancel = 0 /\ obj[h].inflight = {}
    /\ obj[h].kind = "refresher" =>
         obj[h].parent \in Handles /\ obj[obj[h].parent].kind = "engine"
    /\ obj[h].children \subseteq Refreshers

\* A loop in an object runs and is not cancelled, and so is one that a thread has taken
\* out to cancel it.  Nobody else knows it.
LoopHeld(h) == obj[h].cancel # 0 => <<h, obj[h].cancel>> \in loops \ ended

LoopTaken(t) ==
  /\ th[t].pc \in {"cancel", "rcancel"} =>
       /\ th[t].loop # 0 /\ <<th[t].at, th[t].loop>> \in loops \ ended
       /\ obj[th[t].at].cancel # th[t].loop
       /\ \A u \in Threads \ {t} :
            ~(th[u].pc \in Ending /\ th[u].at = th[t].at /\ th[u].loop = th[t].loop)
  /\ th[t].pc \in {"await", "rawait"} => <<th[t].at, th[t].loop>> \notin loops \ ended

LoopsHeld ==
  /\ \A h \in Handles, i \in LoopIds : <<h, i>> \in loops => h \in Refreshers
  /\ \A h \in Handles : LoopHeld(h)
  /\ \A t \in Threads : LoopTaken(t)

\* The calls in flight are those at work.
CallsInFlight ==
  \A h \in Handles, t \in Threads :
    t \in obj[h].inflight <=> th[t].at = h /\ th[t].pc \in Working

\* What a close has done by each stage.  A refresher not closed is open, or about to be
\* closed by a thread that has taken it.
OpenOrTaken(h) ==
  h \in Refreshers /\ ~obj[h].closed =>
    h \in registry \/ \E t \in Threads : th[t].pc = "rclose" /\ th[t].at = h

DrainedOnce(h) ==
  obj[h].drained \in {"taken", "closed"} => obj[h].closed /\ obj[h].inflight = {}

Closed(t) ==
  /\ th[t].pc \in Unmaking => th[t].at \notin registry
  /\ th[t].pc \in Shutting =>
       obj[th[t].at].closed /\ (th[t].pending = {} => obj[th[t].at].inflight = {})
  /\ th[t].pc \in {"detach", "release"} =>
       obj[th[t].at].closed /\ obj[th[t].at].inflight = {}

Retired(h) == obj[h].kind # "none" /\ (h \in Refreshers => obj[h].closed)

Closes ==
  /\ \A h \in Handles : OpenOrTaken(h) /\ DrainedOnce(h)
  /\ \A t \in Threads : Closed(t)
  /\ \A h \in retired : Retired(h)

\* The part of EveryRefresherReachable for one object, and those of LoopsOwned.
Reach(h) ==
  h \in registry \cap Refreshers =>
    \/ ~obj[obj[h].parent].closed /\ h \in obj[obj[h].parent].children
    \/ \E t \in Threads : h \in th[t].todo

Owned(h, i) ==
  <<h, i>> \in loops =>
    \/ obj[h].cancel = i
    \/ \E t \in Threads : th[t].at = h /\ th[t].loop = i /\ th[t].pc \in Ending

NoneClosed(h) == obj[h].closed => obj[h].cancel = 0

\* No loop is lost, and an object once closed knows none.
LoopsOwned ==
  /\ \A h \in Handles, i \in LoopIds : Owned(h, i)
  /\ \A h \in Handles : NoneClosed(h)

AbiInv ==
  /\ TypeOK /\ Roles /\ Objects /\ LoopsHeld /\ CallsInFlight /\ Closes
  /\ EveryRefresherReachable /\ NoCallOutlivesClose /\ LoopsOwned
  /\ ClosedChildrenDropOut

\* The fields of threads and objects, and what assigning to them makes.
LEMMA ThreadFields ==
  /\ Idle \in Thread /\ Handles \subseteq 0..MaxHandle
  /\ \A x \in Thread :
       /\ x.at \in 0..MaxHandle /\ x.over \in 0..MaxHandle /\ x.loop \in LoopIds \cup {0}
       /\ x.pending \subseteq Threads /\ x.todo \subseteq Handles
BY AbiAssumption DEF Idle, Thread, Stages, Handles

LEMMA ObjectFields ==
  /\ NoObject \in Object /\ EngineObj \in Object
  /\ \A h \in Handles : RefresherObj(h) \in Object
  /\ \A x \in Object :
       /\ x.parent \in 0..MaxHandle /\ x.children \subseteq Handles
       /\ x.cancel \in LoopIds \cup {0} /\ x.inflight \subseteq Threads
<1>1. NoObject \in Object
  BY AbiAssumption DEF NoObject, Object
<1>2. EngineObj \in Object /\ \A h \in Handles : RefresherObj(h) \in Object
  BY <1>1, ThreadFields DEF EngineObj, RefresherObj, Object
<1>3. \A x \in Object :
        /\ x.parent \in 0..MaxHandle /\ x.children \subseteq Handles
        /\ x.cancel \in LoopIds \cup {0} /\ x.inflight \subseteq Threads
  BY DEF Object
<1> QED BY <1>1, <1>2, <1>3

\* Every step leaves each thread a thread.
LEMMA ThreadsKept == ASSUME AbiInv, [Next]_vars PROVE th' \in [Threads -> Thread]
<1>0. /\ th \in [Threads -> Thread] /\ obj \in [Handles -> Object]
      /\ next \in Nat /\ registry \subseteq Handles
  BY AbiAssumption DEF AbiInv, TypeOK, Handles
<1> USE <1>0, ThreadFields, ObjectFields
<1>1. ASSUME NEW t \in Threads, Finish(t) PROVE th' \in [Threads -> Thread]
  BY <1>1 DEF Finish
<1>2. ASSUME NEW t \in Threads, NEW p \in Stages, Goto(t, p) PROVE th' \in [Threads -> Thread]
  <2>1. [th[t] EXCEPT !.pc = p] \in Thread
    BY DEF Thread
  <2> QED BY <1>2, <2>1 DEF Goto
<1>3. ASSUME NEW t \in Threads, NEW h \in Handles, NewRefresher(t, h) PROVE th' \in [Threads -> Thread]
  <2>1. [Idle EXCEPT !.pc = "adopt", !.at = next, !.over = h] \in Thread
    BY <1>3 DEF NewRefresher, Thread, Stages
  <2> QED BY <1>3, <2>1 DEF NewRefresher
<1>4. ASSUME NEW t \in Threads, NEW h \in Handles, Take(t, h) PROVE th' \in [Threads -> Thread]
  <2>1. \A p \in {"eclose", "rclose"} : [Idle EXCEPT !.pc = p, !.at = h] \in Thread
    BY DEF Thread, Stages, Closing
  <2> QED BY <1>4, <2>1 DEF Take
<1>5. ASSUME NEW t \in Threads, NEW h \in Handles, NEW m \in Methods \cup {"load"}, Call(t, h, m)
      PROVE th' \in [Threads -> Thread]
  <2>1. [Idle EXCEPT !.pc = m, !.at = h] \in Thread
    BY AbiAssumption DEF Thread, Stages
  <2> QED BY <1>5, <2>1 DEF Call
<1>6. ASSUME NEW t \in Threads, Stop(t) PROVE th' \in [Threads -> Thread]
  <2>0. th[t].at \in Handles
    BY <1>6 DEF Stop, At, AbiInv, Roles, Role, OnRefresher, Refreshers
  <2>1. [th[t] EXCEPT !.pc = "cancel", !.loop = obj[th[t].at].cancel] \in Thread
    BY <2>0 DEF Thread, Stages, Ending
  <2> QED BY <1>1, <1>6, <2>1 DEF Stop
<1>7. ASSUME NEW t \in Threads, EngineClose(t) PROVE th' \in [Threads -> Thread]
  <2>0. th[t].at \in Handles
    BY <1>7 DEF EngineClose, At, AbiInv, Roles, Role
  <2>1. [th[t] EXCEPT !.pc = "children", !.over = th[t].at, !.todo = obj[th[t].at].children] \in Thread
    BY <2>0 DEF Thread, Stages, Closing
  <2> QED BY <1>7, <2>1 DEF EngineClose
<1>8. ASSUME NEW t \in Threads, NextChild(t) PROVE th' \in [Threads -> Thread]
  <2>0. th[t] \in Thread /\ th[t].todo \subseteq Handles
    OBVIOUS
  <2>1. ASSUME NEW h \in Handles, NEW p \in {"rclose", "children"}, NEW s \in SUBSET Handles
        PROVE  [th[t] EXCEPT !.pc = p, !.at = h, !.todo = s] \in Thread
    BY <2>0 DEF Thread, Stages, Closing
  <2>2. PICK h \in th[t].todo :
          th' = [th EXCEPT ![t].pc = IF h \in registry THEN "rclose" ELSE "children",
                           ![t].at = h, ![t].todo = @ \ {h}]
    BY <1>8 DEF NextChild
  <2>3. h \in Handles /\ th[t].todo \ {h} \in SUBSET Handles
    BY <2>0
  <2>4. CASE h \in registry
    BY <2>1, <2>2, <2>3, <2>4
  <2>5. CASE h \notin registry
    BY <2>1, <2>2, <2>3, <2>5
  <2> QED BY <2>4, <2>5
<1>9. ASSUME NEW t \in Threads, RefresherClose(t) PROVE th' \in [Threads -> Thread]
  <2>0. th[t].at \in Handles
    BY <1>9 DEF RefresherClose, At, AbiInv, Roles, Role, OnRefresher, Unmaking, Refreshers
  <2>1. \A p \in {"rcancel", "rpending"} :
          [th[t] EXCEPT !.pc = p, !.loop = obj[th[t].at].cancel, !.pending = obj[th[t].at].inflight] \in Thread
    BY <2>0 DEF Thread, Stages, Closing
  <2> QED BY <1>9, <2>1 DEF RefresherClose
<1>10. ASSUME NEW t \in Threads, Detach(t) PROVE th' \in [Threads -> Thread]
  <2>1. [th[t] EXCEPT !.pc = "children", !.loop = 0, !.pending = {}] \in Thread
    BY DEF Thread, Stages, Closing
  <2> QED BY <1>1, <1>10, <2>1 DEF Detach
<1>11. ASSUME NEW t \in Threads,
              \/ BadConfig(t) \/ Adopt(t) \/ Load(t) \/ Release(t) \/ Start(t)
              \/ StopAwait(t) \/ EngineClosed(t)
       PROVE th' \in [Threads -> Thread]
  BY <1>1, <1>11 DEF BadConfig, Adopt, Load, Release, Start, StopAwait, EngineClosed
<1>12. ASSUME NEW t \in Threads,
              \/ Enter(t) \/ FetchDone(t) \/ ReadyDone(t) \/ Leave(t) \/ StopCancel(t)
              \/ CloseCancel(t) \/ CloseAwait(t) \/ CloseInterrupt(t) \/ CloseDrain(t)
       PROVE th' \in [Threads -> Thread]
  <2>1. {"fetching", "waiting", "leave", "release", "await", "rawait", "rpending", "rdrain", "detach"}
          \subseteq Stages
    BY DEF Stages, Working, Ending, Closing
  <2> QED BY <1>1, <1>2, <1>12, <2>1
          DEF Enter, FetchDone, ReadyDone, Leave, StopCancel, CloseCancel, CloseAwait,
              CloseInterrupt, CloseDrain
<1>13. CASE UNCHANGED th
  BY SMTT(30), <1>13
<1> QED BY <1>3, <1>4, <1>5, <1>6, <1>7, <1>8, <1>9, <1>10, <1>11, <1>12, <1>13
        DEF Next, Begin, Continue, vars, New, FetchLoads, LoopLoads, LoopExit

\* Every step leaves each object an object.
LEMMA ObjectsStay == ASSUME AbiInv, [Next]_vars PROVE obj' \in [Handles -> Object]
<1>0. /\ th \in [Threads -> Thread] /\ obj \in [Handles -> Object]
      /\ next \in Nat /\ registry \subseteq Handles
  BY AbiAssumption DEF AbiInv, TypeOK, Handles
<1>1. ASSUME NEW h \in Handles, NEW o \in Object, obj' = [obj EXCEPT ![h] = o]
      PROVE  obj' \in [Handles -> Object]
  BY <1>0, <1>1
<1>2. ASSUME NEW h \in Handles PROVE obj[h] \in Object
  BY <1>0
<1>3. ASSUME NEW t \in Threads, th[t].pc \in OnRefresher PROVE th[t].at \in Refreshers
  BY <1>3 DEF AbiInv, Roles, Role
<1>4. /\ Refreshers \subseteq Handles /\ \A h \in Refreshers : obj[h].parent \in Handles
      /\ \A h \in Handles, i \in LoopIds : <<h, i>> \in loops => h \in Refreshers
  BY DEF AbiInv, Refreshers, Objects, LoopsHeld
<1> USE <1>0, <1>2, <1>4, ThreadFields, ObjectFields
<1>5. ASSUME NEW t \in Threads, New(t) PROVE obj' \in [Handles -> Object]
  BY <1>5 DEF New
<1>6. ASSUME NEW t \in Threads, Adopt(t) PROVE obj' \in [Handles -> Object]
  <2>1. th[t].at \in Handles /\ th[t].over \in Handles
    BY <1>6 DEF Adopt, At, AbiInv, Roles, Role
  <2>2. \A o \in Object : [o EXCEPT !.children = o.children \cup {th[t].at}] \in Object
    BY <2>1 DEF Object
  <2> QED BY <1>6, <2>1, <2>2 DEF Adopt
<1>7. ASSUME NEW h \in Handles, obj' = [obj EXCEPT ![h].loaded = TRUE]
      PROVE  obj' \in [Handles -> Object]
  <2>1. [obj[h] EXCEPT !.loaded = TRUE] \in Object
    BY DEF Object
  <2> QED BY <1>1, <1>7, <2>1
<1>8. ASSUME NEW t \in Threads, Load(t) PROVE obj' \in [Handles -> Object]
  <2>1. th[t].at \in Handles
    BY <1>8 DEF Load, At, AbiInv, Roles, Role
  <2> QED BY <1>7, <1>8, <2>1 DEF Load
<1>9. ASSUME NEW t \in Threads, FetchLoads(t) PROVE obj' \in [Handles -> Object]
  BY <1>3, <1>7, <1>9 DEF FetchLoads, At, OnRefresher, Working
<1>10. ASSUME NEW h \in Handles, NEW i \in LoopIds, LoopLoads(h, i) PROVE obj' \in [Handles -> Object]
  BY <1>7, <1>10 DEF LoopLoads
<1>11. ASSUME NEW t \in Threads, Enter(t) PROVE obj' \in [Handles -> Object]
  <2>1. th[t].at \in Handles
    BY <1>3, <1>11 DEF Enter, At, OnRefresher
  <2>2. [obj[th[t].at] EXCEPT !.inflight = obj[th[t].at].inflight \cup {t}] \in Object
    BY <2>1 DEF Object
  <2> QED BY <1>11, <2>1, <2>2 DEF Enter
<1>12. ASSUME NEW t \in Threads, Leave(t) PROVE obj' \in [Handles -> Object]
  <2> DEFINE o == [obj[th[t].at] EXCEPT !.inflight = obj[th[t].at].inflight \ {t}]
  <2>1. th[t].at \in Handles
    BY <1>3, <1>12 DEF Leave, At, OnRefresher, Working
  <2>2. o \in Object
    BY <2>1 DEF Object
  <2>3. [o EXCEPT !.drained = "taken"] \in Object
    BY <2>2 DEF Object
  <2> QED BY <1>1, <1>12, <2>1, <2>2, <2>3 DEF Leave
<1>13. ASSUME NEW t \in Threads, Release(t) PROVE obj' \in [Handles -> Object]
  <2>1. th[t].at \in Handles
    BY <1>3, <1>13 DEF Release, At, OnRefresher
  <2>2. [obj[th[t].at] EXCEPT !.drained = "closed"] \in Object
    BY <2>1 DEF Object
  <2> QED BY <1>13, <2>1, <2>2 DEF Release
<1>14. ASSUME NEW t \in Threads, Start(t) \/ Stop(t) PROVE obj' \in [Handles -> Object]
  <2>1. th[t].at \in Handles
    BY <1>3, <1>14 DEF Start, Stop, At, OnRefresher
  <2>2. ASSUME NEW i \in LoopIds \cup {0} PROVE [obj[th[t].at] EXCEPT !.cancel = i] \in Object
    BY <2>1 DEF Object
  <2>3. CASE Start(t)
    BY <1>1, <2>1, <2>2, <2>3 DEF Start, FreeLoops
  <2>4. CASE Stop(t)
    BY <1>1, <2>1, <2>2, <2>4 DEF Stop, Taken
  <2> QED BY <1>14, <2>3, <2>4
<1>15. ASSUME NEW t \in Threads, EngineClose(t) PROVE obj' \in [Handles -> Object]
  <2>1. th[t].at \in Handles
    BY <1>15 DEF EngineClose, At, AbiInv, Roles, Role
  <2>2. [obj[th[t].at] EXCEPT !.closed = TRUE, !.children = {}] \in Object
    BY <2>1 DEF Object
  <2> QED BY <1>15, <2>1, <2>2 DEF EngineClose
<1>16. ASSUME NEW t \in Threads, RefresherClose(t) PROVE obj' \in [Handles -> Object]
  <2>1. th[t].at \in Handles
    BY <1>3, <1>16 DEF RefresherClose, At, OnRefresher, Unmaking
  <2>2. [obj[th[t].at] EXCEPT !.closed = TRUE, !.cancel = 0, !.drained = "made"] \in Object
    BY <2>1 DEF Object
  <2>3. [obj[th[t].at] EXCEPT !.closed = TRUE, !.cancel = 0, !.drained = obj[th[t].at].drained]
           \in Object
    BY <2>1 DEF Object
  <2> QED BY <1>1, <1>16, <2>1, <2>2, <2>3 DEF RefresherClose
<1>17. ASSUME NEW t \in Threads, Detach(t) PROVE obj' \in [Handles -> Object]
  <2> DEFINE e == obj[th[t].at].parent
  <2>1. e \in Handles
    BY SMTT(30), <1>3, <1>17 DEF Detach, At, OnRefresher, Unmaking, Shutting
  <2>2. [obj[e] EXCEPT !.children = obj[e].children \ {th[t].at}] \in Object
    BY <2>1 DEF Object
  <2> QED BY <1>17, <2>1, <2>2 DEF Detach, Detached
<1>18. CASE UNCHANGED obj
  BY <1>18
<1> QED BY <1>5, <1>6, <1>8, <1>9, <1>10, <1>11, <1>12, <1>13, <1>14, <1>15, <1>16, <1>17, <1>18
        DEF Next, Begin, Continue, vars, NewRefresher, Take, Call, BadConfig, FetchDone, ReadyDone,
            StopCancel, StopAwait, NextChild, EngineClosed, CloseCancel, CloseAwait, CloseInterrupt,
            CloseDrain, LoopExit

-----------------------------------------------------------------------------

(***************************************************************************)
(* What each step does, field by field.                                    *)
(***************************************************************************)
\* Object x keeps who it is, who its children are, how far its close is.
Kin(x)    == obj'[x].kind = obj[x].kind /\ obj'[x].parent = obj[x].parent
Family(x) == Kin(x) /\ obj'[x].children = obj[x].children
Life(x)   == obj'[x].closed = obj[x].closed /\ obj'[x].drained = obj[x].drained
Busy(x)   == obj'[x].cancel = obj[x].cancel /\ obj'[x].inflight = obj[x].inflight

\* Only thread t moves: to stage p with all it holds, or out of the library.
Others(t)   == \A u \in Threads \ {t} : th'[u] = th[u]
Holds(t)    == /\ th'[t].at = th[t].at /\ th'[t].over = th[t].over
               /\ th'[t].loop = th[t].loop /\ th'[t].pending = th[t].pending
               /\ th'[t].todo = th[t].todo
Moves(t, p) == Others(t) /\ Holds(t) /\ th'[t].pc = p
Rests(t)    == Others(t) /\ th'[t] = Idle

\* Goto and Finish move one thread.
LEMMA Moving ==
  ASSUME AbiInv, NEW t \in Threads
  PROVE  /\ Finish(t) => Rests(t)
         /\ \A p \in Stages : Goto(t, p) => Moves(t, p)
<1> USE DEF AbiInv, TypeOK
<1>1. Finish(t) => Rests(t)
  BY DEF Finish, Rests, Others
<1>2. ASSUME NEW p \in Stages, Goto(t, p) PROVE Moves(t, p)
  BY <1>2 DEF Goto, Moves, Others, Holds, Thread
<1> QED BY <1>1, <1>2

\* Where the invariant says a thread at work is.
LEMMA Places ==
  ASSUME AbiInv, NEW t \in Threads
  PROVE  /\ th[t].pc \in OnRefresher =>
              /\ th[t].at \in Handles /\ obj[th[t].at].kind = "refresher"
              /\ obj[th[t].at].parent \in Handles
              /\ obj[obj[th[t].at].parent].kind = "engine"
         /\ th[t].pc \in {"load", "eclose"} => th[t].at \in Handles /\ obj[th[t].at].kind = "engine"
BY DEF AbiInv, Roles, Role, Objects, Refreshers

\* New publishes an engine under a fresh handle.
LEMMA NewDoes ==
  ASSUME AbiInv, NEW t \in Threads, New(t)
  PROVE  /\ next \in Handles /\ next' = next + 1 /\ registry' = registry \cup {next}
         /\ obj'[next].kind = "engine" /\ obj'[next].parent = 0 /\ ~obj'[next].closed
         /\ obj'[next].children = {} /\ obj'[next].cancel = 0
         /\ obj'[next].inflight = {} /\ obj'[next].drained = "nil"
         /\ \A x \in Handles \ {next} : obj'[x] = obj[x]
         /\ UNCHANGED <<loops, ended, th, cut, retired>>
<1>1. obj \in [Handles -> Object]
  BY DEF AbiInv, TypeOK
<1> QED BY <1>1 DEF New, EngineObj, NoObject

\* Adopt publishes the refresher and appends it to its engine's children, or neither.
LEMMA AdoptDoes ==
  ASSUME AbiInv, NEW t \in Threads, Adopt(t)
  PROVE  LET h == th[t].at   e == th[t].over IN
         /\ th[t].pc = "adopt" /\ h \in Handles /\ e \in Handles /\ h # e
         /\ obj[h].kind = "none" /\ obj[e].kind = "engine" /\ h < next
         /\ Rests(t) /\ \A x \in Handles : obj'[x].inflight = obj[x].inflight
         /\ \/ registry' = registry /\ obj' = obj
            \/ /\ ~obj[e].closed /\ registry' = registry \cup {h}
               /\ obj'[h].kind = "refresher" /\ obj'[h].parent = e /\ ~obj'[h].closed
               /\ obj'[h].children = {} /\ obj'[h].cancel = 0
               /\ obj'[h].inflight = {} /\ obj'[h].drained = "nil"
               /\ Kin(e) /\ Life(e) /\ Busy(e) /\ obj'[e].children = obj[e].children \cup {h}
               /\ \A x \in Handles \ {h, e} : obj'[x] = obj[x]
         /\ UNCHANGED <<next, loops, ended, cut, retired>>
<1> DEFINE h == th[t].at
           e == th[t].over
<1>1. obj \in [Handles -> Object]
  BY DEF AbiInv, TypeOK
<1>2. /\ th[t].pc = "adopt" /\ h \in Handles /\ e \in Handles
      /\ obj[h].kind = "none" /\ obj[e].kind = "engine" /\ h < next
  BY DEF Adopt, At, AbiInv, Roles, Role
<1>3. Rests(t)
  BY Moving DEF Adopt
<1>4. CASE MayAdopt(e)
  <2>1. obj' = [obj EXCEPT ![h] = RefresherObj(e), ![e].children = obj[e].children \cup {h}]
    BY <1>2, <1>4 DEF Adopt
  <2>2. /\ obj'[h] = RefresherObj(e)
        /\ obj'[e] = [obj[e] EXCEPT !.children = obj[e].children \cup {h}]
        /\ \A x \in Handles \ {h, e} : obj'[x] = obj[x]
    BY <1>1, <1>2, <2>1
  <2>3. Kin(e) /\ Life(e) /\ Busy(e) /\ obj'[e].children = obj[e].children \cup {h}
    BY <1>1, <1>2, <2>2 DEF Object, Kin, Life, Busy
  <2>4. /\ obj'[h].kind = "refresher" /\ obj'[h].parent = e /\ ~obj'[h].closed
        /\ obj'[h].children = {} /\ obj'[h].cancel = 0
        /\ obj'[h].inflight = {} /\ obj'[h].drained = "nil"
    BY <2>2 DEF RefresherObj, NoObject
  <2>5. obj[h].inflight = {}
    BY <1>2 DEF AbiInv, Objects
  <2>6. \A x \in Handles : obj'[x].inflight = obj[x].inflight
    BY <2>2, <2>3, <2>4, <2>5 DEF Busy
  <2> QED BY <1>2, <1>3, <1>4, <2>2, <2>3, <2>4, <2>6 DEF Adopt, MayAdopt
<1>5. CASE ~MayAdopt(e)
  BY <1>2, <1>3, <1>5 DEF Adopt
<1> QED BY <1>4, <1>5

\* That an engine has rates changes nothing the invariant speaks of.
LEMMA LoadsDo ==
  ASSUME AbiInv, NEW e \in Handles, obj' = [obj EXCEPT ![e].loaded = TRUE]
  PROVE  \A x \in Handles : Family(x) /\ Life(x) /\ Busy(x)
BY DEF AbiInv, TypeOK, Object, Kin, Family, Life, Busy

\* Enter takes the call in, unless the object is closed.
LEMMA EnterDoes ==
  ASSUME AbiInv, NEW t \in Threads, Enter(t)
  PROVE  LET h == th[t].at IN
         /\ th[t].pc \in {"refresh", "ready"} /\ h \in Handles /\ obj[h].kind = "refresher"
         /\ \/ Rests(t) /\ obj' = obj
            \/ /\ ~obj[h].closed
               /\ Moves(t, "fetching") \/ Moves(t, "waiting")
               /\ obj'[h].inflight = obj[h].inflight \cup {t}
               /\ Family(h) /\ Life(h) /\ obj'[h].cancel = obj[h].cancel
               /\ \A x \in Handles \ {h} : obj'[x] = obj[x]
         /\ UNCHANGED <<registry, next, loops, ended, cut, retired>>
<1> DEFINE h == th[t].at
<1>1. obj \in [Handles -> Object]
  BY DEF AbiInv, TypeOK
<1>2. th[t].pc \in {"refresh", "ready"} /\ h \in Handles /\ obj[h].kind = "refresher"
  BY Places DEF Enter, At, OnRefresher
<1>3. CASE MayBegin(h)
  <2>1. obj' = [obj EXCEPT ![h].inflight = obj[h].inflight \cup {t}]
    BY <1>3 DEF Enter
  <2>2. /\ obj'[h].inflight = obj[h].inflight \cup {t}
        /\ Family(h) /\ Life(h) /\ obj'[h].cancel = obj[h].cancel
        /\ \A x \in Handles \ {h} : obj'[x] = obj[x]
    BY <1>1, <1>2, <2>1 DEF Object, Kin, Family, Life
  <2>3. Goto(t, "fetching") \/ Goto(t, "waiting")
    BY <1>3 DEF Enter
  <2>4. Moves(t, "fetching") \/ Moves(t, "waiting")
    BY <2>3, Moving DEF Stages, Working
  <2> QED BY <1>2, <1>3, <2>2, <2>4 DEF Enter, MayBegin
<1>4. CASE ~MayBegin(h)
  BY <1>2, <1>4, Moving DEF Enter
<1> QED BY <1>3, <1>4

\* Leave lets the call go, and the last one out takes the channel of a close.
LEMMA LeaveDoes ==
  ASSUME AbiInv, NEW t \in Threads, Leave(t)
  PROVE  LET h == th[t].at IN
         /\ th[t].pc = "leave" /\ h \in Handles /\ obj[h].kind = "refresher"
         /\ obj'[h].inflight = obj[h].inflight \ {t}
         /\ \/ Rests(t) /\ obj'[h].drained = obj[h].drained
            \/ /\ Moves(t, "release") /\ obj[h].closed
               /\ obj'[h].inflight = {} /\ obj'[h].drained = "taken"
         /\ Family(h) /\ obj'[h].closed = obj[h].closed /\ obj'[h].cancel = obj[h].cancel
         /\ \A x \in Handles \ {h} : obj'[x] = obj[x]
         /\ cut' = cut \ {t} /\ UNCHANGED <<registry, next, loops, ended, retired>>
<1> DEFINE h == th[t].at
           o == [obj[h] EXCEPT !.inflight = obj[h].inflight \ {t}]
<1>1. obj \in [Handles -> Object]
  BY DEF AbiInv, TypeOK
<1>2. th[t].pc = "leave" /\ h \in Handles /\ obj[h].kind = "refresher"
  BY Places DEF Leave, At, OnRefresher, Working
<1>3. /\ o \in Object /\ o.inflight = obj[h].inflight \ {t} /\ o.closed = obj[h].closed
      /\ o.kind = obj[h].kind /\ o.parent = obj[h].parent /\ o.children = obj[h].children
      /\ o.cancel = obj[h].cancel /\ o.drained = obj[h].drained
  BY <1>1, <1>2 DEF Object
<1>4. /\ obj' = [obj EXCEPT ![h] = IF LastOut(o) THEN [o EXCEPT !.drained = "taken"] ELSE o]
      /\ IF LastOut(o) THEN Goto(t, "release") ELSE Finish(t)
      /\ cut' = cut \ {t} /\ UNCHANGED <<registry, next, loops, ended, retired>>
  BY DEF Leave
<1> HIDE DEF o
<1>5. CASE LastOut(o)
  <2>1. obj'[h] = [o EXCEPT !.drained = "taken"]
    BY <1>1, <1>2, <1>4, <1>5
  <2>2. /\ obj'[h].inflight = {} /\ obj'[h].drained = "taken" /\ obj[h].closed
        /\ Family(h) /\ obj'[h].closed = obj[h].closed /\ obj'[h].cancel = obj[h].cancel
        /\ obj'[h].inflight = obj[h].inflight \ {t}
    BY <1>3, <1>5, <2>1 DEF Object, Family, Kin, LastOut
  <2>3. Moves(t, "release")
    BY <1>4, <1>5, Moving DEF Stages
  <2> QED BY <1>1, <1>2, <1>4, <2>2, <2>3
<1>6. CASE ~LastOut(o)
  <2>1. obj'[h] = o
    BY <1>1, <1>2, <1>4, <1>6
  <2>2. Rests(t)
    BY <1>4, <1>6, Moving
  <2> QED BY <1>1, <1>2, <1>3, <1>4, <2>1, <2>2 DEF Family, Kin
<1> QED BY <1>5, <1>6

\* Release closes the channel it took.
LEMMA ReleaseDoes ==
  ASSUME AbiInv, NEW t \in Threads, Release(t)
  PROVE  LET h == th[t].at IN
         /\ th[t].pc = "release" /\ h \in Handles /\ obj[h].kind = "refresher"
         /\ obj'[h].drained = "closed" /\ Rests(t)
         /\ Family(h) /\ Busy(h) /\ obj'[h].closed = obj[h].closed
         /\ \A x \in Handles \ {h} : obj'[x] = obj[x]
         /\ UNCHANGED <<registry, next, loops, ended, cut, retired>>
<1> DEFINE h == th[t].at
<1>1. obj \in [Handles -> Object]
  BY DEF AbiInv, TypeOK
<1>2. th[t].pc = "release" /\ h \in Handles /\ obj[h].kind = "refresher"
  BY Places DEF Release, At, OnRefresher
<1>3. obj' = [obj EXCEPT ![h].drained = "closed"]
  BY DEF Release
<1>4. /\ obj'[h].drained = "closed"
      /\ Family(h) /\ Busy(h) /\ obj'[h].closed = obj[h].closed
      /\ \A x \in Handles \ {h} : obj'[x] = obj[x]
  BY <1>1, <1>2, <1>3 DEF Object, Family, Kin, Busy
<1> QED BY <1>2, <1>4, Moving DEF Release

\* Start makes a loop with an id nobody uses, unless one is there or the object is closed.
LEMMA StartDoes ==
  ASSUME AbiInv, NEW t \in Threads, Start(t)
  PROVE  LET h == th[t].at IN
         /\ th[t].pc = "start" /\ h \in Handles /\ obj[h].kind = "refresher" /\ Rests(t)
         /\ \/ obj' = obj /\ loops' = loops
            \/ /\ ~obj[h].closed /\ obj[h].cancel = 0
               /\ \E i \in FreeLoops(h) : obj'[h].cancel = i /\ loops' = loops \cup {<<h, i>>}
               /\ Family(h) /\ Life(h) /\ obj'[h].inflight = obj[h].inflight
               /\ \A x \in Handles \ {h} : obj'[x] = obj[x]
         /\ UNCHANGED <<registry, next, ended, cut, retired>>
<1> DEFINE h == th[t].at
<1>1. obj \in [Handles -> Object]
  BY DEF AbiInv, TypeOK
<1>2. th[t].pc = "start" /\ h \in Handles /\ obj[h].kind = "refresher"
  BY Places DEF Start, At, OnRefresher
<1>3. Rests(t) /\ UNCHANGED <<registry, next, ended, cut, retired>>
  BY Moving DEF Start
<1>4. CASE MayBegin(h) /\ obj[h].cancel = 0
  <2>1. PICK i \in FreeLoops(h) :
          obj' = [obj EXCEPT ![h].cancel = i] /\ loops' = loops \cup {<<h, i>>}
    BY <1>4 DEF Start
  <2>2. /\ obj'[h].cancel = i
        /\ Family(h) /\ Life(h) /\ obj'[h].inflight = obj[h].inflight
        /\ \A x \in Handles \ {h} : obj'[x] = obj[x]
    BY <1>1, <1>2, <2>1 DEF Object, Family, Kin, Life
  <2> QED BY <1>2, <1>3, <1>4, <2>1, <2>2 DEF MayBegin
<1>5. CASE ~(MayBegin(h) /\ obj[h].cancel = 0)
  BY <1>2, <1>3, <1>5 DEF Start
<1> QED BY <1>4, <1>5

\* Stop takes the loop out of the object.
LEMMA StopDoes ==
  ASSUME AbiInv, NEW t \in Threads, Stop(t)
  PROVE  LET h == th[t].at IN
         /\ th[t].pc = "stop" /\ h \in Handles /\ obj[h].kind = "refresher"
         /\ obj'[h].cancel = 0
         /\ \/ obj[h].cancel = 0 /\ Rests(t)
            \/ /\ obj[h].cancel # 0 /\ Others(t)
               /\ th'[t].pc = "cancel" /\ th'[t].loop = obj[h].cancel
               /\ th'[t].at = h /\ th'[t].over = th[t].over
               /\ th'[t].pending = th[t].pending /\ th'[t].todo = th[t].todo
         /\ Family(h) /\ Life(h) /\ obj'[h].inflight = obj[h].inflight
         /\ \A x \in Handles \ {h} : obj'[x] = obj[x]
         /\ UNCHANGED <<registry, next, loops, ended, cut, retired>>
<1> DEFINE h == th[t].at
<1>1. obj \in [Handles -> Object] /\ th \in [Threads -> Thread]
  BY DEF AbiInv, TypeOK
<1>2. th[t].pc = "stop" /\ h \in Handles /\ obj[h].kind = "refresher"
  BY Places DEF Stop, At, OnRefresher
<1>3. obj' = [obj EXCEPT ![h].cancel = 0]
  BY DEF Stop, Taken
<1>4. /\ obj'[h].cancel = 0
      /\ Family(h) /\ Life(h) /\ obj'[h].inflight = obj[h].inflight
      /\ \A x \in Handles \ {h} : obj'[x] = obj[x]
  BY <1>1, <1>2, <1>3 DEF Object, Family, Kin, Life
<1>5. CASE obj[h].cancel = 0
  BY <1>2, <1>4, <1>5, Moving DEF Stop
<1>6. CASE obj[h].cancel # 0
  <2>1. th' = [th EXCEPT ![t].pc = "cancel", ![t].loop = obj[h].cancel]
    BY <1>6 DEF Stop
  <2>2. /\ Others(t) /\ th'[t].pc = "cancel" /\ th'[t].loop = obj[h].cancel
        /\ th'[t].at = h /\ th'[t].over = th[t].over
        /\ th'[t].pending = th[t].pending /\ th'[t].todo = th[t].todo
    BY SMTT(30), <1>1, <2>1 DEF Thread, Others
  <2> QED BY <1>2, <1>4, <1>6, <2>2 DEF Stop
<1> QED BY <1>5, <1>6

\* The close of an engine takes its children.
LEMMA EngineCloseDoes ==
  ASSUME AbiInv, NEW t \in Threads, EngineClose(t)
  PROVE  LET e == th[t].at IN
         /\ th[t].pc = "eclose" /\ e \in Handles /\ obj[e].kind = "engine"
         /\ obj'[e].closed /\ obj'[e].children = {}
         /\ Kin(e) /\ Busy(e) /\ obj'[e].drained = obj[e].drained
         /\ \A x \in Handles \ {e} : obj'[x] = obj[x]
         /\ Others(t) /\ th'[t].pc = "children" /\ th'[t].over = e /\ th'[t].at = e
         /\ th'[t].todo = obj[e].children
         /\ th'[t].loop = th[t].loop /\ th'[t].pending = th[t].pending
         /\ UNCHANGED <<registry, next, loops, ended, cut, retired>>
<1> DEFINE e == th[t].at
<1>1. obj \in [Handles -> Object] /\ th \in [Threads -> Thread]
  BY DEF AbiInv, TypeOK
<1>2. th[t].pc = "eclose" /\ e \in Handles /\ obj[e].kind = "engine"
  BY Places DEF EngineClose, At
<1>3. /\ obj' = [obj EXCEPT ![e].closed = TRUE, ![e].children = {}]
      /\ th' = [th EXCEPT ![t].pc = "children", ![t].over = e, ![t].todo = obj[e].children]
  BY DEF EngineClose
<1>4. /\ obj'[e].closed /\ obj'[e].children = {}
      /\ Kin(e) /\ Busy(e) /\ obj'[e].drained = obj[e].drained
      /\ \A x \in Handles \ {e} : obj'[x] = obj[x]
  BY <1>1, <1>2, <1>3 DEF Object, Kin, Busy
<1>5. /\ Others(t) /\ th'[t].pc = "children" /\ th'[t].over = e /\ th'[t].at = e
      /\ th'[t].todo = obj[e].children
      /\ th'[t].loop = th[t].loop /\ th'[t].pending = th[t].pending
  BY <1>1, <1>3 DEF Thread, Others
<1> QED BY <1>2, <1>4, <1>5 DEF EngineClose

\* It takes them one by one, and closes those it took out of the registry itself.
LEMMA NextChildDoes ==
  ASSUME AbiInv, NEW t \in Threads, NextChild(t)
  PROVE  \E h \in th[t].todo :
         /\ th[t].pc = "children" /\ h \in Handles /\ registry' = registry \ {h}
         /\ IF h \in registry THEN th'[t].pc = "rclose" ELSE th'[t].pc = "children"
         /\ Others(t) /\ th'[t].at = h /\ th'[t].todo = th[t].todo \ {h}
         /\ th'[t].over = th[t].over
         /\ th'[t].loop = th[t].loop /\ th'[t].pending = th[t].pending
         /\ UNCHANGED <<next, obj, loops, ended, cut, retired>>
<1>1. th \in [Threads -> Thread]
  BY DEF AbiInv, TypeOK
<1>2. PICK h \in th[t].todo :
        /\ registry' = registry \ {h}
        /\ th' = [th EXCEPT ![t].pc = IF h \in registry THEN "rclose" ELSE "children",
                            ![t].at = h, ![t].todo = @ \ {h}]
  BY DEF NextChild
<1>3. h \in Handles
  BY <1>1, ThreadFields
<1>4. /\ IF h \in registry THEN th'[t].pc = "rclose" ELSE th'[t].pc = "children"
      /\ Others(t) /\ th'[t].at = h /\ th'[t].todo = th[t].todo \ {h}
      /\ th'[t].over = th[t].over
      /\ th'[t].loop = th[t].loop /\ th'[t].pending = th[t].pending
  BY <1>1, <1>2 DEF Thread, Others
<1> QED BY <1>2, <1>3, <1>4 DEF NextChild, At

\* The close of a refresher takes its loop and its calls.
LEMMA RefresherCloseDoes ==
  ASSUME AbiInv, NEW t \in Threads, RefresherClose(t)
  PROVE  LET h == th[t].at IN
         /\ th[t].pc = "rclose" /\ h \in Handles /\ obj[h].kind = "refresher"
         /\ obj'[h].closed /\ obj'[h].cancel = 0
         /\ IF obj[h].inflight = {} THEN obj'[h].drained = obj[h].drained
                                    ELSE obj'[h].drained = "made"
         /\ Family(h) /\ obj'[h].inflight = obj[h].inflight
         /\ \A x \in Handles \ {h} : obj'[x] = obj[x]
         /\ IF obj[h].cancel = 0 THEN th'[t].pc = "rpending" ELSE th'[t].pc = "rcancel"
         /\ Others(t) /\ th'[t].at = h /\ th'[t].over = th[t].over
         /\ th'[t].todo = th[t].todo
         /\ th'[t].loop = obj[h].cancel /\ th'[t].pending = obj[h].inflight
         /\ UNCHANGED <<registry, next, loops, ended, cut, retired>>
<1> DEFINE h == th[t].at
<1>1. obj \in [Handles -> Object] /\ th \in [Threads -> Thread]
  BY DEF AbiInv, TypeOK
<1>2. th[t].pc = "rclose" /\ h \in Handles /\ obj[h].kind = "refresher"
  BY Places DEF RefresherClose, At, OnRefresher, Unmaking
<1>3. /\ obj' = [obj EXCEPT ![h] =
                   [obj[h] EXCEPT !.closed = TRUE, !.cancel = 0,
                                  !.drained = IF obj[h].inflight # {} THEN "made" ELSE @]]
      /\ th' = [th EXCEPT ![t].pc = IF obj[h].cancel # 0 THEN "rcancel" ELSE "rpending",
                          ![t].loop = obj[h].cancel, ![t].pending = obj[h].inflight]
  BY DEF RefresherClose
<1>4. /\ obj'[h].closed /\ obj'[h].cancel = 0
      /\ IF obj[h].inflight = {} THEN obj'[h].drained = obj[h].drained
                                 ELSE obj'[h].drained = "made"
      /\ Family(h) /\ obj'[h].inflight = obj[h].inflight
      /\ \A x \in Handles \ {h} : obj'[x] = obj[x]
  <2>1. obj'[h] = [obj[h] EXCEPT !.closed = TRUE, !.cancel = 0,
                                 !.drained = IF obj[h].inflight # {} THEN "made"
                                             ELSE obj[h].drained]
    BY <1>1, <1>2, <1>3
  <2>2. obj[h] \in Object
    BY <1>1, <1>2
  <2>3. \A x \in Handles \ {h} : obj'[x] = obj[x]
    BY <1>1, <1>3
  <2> QED BY <2>1, <2>2, <2>3 DEF Object, Family, Kin
<1>5. /\ IF obj[h].cancel = 0 THEN th'[t].pc = "rpending" ELSE th'[t].pc = "rcancel"
      /\ Others(t) /\ th'[t].at = h /\ th'[t].over = th[t].over /\ th'[t].todo = th[t].todo
      /\ th'[t].loop = obj[h].cancel /\ th'[t].pending = obj[h].inflight
  BY <1>1, <1>3 DEF Thread, Others
<1> QED BY <1>2, <1>4, <1>5 DEF RefresherClose

\* Detach takes the refresher off its engine's list.
LEMMA DetachDoes ==
  ASSUME AbiInv, NEW t \in Threads, Detach(t)
  PROVE  LET h == th[t].at   e == obj[h].parent IN
         /\ th[t].pc = "detach" /\ h \in Handles /\ obj[h].kind = "refresher"
         /\ e \in Handles /\ obj[e].kind = "engine" /\ h # e
         /\ obj'[e].children = obj[e].children \ {h}
         /\ Kin(e) /\ Life(e) /\ Busy(e)
         /\ \A x \in Handles \ {e} : obj'[x] = obj[x]
         /\ retired' = retired \cup {h}
         /\ \/ th[t].over = 0 /\ Rests(t)
            \/ /\ th[t].over # 0 /\ Others(t) /\ th'[t].pc = "children"
               /\ th'[t].loop = 0 /\ th'[t].pending = {}
               /\ th'[t].at = h /\ th'[t].over = th[t].over /\ th'[t].todo = th[t].todo
         /\ UNCHANGED <<registry, next, loops, ended, cut>>
<1> DEFINE h == th[t].at
           e == obj[h].parent
<1>1. obj \in [Handles -> Object] /\ th \in [Threads -> Thread]
  BY DEF AbiInv, TypeOK
<1>2. /\ th[t].pc = "detach" /\ h \in Handles /\ obj[h].kind = "refresher"
      /\ e \in Handles /\ obj[e].kind = "engine" /\ h # e
  BY SMTT(30), Places DEF Detach, At, OnRefresher, Unmaking, Shutting
<1>3. obj' = [obj EXCEPT ![e].children = obj[e].children \ {h}]
  BY SMTT(30) DEF Detach, Detached
<1>4. /\ obj'[e].children = obj[e].children \ {h}
      /\ Kin(e) /\ Life(e) /\ Busy(e)
      /\ \A x \in Handles \ {e} : obj'[x] = obj[x]
  BY SMTT(30), <1>1, <1>2, <1>3 DEF Object, Kin, Life, Busy
<1>5. CASE th[t].over = 0
  BY ZenonT(60), <1>2, <1>4, <1>5, Moving DEF Detach
<1>6. CASE th[t].over # 0
  <2>1. th' = [th EXCEPT ![t].pc = "children", ![t].loop = 0, ![t].pending = {}]
    BY <1>6 DEF Detach
  <2>2. /\ Others(t) /\ th'[t].pc = "children"
        /\ th'[t].loop = 0 /\ th'[t].pending = {}
        /\ th'[t].at = h /\ th'[t].over = th[t].over /\ th'[t].todo = th[t].todo
    BY <1>1, <2>1 DEF Thread, Others
  <2> QED BY <1>2, <1>4, <1>6, <2>2 DEF Detach
<1> QED BY SMTT(30), <1>5, <1>6

\* The steps that only move a thread.
LEMMA WaitDoes ==
  ASSUME AbiInv, NEW t \in Threads, FetchDone(t) \/ ReadyDone(t)
  PROVE  /\ th[t].pc \in {"fetching", "waiting"} /\ Moves(t, "leave")
         /\ UNCHANGED <<registry, next, obj, loops, ended, cut, retired>>
<1>1. "leave" \in Stages
  BY DEF Stages, Working
<1> QED BY <1>1, Moving DEF FetchDone, ReadyDone, At

\* Stop cancels the loop it took.
LEMMA StopCancelDoes ==
  ASSUME AbiInv, NEW t \in Threads, StopCancel(t)
  PROVE  /\ th[t].pc = "cancel" /\ Moves(t, "await")
         /\ ended' = ended \cup {<<th[t].at, th[t].loop>>}
         /\ UNCHANGED <<registry, next, obj, loops, cut, retired>>
<1>1. "await" \in Stages
  BY DEF Stages, Ending
<1> QED BY <1>1, Moving DEF StopCancel, Cancelled, At

\* Stop returns.
LEMMA StopAwaitDoes ==
  ASSUME AbiInv, NEW t \in Threads, StopAwait(t)
  PROVE  /\ th[t].pc = "await" /\ Rests(t)
         /\ UNCHANGED <<registry, next, obj, loops, ended, cut, retired>>
BY Moving DEF StopAwait, At

\* Close cancels the loop it took.
LEMMA CloseCancelDoes ==
  ASSUME AbiInv, NEW t \in Threads, CloseCancel(t)
  PROVE  /\ th[t].pc = "rcancel" /\ Moves(t, "rawait")
         /\ ended' = ended \cup {<<th[t].at, th[t].loop>>}
         /\ UNCHANGED <<registry, next, obj, loops, cut, retired>>
<1>1. "rawait" \in Stages
  BY DEF Stages, Ending
<1> QED BY <1>1, Moving DEF CloseCancel, Cancelled, At

\* Close has seen the loop return.
LEMMA CloseAwaitDoes ==
  ASSUME AbiInv, NEW t \in Threads, CloseAwait(t)
  PROVE  /\ th[t].pc = "rawait" /\ Moves(t, "rpending")
         /\ UNCHANGED <<registry, next, obj, loops, ended, cut, retired>>
<1>1. "rpending" \in Stages
  BY DEF Stages, Closing
<1> QED BY <1>1, Moving DEF CloseAwait, At

\* Close cancels the calls it found.
LEMMA CloseInterruptDoes ==
  ASSUME AbiInv, NEW t \in Threads, CloseInterrupt(t)
  PROVE  /\ th[t].pc = "rpending" /\ Moves(t, "rdrain")
         /\ UNCHANGED <<registry, next, obj, loops, ended, retired>>
<1>1. "rdrain" \in Stages
  BY DEF Stages, Closing
<1> QED BY <1>1, Moving DEF CloseInterrupt, At

\* Close has seen those calls leave.
LEMMA CloseDrainDoes ==
  ASSUME AbiInv, NEW t \in Threads, CloseDrain(t)
  PROVE  /\ th[t].pc = "rdrain" /\ Moves(t, "detach")
         /\ th[t].pending # {} => obj[th[t].at].drained = "closed"
         /\ UNCHANGED <<registry, next, obj, loops, ended, cut, retired>>
<1>1. "detach" \in Stages
  BY DEF Stages, Closing
<1> QED BY <1>1, Moving DEF CloseDrain, Drained, At

\* A refused config gives the reserved handle up.
LEMMA BadConfigDoes ==
  ASSUME AbiInv, NEW t \in Threads, BadConfig(t)
  PROVE  /\ th[t].pc = "adopt" /\ Rests(t)
         /\ UNCHANGED <<registry, next, obj, loops, ended, cut, retired>>
BY Moving DEF BadConfig, At

\* The close of an engine returns when no child is left.
LEMMA EngineClosedDoes ==
  ASSUME AbiInv, NEW t \in Threads, EngineClosed(t)
  PROVE  /\ th[t].pc = "children" /\ th[t].todo = {} /\ Rests(t)
         /\ retired' = retired \cup {th[t].over}
         /\ UNCHANGED <<registry, next, obj, loops, ended, cut>>
BY Moving DEF EngineClosed, At

\* The steps with which a thread comes into the library.
Begins(t, p, h, e) ==
  /\ Others(t) /\ th'[t].pc = p /\ th'[t].at = h /\ th'[t].over = e
  /\ th'[t].loop = 0 /\ th'[t].pending = {} /\ th'[t].todo = {}

\* NewRefresher reserves a handle.
LEMMA NewRefresherDoes ==
  ASSUME AbiInv, NEW t \in Threads, NEW e \in Handles, NewRefresher(t, e)
  PROVE  /\ th[t].pc = "idle" /\ Begins(t, "adopt", next, e)
         /\ next \in Handles /\ next' = next + 1
         /\ e \in registry /\ obj[e].kind = "engine"
         /\ UNCHANGED <<registry, obj, loops, ended, cut, retired>>
<1>1. th \in [Threads -> Thread]
  BY DEF AbiInv, TypeOK
<1> QED BY <1>1 DEF NewRefresher, At, Idle, Begins, Others

\* Take retires a handle of either kind.
LEMMA TakeDoes ==
  ASSUME AbiInv, NEW t \in Threads, NEW h \in Handles, Take(t, h)
  PROVE  /\ th[t].pc = "idle" /\ h \in registry /\ registry' = registry \ {h}
         /\ \/ obj[h].kind = "engine" /\ Begins(t, "eclose", h, 0)
            \/ obj[h].kind = "refresher" /\ Begins(t, "rclose", h, 0)
         /\ UNCHANGED <<next, obj, loops, ended, cut, retired>>
<1>1. th \in [Threads -> Thread] /\ obj \in [Handles -> Object]
  BY DEF AbiInv, TypeOK
<1>2. obj[h].kind \in {"engine", "refresher"}
  BY <1>1 DEF Take, Object, AbiInv, TypeOK
<1>3. CASE obj[h].kind = "engine"
  BY <1>1, <1>3 DEF Take, At, Idle, Begins, Others
<1>4. CASE obj[h].kind = "refresher"
  BY <1>1, <1>4 DEF Take, At, Idle, Begins, Others
<1> QED BY <1>2, <1>3, <1>4

\* A call looks a handle of the right kind up.
LEMMA CallDoes ==
  ASSUME AbiInv, NEW t \in Threads, NEW h \in Handles, NEW m \in Methods \cup {"load"}, Call(t, h, m)
  PROVE  /\ th[t].pc = "idle" /\ h \in registry
         /\ \/ obj[h].kind = "engine" /\ Begins(t, "load", h, 0)
            \/ /\ obj[h].kind = "refresher"
               /\ \E p \in {"refresh", "ready", "start", "stop"} : Begins(t, p, h, 0)
         /\ UNCHANGED <<registry, next, obj, loops, ended, cut, retired>>
<1>1. th \in [Threads -> Thread]
  BY DEF AbiInv, TypeOK
<1>2. th[t].pc = "idle" /\ Begins(t, m, h, 0)
  BY <1>1 DEF Call, At, Idle, Begins, Others
<1>3. CASE m = "load"
  BY <1>2, <1>3 DEF Call
<1>4. CASE m # "load"
  <2>1. m \in {"refresh", "ready", "start", "stop"}
    BY <1>4, AbiAssumption
  <2> QED BY <1>2, <1>4, <2>1 DEF Call
<1> QED BY <1>3, <1>4

\* No object changes in what the invariant speaks of.
Alike == \A x \in Handles : Family(x) /\ Life(x) /\ Busy(x)

\* The steps after which an engine has rates.
LEMMA LoadersDo ==
  ASSUME AbiInv
  PROVE  /\ \A t \in Threads : Load(t) =>
              /\ th[t].pc = "load" /\ Rests(t) /\ Alike
              /\ UNCHANGED <<registry, next, loops, ended, cut, retired>>
         /\ \A t \in Threads : FetchLoads(t) =>
              Alike /\ UNCHANGED <<registry, next, loops, ended, th, cut, retired>>
         /\ \A h \in Handles, i \in LoopIds : LoopLoads(h, i) =>
              Alike /\ UNCHANGED <<registry, next, loops, ended, th, cut, retired>>
<1>1. ASSUME NEW e \in Handles, obj' = [obj EXCEPT ![e].loaded = TRUE] PROVE Alike
  BY <1>1, LoadsDo DEF Alike
<1>2. ASSUME NEW t \in Threads, Load(t) PROVE th[t].pc = "load" /\ Rests(t) /\ Alike
  BY <1>1, <1>2, Places, Moving DEF Load, At
<1>3. ASSUME NEW t \in Threads, FetchLoads(t) PROVE Alike
  BY <1>1, <1>3, Places DEF FetchLoads, At, OnRefresher, Working
<1>4. ASSUME NEW h \in Handles, NEW i \in LoopIds, LoopLoads(h, i) PROVE Alike
  <2>1. obj[h].parent \in Handles
    BY <1>4 DEF LoopLoads, AbiInv, LoopsHeld, Objects, Refreshers
  <2> QED BY <1>1, <1>4, <2>1 DEF LoopLoads
<1> QED BY <1>2, <1>3, <1>4 DEF Load, FetchLoads, LoopLoads

\* What typing says of the fields.
LEMMA Typed ==
  ASSUME AbiInv
  PROVE  /\ \A h \in registry : h \in Handles /\ obj[h].kind # "none"
         /\ next \in Nat /\ 0 \notin Handles
         /\ \A h \in Handles : h \in Nat /\ obj[h].children \subseteq Handles
                               /\ obj[h].inflight \subseteq Threads
                               /\ obj[h].cancel \in LoopIds \cup {0}
                               /\ obj[h].kind \in {"none", "engine", "refresher"}
         /\ \A t \in Threads : th[t].todo \subseteq Handles /\ th[t].pending \subseteq Threads
         /\ loops \subseteq Handles \X LoopIds /\ ended \subseteq loops
         /\ retired \subseteq Handles
         /\ 0 \notin LoopIds
BY SMTT(30), AbiAssumption DEF AbiInv, TypeOK, Object, Thread, Handles

\* What a step may do to the objects.
LEMMA ObjectsChange ==
  ASSUME AbiInv, [Next]_vars
  PROVE  \/ UNCHANGED obj \/ Alike
         \/ \E t \in Threads : \/ New(t) \/ Adopt(t) \/ Enter(t) \/ Leave(t) \/ Release(t)
                               \/ Start(t) \/ Stop(t) \/ EngineClose(t) \/ RefresherClose(t)
                               \/ Detach(t)
BY LoadersDo
   DEF Next, Begin, Continue, vars, NewRefresher, Take, Call, BadConfig, FetchDone, ReadyDone,
       StopCancel, StopAwait, NextChild, EngineClosed, CloseCancel, CloseAwait, CloseInterrupt,
       CloseDrain, LoopExit
=============================================================================
