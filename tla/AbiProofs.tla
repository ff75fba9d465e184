------------------------------ MODULE AbiProofs ------------------------------
(***************************************************************************)
(* Theorems about Abi, for any threads of the host, handles and loops: the *)
(* steps keep AbiInv, one lemma for each of its parts, and the safety      *)
(* properties follow.                                                      *)
(***************************************************************************)
EXTENDS AbiSteps

\* Objects never change kind or parent once they exist.
LEMMA KindsLast ==
  ASSUME AbiInv, [Next]_vars
  PROVE  \A h \in Handles : obj[h].kind # "none" => Kin(h)
<1> USE Typed DEF AbiInv, Alike, Kin, Family, Life, Busy, Objects, Roles, Role
<1>1. ASSUME NEW t \in Threads, New(t) PROVE \A h \in Handles : obj[h].kind # "none" => Kin(h)
  BY <1>1, NewDoes
<1>2. ASSUME NEW t \in Threads, Adopt(t) PROVE \A h \in Handles : obj[h].kind # "none" => Kin(h)
  BY <1>2, AdoptDoes
<1>3. ASSUME NEW t \in Threads, Enter(t) PROVE \A h \in Handles : obj[h].kind # "none" => Kin(h)
  BY <1>3, EnterDoes
<1>4. ASSUME NEW t \in Threads, Leave(t) PROVE \A h \in Handles : obj[h].kind # "none" => Kin(h)
  BY <1>4, LeaveDoes
<1>5. ASSUME NEW t \in Threads, Release(t) PROVE \A h \in Handles : obj[h].kind # "none" => Kin(h)
  BY <1>5, ReleaseDoes
<1>6. ASSUME NEW t \in Threads, Start(t) PROVE \A h \in Handles : obj[h].kind # "none" => Kin(h)
  BY <1>6, StartDoes
<1>7. ASSUME NEW t \in Threads, Stop(t) PROVE \A h \in Handles : obj[h].kind # "none" => Kin(h)
  BY <1>7, StopDoes
<1>8. ASSUME NEW t \in Threads, EngineClose(t)
      PROVE \A h \in Handles : obj[h].kind # "none" => Kin(h)
  BY <1>8, EngineCloseDoes
<1>9. ASSUME NEW t \in Threads, RefresherClose(t)
      PROVE \A h \in Handles : obj[h].kind # "none" => Kin(h)
  BY SMTT(30), <1>9, RefresherCloseDoes
<1>10. ASSUME NEW t \in Threads, Detach(t) PROVE \A h \in Handles : obj[h].kind # "none" => Kin(h)
  BY SMTT(30), <1>10, DetachDoes
<1>11. CASE Alike
  BY <1>11
<1>12. CASE UNCHANGED obj
  BY <1>12
<1> QED BY ObjectsChange, <1>1, <1>2, <1>3, <1>4, <1>5, <1>6, <1>7, <1>8, <1>9, <1>10, <1>11,
         <1>12

\* A closed object stays closed, and takes in no call.
LEMMA ClosedForGood ==
  ASSUME AbiInv, [Next]_vars, NEW x \in Handles, obj[x].closed, obj[x].kind # "none"
  PROVE  obj'[x].closed /\ obj'[x].inflight \subseteq obj[x].inflight
<1> USE Typed DEF AbiInv, Alike, Kin, Family, Life, Busy
<1>1. ASSUME NEW t \in Threads, New(t)
      PROVE obj'[x].closed /\ obj'[x].inflight \subseteq obj[x].inflight
  <2>1. obj[next].kind = "none"
    BY <1>1, NewDoes, Typed DEF AbiInv, Objects
  <2> QED BY <1>1, <2>1, NewDoes
<1>2. ASSUME NEW t \in Threads, Adopt(t)
      PROVE obj'[x].closed /\ obj'[x].inflight \subseteq obj[x].inflight
  BY <1>2, AdoptDoes
<1>3. ASSUME NEW t \in Threads, Enter(t)
      PROVE obj'[x].closed /\ obj'[x].inflight \subseteq obj[x].inflight
  BY <1>3, EnterDoes
<1>4. ASSUME NEW t \in Threads, Leave(t)
      PROVE obj'[x].closed /\ obj'[x].inflight \subseteq obj[x].inflight
  BY <1>4, LeaveDoes
<1>5. ASSUME NEW t \in Threads, Release(t)
      PROVE obj'[x].closed /\ obj'[x].inflight \subseteq obj[x].inflight
  BY <1>5, ReleaseDoes
<1>6. ASSUME NEW t \in Threads, Start(t)
      PROVE obj'[x].closed /\ obj'[x].inflight \subseteq obj[x].inflight
  BY <1>6, StartDoes
<1>7. ASSUME NEW t \in Threads, Stop(t)
      PROVE obj'[x].closed /\ obj'[x].inflight \subseteq obj[x].inflight
  BY <1>7, StopDoes
<1>8. ASSUME NEW t \in Threads, EngineClose(t)
      PROVE obj'[x].closed /\ obj'[x].inflight \subseteq obj[x].inflight
  BY <1>8, EngineCloseDoes
<1>9. ASSUME NEW t \in Threads, RefresherClose(t)
      PROVE obj'[x].closed /\ obj'[x].inflight \subseteq obj[x].inflight
  BY <1>9, RefresherCloseDoes
<1>10. ASSUME NEW t \in Threads, Detach(t)
      PROVE obj'[x].closed /\ obj'[x].inflight \subseteq obj[x].inflight
  BY SMTT(30), <1>10, DetachDoes
<1>11. CASE Alike
  BY <1>11
<1>12. CASE UNCHANGED obj
  BY <1>12
<1> QED BY ObjectsChange, <1>1, <1>2, <1>3, <1>4, <1>5, <1>6, <1>7, <1>8, <1>9, <1>10, <1>11,
         <1>12

\* Only a handle that had no object yet comes onto a list of children.
LEMMA ChildrenGrow ==
  ASSUME AbiInv, [Next]_vars, NEW x \in Handles, NEW y \in Handles,
         y \in obj'[x].children, obj[y].kind # "none"
  PROVE  y \in obj[x].children
<1>1. \A t \in Threads : th[t].pc = "adopt" => obj[th[t].at].kind = "none"
  BY DEF AbiInv, Roles, Role
<1> USE <1>1 DEF Alike, Kin, Family, Life, Busy
<1>2. ASSUME NEW t \in Threads, New(t) PROVE y \in obj[x].children
  BY <1>2, NewDoes
<1>3. ASSUME NEW t \in Threads, Adopt(t) PROVE y \in obj[x].children
  BY <1>3, AdoptDoes
<1>4. ASSUME NEW t \in Threads, Enter(t) PROVE y \in obj[x].children
  BY <1>4, EnterDoes
<1>5. ASSUME NEW t \in Threads, Leave(t) PROVE y \in obj[x].children
  BY <1>5, LeaveDoes
<1>6. ASSUME NEW t \in Threads, Release(t) PROVE y \in obj[x].children
  BY <1>6, ReleaseDoes
<1>7. ASSUME NEW t \in Threads, Start(t) PROVE y \in obj[x].children
  BY <1>7, StartDoes
<1>8. ASSUME NEW t \in Threads, Stop(t) PROVE y \in obj[x].children
  BY <1>8, StopDoes
<1>9. ASSUME NEW t \in Threads, EngineClose(t) PROVE y \in obj[x].children
  BY <1>9, EngineCloseDoes
<1>10. ASSUME NEW t \in Threads, RefresherClose(t) PROVE y \in obj[x].children
  BY <1>10, RefresherCloseDoes
<1>11. ASSUME NEW t \in Threads, Detach(t) PROVE y \in obj[x].children
  BY <1>11, DetachDoes
<1>12. CASE Alike
  BY <1>12
<1>13. CASE UNCHANGED obj
  BY <1>13
<1> QED BY ObjectsChange, <1>2, <1>3, <1>4, <1>5, <1>6, <1>7, <1>8, <1>9, <1>10, <1>11, <1>12,
         <1>13

\* A reserved handle is one thread's own.
LEMMA OwnKept ==
  ASSUME AbiInv, [Next]_vars
  PROVE  OwnReserve'
<1> USE Typed DEF AbiInv, Alike, Kin, Family, Life, Busy, Others, Holds, Moves, Rests, Begins,
         Idle, Roles, Role, OwnReserve, Unmaking, Shutting, Working, Ending
<1>1. ASSUME NEW t \in Threads, New(t) PROVE OwnReserve'
  BY <1>1, NewDoes
<1>2. ASSUME NEW t \in Threads, NEW h \in Handles, NewRefresher(t, h) PROVE OwnReserve'
  BY <1>2, NewRefresherDoes
<1>3. ASSUME NEW t \in Threads, NEW h \in Handles, Take(t, h) PROVE OwnReserve'
  BY <1>3, TakeDoes
<1>4. ASSUME NEW t \in Threads, NEW h \in Handles, NEW m \in Methods \cup {"load"}, Call(t, h, m)
      PROVE OwnReserve'
  BY <1>4, CallDoes
<1>5. ASSUME NEW t \in Threads, BadConfig(t) PROVE OwnReserve'
  BY <1>5, BadConfigDoes
<1>6. ASSUME NEW t \in Threads, Adopt(t) PROVE OwnReserve'
  BY <1>6, AdoptDoes
<1>7. ASSUME NEW t \in Threads, Enter(t) PROVE OwnReserve'
  BY <1>7, EnterDoes
<1>8. ASSUME NEW t \in Threads, FetchDone(t) \/ ReadyDone(t) PROVE OwnReserve'
  BY <1>8, WaitDoes
<1>9. ASSUME NEW t \in Threads, Leave(t) PROVE OwnReserve'
  BY <1>9, LeaveDoes
<1>10. ASSUME NEW t \in Threads, Release(t) PROVE OwnReserve'
  BY <1>10, ReleaseDoes
<1>11. ASSUME NEW t \in Threads, Start(t) PROVE OwnReserve'
  BY <1>11, StartDoes
<1>12. ASSUME NEW t \in Threads, Stop(t) PROVE OwnReserve'
  BY <1>12, StopDoes
<1>13. ASSUME NEW t \in Threads, StopCancel(t) PROVE OwnReserve'
  BY <1>13, StopCancelDoes
<1>14. ASSUME NEW t \in Threads, StopAwait(t) PROVE OwnReserve'
  BY <1>14, StopAwaitDoes
<1>15. ASSUME NEW t \in Threads, EngineClose(t) PROVE OwnReserve'
  BY <1>15, EngineCloseDoes
<1>16. ASSUME NEW t \in Threads, NextChild(t) PROVE OwnReserve'
  BY <1>16, NextChildDoes
<1>17. ASSUME NEW t \in Threads, EngineClosed(t) PROVE OwnReserve'
  BY <1>17, EngineClosedDoes
<1>18. ASSUME NEW t \in Threads, RefresherClose(t) PROVE OwnReserve'
  BY <1>18, RefresherCloseDoes
<1>19. ASSUME NEW t \in Threads, CloseCancel(t) PROVE OwnReserve'
  BY <1>19, CloseCancelDoes
<1>20. ASSUME NEW t \in Threads, CloseAwait(t) PROVE OwnReserve'
  BY <1>20, CloseAwaitDoes
<1>21. ASSUME NEW t \in Threads, CloseInterrupt(t) PROVE OwnReserve'
  BY <1>21, CloseInterruptDoes
<1>22. ASSUME NEW t \in Threads, CloseDrain(t) PROVE OwnReserve'
  BY SMTT(30), <1>22, CloseDrainDoes
<1>23. ASSUME NEW t \in Threads, Detach(t) PROVE OwnReserve'
  BY SMTT(30), <1>23, DetachDoes
<1>24. ASSUME NEW h \in Handles, NEW i \in LoopIds, LoopExit(h, i) PROVE OwnReserve'
  BY <1>24 DEF LoopExit
<1>25. ASSUME NEW t \in Threads, Load(t) PROVE OwnReserve'
  BY <1>25, LoadersDo
<1>26. CASE Alike /\ UNCHANGED <<registry, next, loops, ended, th, cut, retired>>
  BY <1>26
<1>27. CASE UNCHANGED vars
  BY SMTT(30), <1>27 DEF vars
<1> QED BY <1>1, <1>2, <1>3, <1>4, <1>5, <1>6, <1>7, <1>8, <1>9, <1>10, <1>11, <1>12, <1>13,
         <1>14, <1>15, <1>16, <1>17, <1>18, <1>19, <1>20, <1>21, <1>22, <1>23, <1>24, <1>25,
         <1>26, <1>27, LoadersDo DEF Next, Begin, Continue

\* Who works on what.
LEMMA RoleKept ==
  ASSUME AbiInv, [Next]_vars, NEW u \in Threads
  PROVE  Role(u)'
<1>1. Role(u)
  BY DEF AbiInv, Roles
<1>2. \A h \in Handles : obj[h].kind # "none" => Kin(h)
  BY KindsLast
<1> USE <1>1, <1>2 DEF Alike, Kin, Family, Others, Holds, Moves, Rests, Begins, Idle, Role,
         Refreshers, OnRefresher, Unmaking, Shutting, Working, Ending
<1>3. ASSUME NEW t \in Threads, New(t) PROVE Role(u)'
  <2>1. \A h \in Handles : h < next => h # next
    BY Typed
  <2>2. \A h \in Handles : h < next => h < next + 1
    BY Typed
  <2> QED BY <1>3, <2>1, <2>2, NewDoes
<1>4. ASSUME NEW t \in Threads, NEW h \in Handles, NewRefresher(t, h) PROVE Role(u)'
  <2>1. obj[next].kind = "none" /\ next \in Nat
    BY <1>4, NewRefresherDoes, Typed DEF AbiInv, Objects
  <2>2. next < next + 1 /\ \A y \in Handles : y < next => y < next + 1
    BY Typed, <2>1
  <2>3. CASE u = t
    BY <1>4, <2>1, <2>2, <2>3, NewRefresherDoes
  <2>4. CASE u # t
    BY <1>4, <2>2, <2>4, NewRefresherDoes
  <2> QED BY <2>3, <2>4
<1>5. ASSUME NEW t \in Threads, NEW h \in Handles, Take(t, h) PROVE Role(u)'
  BY <1>5, TakeDoes
<1>6. ASSUME NEW t \in Threads, NEW h \in Handles, NEW m \in Methods \cup {"load"}, Call(t, h, m)
      PROVE Role(u)'
  BY <1>6, CallDoes
<1>7. ASSUME NEW t \in Threads, BadConfig(t) PROVE Role(u)'
  BY <1>7, BadConfigDoes
<1>8. ASSUME NEW t \in Threads, Adopt(t) PROVE Role(u)'
  <2>1. CASE u = t
    BY <1>8, <2>1, AdoptDoes
  <2>2. CASE u # t /\ obj' = obj /\ registry' = registry
    BY <1>8, <2>2, AdoptDoes
  <2>3. CASE u # t /\ obj' # obj
    <3>1. th'[u] = th[u] /\ next' = next
      BY <1>8, <2>3, AdoptDoes
    <3>2. \A h \in Handles : obj[h].kind # "none" => Kin(h)
      BY KindsLast
    <3>3. th[u].pc = "adopt" => th[u].at # th[t].at /\ obj'[th[u].at] = obj[th[u].at]
      BY <1>8, <2>3, AdoptDoes DEF OwnReserve, AbiInv, Roles
    <3> QED BY <3>1, <3>2, <3>3
  <2> QED BY <1>8, <2>1, <2>2, <2>3, AdoptDoes
<1>9. ASSUME NEW t \in Threads, Enter(t) PROVE Role(u)'
  <2>1. CASE u = t
    BY <1>9, <2>1, EnterDoes
  <2>2. CASE u # t
    BY <1>9, <2>2, EnterDoes, KindsLast
  <2> QED BY <2>1, <2>2
<1>10. ASSUME NEW t \in Threads, FetchDone(t) \/ ReadyDone(t) PROVE Role(u)'
  BY <1>10, WaitDoes
<1>11. ASSUME NEW t \in Threads, Leave(t) PROVE Role(u)'
  BY <1>11, LeaveDoes
<1>12. ASSUME NEW t \in Threads, Release(t) PROVE Role(u)'
  BY <1>12, ReleaseDoes
<1>13. ASSUME NEW t \in Threads, Start(t) PROVE Role(u)'
  BY <1>13, StartDoes
<1>14. ASSUME NEW t \in Threads, Stop(t) PROVE Role(u)'
  BY <1>14, StopDoes
<1>15. ASSUME NEW t \in Threads, StopCancel(t) PROVE Role(u)'
  BY <1>15, StopCancelDoes
<1>16. ASSUME NEW t \in Threads, StopAwait(t) PROVE Role(u)'
  BY <1>16, StopAwaitDoes
<1>17. ASSUME NEW t \in Threads, EngineClose(t) PROVE Role(u)'
  <2>1. obj[th[t].at].children \subseteq Refreshers
    BY <1>17, EngineCloseDoes DEF AbiInv, Objects
  <2>2. Refreshers \subseteq Refreshers' /\ next' = next /\ th[t].at # 0
    BY <1>17, EngineCloseDoes, Typed
  <2>3. CASE u = t
    BY <1>17, <2>1, <2>2, <2>3, EngineCloseDoes
  <2>4. CASE u # t
    BY <1>17, <2>2, <2>4, EngineCloseDoes
  <2> QED BY <2>3, <2>4
<1>18. ASSUME NEW t \in Threads, NextChild(t) PROVE Role(u)'
  BY <1>18, NextChildDoes
<1>19. ASSUME NEW t \in Threads, EngineClosed(t) PROVE Role(u)'
  BY <1>19, EngineClosedDoes
<1>20. ASSUME NEW t \in Threads, RefresherClose(t) PROVE Role(u)'
  BY <1>20, RefresherCloseDoes
<1>21. ASSUME NEW t \in Threads, CloseCancel(t) PROVE Role(u)'
  BY <1>21, CloseCancelDoes
<1>22. ASSUME NEW t \in Threads, CloseAwait(t) PROVE Role(u)'
  BY <1>22, CloseAwaitDoes
<1>23. ASSUME NEW t \in Threads, CloseInterrupt(t) PROVE Role(u)'
  BY <1>23, CloseInterruptDoes
<1>24. ASSUME NEW t \in Threads, CloseDrain(t) PROVE Role(u)'
  BY <1>24, CloseDrainDoes
<1>25. ASSUME NEW t \in Threads, Detach(t) PROVE Role(u)'
  BY SMTT(30), <1>25, DetachDoes
<1>26. ASSUME NEW h \in Handles, NEW i \in LoopIds, LoopExit(h, i) PROVE Role(u)'
  BY <1>26 DEF LoopExit
<1>27. ASSUME NEW t \in Threads, Load(t) PROVE Role(u)'
  BY <1>27, LoadersDo
<1>28. CASE Alike /\ UNCHANGED <<registry, next, loops, ended, th, cut, retired>>
  BY <1>28
<1>29. CASE UNCHANGED vars
  BY SMTT(30), <1>29 DEF vars
<1> QED BY <1>3, <1>4, <1>5, <1>6, <1>7, <1>8, <1>9, <1>10, <1>11, <1>12, <1>13, <1>14, <1>15,
         <1>16, <1>17, <1>18, <1>19, <1>20, <1>21, <1>22, <1>23, <1>24, <1>25, <1>26, <1>27,
         <1>28, <1>29, LoadersDo DEF Next, Begin, Continue

\* What an object of each kind holds.
LEMMA ObjectsKept ==
  ASSUME AbiInv, [Next]_vars
  PROVE  Objects'
<1> USE Typed DEF AbiInv, Alike, Kin, Family, Life, Busy, Others, Holds, Moves, Rests, Begins,
         Idle, Roles, Role, Objects, Refreshers
<1>1. ASSUME NEW t \in Threads, New(t) PROVE Objects'
  BY <1>1, NewDoes
<1>2. ASSUME NEW t \in Threads, NEW h \in Handles, NewRefresher(t, h) PROVE Objects'
  BY <1>2, NewRefresherDoes
<1>3. ASSUME NEW t \in Threads, NEW h \in Handles, Take(t, h) PROVE Objects'
  BY <1>3, TakeDoes
<1>4. ASSUME NEW t \in Threads, NEW h \in Handles, NEW m \in Methods \cup {"load"}, Call(t, h, m)
      PROVE Objects'
  BY <1>4, CallDoes
<1>5. ASSUME NEW t \in Threads, BadConfig(t) PROVE Objects'
  BY <1>5, BadConfigDoes
<1>6. ASSUME NEW t \in Threads, Adopt(t) PROVE Objects'
  <2>1. CASE obj' = obj
    BY SMTT(30), <1>6, <2>1, AdoptDoes
  <2>2. CASE obj' # obj
    <3> DEFINE h == th[t].at
               e == th[t].over
    <3>1. /\ h \in Handles /\ e \in Handles /\ h # e
          /\ obj'[h].kind = "refresher" /\ obj'[h].parent = e /\ obj'[h].children = {}
          /\ obj'[h].cancel = 0 /\ obj'[h].inflight = {} /\ h < next /\ next' = next
          /\ Kin(e) /\ Busy(e) /\ obj'[e].children = obj[e].children \cup {h}
          /\ obj[h].kind = "none" /\ obj[e].kind = "engine"
          /\ \A y \in Handles \ {h, e} : obj'[y] = obj[y]
      BY SMTT(30), <1>6, <2>2, AdoptDoes
    <3>2. Refreshers \subseteq Refreshers' /\ h \in Refreshers'
      BY <3>1, KindsLast
    <3>3. \A y \in Handles : obj'[y].children \subseteq Refreshers'
      BY SMTT(30), <3>1, <3>2
    <3>4. \A y \in Handles : y # h => Kin(y) /\ Busy(y)
      BY SMTT(30), <3>1
    <3>5. ASSUME NEW y \in Handles, y # h
          PROVE  /\ y >= next => obj'[y].kind = "none"
                 /\ obj'[y].kind # "refresher" => obj'[y].cancel = 0 /\ obj'[y].inflight = {}
                 /\ obj'[y].kind = "refresher" =>
                      obj'[y].parent \in Handles /\ obj'[obj'[y].parent].kind = "engine"
      BY SMTT(30), <3>1, <3>4, <3>5
    <3>6. /\ ~(h >= next) /\ obj'[h].kind = "refresher"
          /\ obj'[h].parent \in Handles /\ obj'[obj'[h].parent].kind = "engine"
      BY <3>1
    <3> QED BY SMTT(30), <3>1, <3>3, <3>5, <3>6
  <2> QED BY <2>1, <2>2
<1>7. ASSUME NEW t \in Threads, Enter(t) PROVE Objects'
  BY <1>7, EnterDoes
<1>8. ASSUME NEW t \in Threads, FetchDone(t) \/ ReadyDone(t) PROVE Objects'
  BY <1>8, WaitDoes
<1>9. ASSUME NEW t \in Threads, Leave(t) PROVE Objects'
  BY <1>9, LeaveDoes
<1>10. ASSUME NEW t \in Threads, Release(t) PROVE Objects'
  BY SMTT(30), <1>10, ReleaseDoes
<1>11. ASSUME NEW t \in Threads, Start(t) PROVE Objects'
  BY <1>11, StartDoes
<1>12. ASSUME NEW t \in Threads, Stop(t) PROVE Objects'
  BY <1>12, StopDoes
<1>13. ASSUME NEW t \in Threads, StopCancel(t) PROVE Objects'
  BY <1>13, StopCancelDoes
<1>14. ASSUME NEW t \in Threads, StopAwait(t) PROVE Objects'
  BY <1>14, StopAwaitDoes
<1>15. ASSUME NEW t \in Threads, EngineClose(t) PROVE Objects'
  BY <1>15, EngineCloseDoes
<1>16. ASSUME NEW t \in Threads, NextChild(t) PROVE Objects'
  BY <1>16, NextChildDoes
<1>17. ASSUME NEW t \in Threads, EngineClosed(t) PROVE Objects'
  BY <1>17, EngineClosedDoes
<1>18. ASSUME NEW t \in Threads, RefresherClose(t) PROVE Objects'
  BY <1>18, RefresherCloseDoes
<1>19. ASSUME NEW t \in Threads, CloseCancel(t) PROVE Objects'
  BY <1>19, CloseCancelDoes
<1>20. ASSUME NEW t \in Threads, CloseAwait(t) PROVE Objects'
  BY <1>20, CloseAwaitDoes
<1>21. ASSUME NEW t \in Threads, CloseInterrupt(t) PROVE Objects'
  BY <1>21, CloseInterruptDoes
<1>22. ASSUME NEW t \in Threads, CloseDrain(t) PROVE Objects'
  BY SMTT(30), <1>22, CloseDrainDoes
<1>23. ASSUME NEW t \in Threads, Detach(t) PROVE Objects'
  BY SMTT(30), <1>23, DetachDoes
<1>24. ASSUME NEW h \in Handles, NEW i \in LoopIds, LoopExit(h, i) PROVE Objects'
  BY <1>24 DEF LoopExit
<1>25. ASSUME NEW t \in Threads, Load(t) PROVE Objects'
  BY <1>25, LoadersDo
<1>26. CASE Alike /\ UNCHANGED <<registry, next, loops, ended, th, cut, retired>>
  BY <1>26
<1>27. CASE UNCHANGED vars
  BY <1>27 DEF vars
<1> QED BY SMTT(30), <1>1, <1>2, <1>3, <1>4, <1>5, <1>6, <1>7, <1>8, <1>9, <1>10, <1>11, <1>12,
         <1>13,
         <1>14, <1>15, <1>16, <1>17, <1>18, <1>19, <1>20, <1>21, <1>22, <1>23, <1>24, <1>25,
         <1>26, <1>27, LoadersDo DEF Next, Begin, Continue

\* The calls in flight are those at work: enter and leave keep the set.
LEMMA CallsKept ==
  ASSUME AbiInv, [Next]_vars
  PROVE  CallsInFlight'
<1> USE Typed DEF AbiInv, Alike, Kin, Family, Life, Busy, Others, Holds, Moves, Rests, Begins,
         Idle, Roles, Role, Objects, CallsInFlight, OnRefresher, Refreshers, Unmaking, Shutting,
         Working, Ending
<1>1. ASSUME NEW t \in Threads, New(t) PROVE CallsInFlight'
  BY <1>1, NewDoes
<1>2. ASSUME NEW t \in Threads, NEW h \in Handles, NewRefresher(t, h) PROVE CallsInFlight'
  BY <1>2, NewRefresherDoes
<1>3. ASSUME NEW t \in Threads, NEW h \in Handles, Take(t, h) PROVE CallsInFlight'
  BY <1>3, TakeDoes
<1>4. ASSUME NEW t \in Threads, NEW h \in Handles, NEW m \in Methods \cup {"load"}, Call(t, h, m)
      PROVE CallsInFlight'
  BY <1>4, CallDoes
<1>5. ASSUME NEW t \in Threads, BadConfig(t) PROVE CallsInFlight'
  BY <1>5, BadConfigDoes
<1>6. ASSUME NEW t \in Threads, Adopt(t) PROVE CallsInFlight'
  <2>1. \A x \in Handles : obj'[x].inflight = obj[x].inflight
    BY <1>6, AdoptDoes
  <2>2. Rests(t) /\ th[t].pc = "adopt"
    BY <1>6, AdoptDoes
  <2> QED BY <2>1, <2>2
<1>7. ASSUME NEW t \in Threads, Enter(t) PROVE CallsInFlight'
  BY SMTT(30), <1>7, EnterDoes
<1>8. ASSUME NEW t \in Threads, FetchDone(t) \/ ReadyDone(t) PROVE CallsInFlight'
  BY <1>8, WaitDoes
<1>9. ASSUME NEW t \in Threads, Leave(t) PROVE CallsInFlight'
  BY SMTT(30), <1>9, LeaveDoes
<1>10. ASSUME NEW t \in Threads, Release(t) PROVE CallsInFlight'
  BY <1>10, ReleaseDoes
<1>11. ASSUME NEW t \in Threads, Start(t) PROVE CallsInFlight'
  BY <1>11, StartDoes
<1>12. ASSUME NEW t \in Threads, Stop(t) PROVE CallsInFlight'
  BY <1>12, StopDoes
<1>13. ASSUME NEW t \in Threads, StopCancel(t) PROVE CallsInFlight'
  BY <1>13, StopCancelDoes
<1>14. ASSUME NEW t \in Threads, StopAwait(t) PROVE CallsInFlight'
  BY <1>14, StopAwaitDoes
<1>15. ASSUME NEW t \in Threads, EngineClose(t) PROVE CallsInFlight'
  BY <1>15, EngineCloseDoes
<1>16. ASSUME NEW t \in Threads, NextChild(t) PROVE CallsInFlight'
  BY <1>16, NextChildDoes
<1>17. ASSUME NEW t \in Threads, EngineClosed(t) PROVE CallsInFlight'
  BY <1>17, EngineClosedDoes
<1>18. ASSUME NEW t \in Threads, RefresherClose(t) PROVE CallsInFlight'
  BY <1>18, RefresherCloseDoes
<1>19. ASSUME NEW t \in Threads, CloseCancel(t) PROVE CallsInFlight'
  BY <1>19, CloseCancelDoes
<1>20. ASSUME NEW t \in Threads, CloseAwait(t) PROVE CallsInFlight'
  BY <1>20, CloseAwaitDoes
<1>21. ASSUME NEW t \in Threads, CloseInterrupt(t) PROVE CallsInFlight'
  BY <1>21, CloseInterruptDoes
<1>22. ASSUME NEW t \in Threads, CloseDrain(t) PROVE CallsInFlight'
  BY SMTT(30), <1>22, CloseDrainDoes
<1>23. ASSUME NEW t \in Threads, Detach(t) PROVE CallsInFlight'
  BY SMTT(30), <1>23, DetachDoes
<1>24. ASSUME NEW h \in Handles, NEW i \in LoopIds, LoopExit(h, i) PROVE CallsInFlight'
  BY <1>24 DEF LoopExit
<1>25. ASSUME NEW t \in Threads, Load(t) PROVE CallsInFlight'
  BY <1>25, LoadersDo
<1>26. CASE Alike /\ UNCHANGED <<registry, next, loops, ended, th, cut, retired>>
  BY <1>26
<1>27. CASE UNCHANGED vars
  BY <1>27 DEF vars
<1> QED BY <1>1, <1>2, <1>3, <1>4, <1>5, <1>6, <1>7, <1>8, <1>9, <1>10, <1>11, <1>12, <1>13,
         <1>14, <1>15, <1>16, <1>17, <1>18, <1>19, <1>20, <1>21, <1>22, <1>23, <1>24, <1>25,
         <1>26, <1>27, LoadersDo DEF Next, Begin, Continue

\* A loop in an object runs and is not cancelled.
LEMMA LoopHeldKept ==
  ASSUME AbiInv, [Next]_vars, NEW x \in Handles
  PROVE  LoopHeld(x)'
<1>1. LoopHeld(x)
  BY DEF AbiInv, LoopsHeld
<1> USE <1>1 DEF Alike, Kin, Family, Life, Busy, LoopHeld
<1>2. ASSUME NEW t \in Threads, New(t) PROVE LoopHeld(x)'
  BY <1>2, NewDoes
<1>3. ASSUME NEW t \in Threads, NEW h \in Handles, NewRefresher(t, h) PROVE LoopHeld(x)'
  BY <1>3, NewRefresherDoes
<1>4. ASSUME NEW t \in Threads, NEW h \in Handles, Take(t, h) PROVE LoopHeld(x)'
  BY <1>4, TakeDoes
<1>5. ASSUME NEW t \in Threads, NEW h \in Handles, NEW m \in Methods \cup {"load"}, Call(t, h, m)
      PROVE LoopHeld(x)'
  BY <1>5, CallDoes
<1>6. ASSUME NEW t \in Threads, BadConfig(t) PROVE LoopHeld(x)'
  BY <1>6, BadConfigDoes
<1>7. ASSUME NEW t \in Threads, Adopt(t) PROVE LoopHeld(x)'
  BY <1>7, AdoptDoes
<1>8. ASSUME NEW t \in Threads, Enter(t) PROVE LoopHeld(x)'
  BY <1>8, EnterDoes
<1>9. ASSUME NEW t \in Threads, FetchDone(t) \/ ReadyDone(t) PROVE LoopHeld(x)'
  BY <1>9, WaitDoes
<1>10. ASSUME NEW t \in Threads, Leave(t) PROVE LoopHeld(x)'
  BY <1>10, LeaveDoes
<1>11. ASSUME NEW t \in Threads, Release(t) PROVE LoopHeld(x)'
  BY <1>11, ReleaseDoes
<1>12. ASSUME NEW t \in Threads, Start(t) PROVE LoopHeld(x)'
  <2> DEFINE h == th[t].at
  <2>1. CASE obj' = obj /\ loops' = loops
    BY <1>12, <2>1, StartDoes
  <2>2. CASE obj' # obj \/ loops' # loops
    <3>1. PICK i \in FreeLoops(h) : obj'[h].cancel = i /\ loops' = loops \cup {<<h, i>>}
      BY <1>12, <2>2, StartDoes
    <3>2. /\ ended' = ended /\ <<h, i>> \notin ended
          /\ \A y \in Handles \ {h} : obj'[y] = obj[y]
      BY <1>12, <2>2, <3>1, StartDoes, Typed DEF FreeLoops
    <3> QED BY <3>1, <3>2
  <2> QED BY <2>1, <2>2
<1>13. ASSUME NEW t \in Threads, Stop(t) PROVE LoopHeld(x)'
  BY <1>13, StopDoes
<1>14. ASSUME NEW t \in Threads, StopCancel(t) PROVE LoopHeld(x)'
  <2>1. obj[th[t].at].cancel # th[t].loop
    BY <1>14, StopCancelDoes DEF AbiInv, LoopsHeld, LoopTaken
  <2> QED BY <1>14, <2>1, StopCancelDoes
<1>15. ASSUME NEW t \in Threads, StopAwait(t) PROVE LoopHeld(x)'
  BY <1>15, StopAwaitDoes
<1>16. ASSUME NEW t \in Threads, EngineClose(t) PROVE LoopHeld(x)'
  BY <1>16, EngineCloseDoes
<1>17. ASSUME NEW t \in Threads, NextChild(t) PROVE LoopHeld(x)'
  BY <1>17, NextChildDoes
<1>18. ASSUME NEW t \in Threads, EngineClosed(t) PROVE LoopHeld(x)'
  BY <1>18, EngineClosedDoes
<1>19. ASSUME NEW t \in Threads, RefresherClose(t) PROVE LoopHeld(x)'
  BY <1>19, RefresherCloseDoes
<1>20. ASSUME NEW t \in Threads, CloseCancel(t) PROVE LoopHeld(x)'
  <2>1. obj[th[t].at].cancel # th[t].loop
    BY <1>20, CloseCancelDoes DEF AbiInv, LoopsHeld, LoopTaken
  <2> QED BY <1>20, <2>1, CloseCancelDoes
<1>21. ASSUME NEW t \in Threads, CloseAwait(t) PROVE LoopHeld(x)'
  BY <1>21, CloseAwaitDoes
<1>22. ASSUME NEW t \in Threads, CloseInterrupt(t) PROVE LoopHeld(x)'
  BY <1>22, CloseInterruptDoes
<1>23. ASSUME NEW t \in Threads, CloseDrain(t) PROVE LoopHeld(x)'
  BY <1>23, CloseDrainDoes
<1>24. ASSUME NEW t \in Threads, Detach(t) PROVE LoopHeld(x)'
  BY SMTT(30), <1>24, DetachDoes
<1>25. ASSUME NEW h \in Handles, NEW i \in LoopIds, LoopExit(h, i) PROVE LoopHeld(x)'
  BY <1>25 DEF LoopExit
<1>26. ASSUME NEW t \in Threads, Load(t) PROVE LoopHeld(x)'
  BY <1>26, LoadersDo
<1>27. CASE Alike /\ UNCHANGED <<registry, next, loops, ended, th, cut, retired>>
  BY <1>27
<1>28. CASE UNCHANGED vars
  BY SMTT(30), <1>28 DEF vars
<1> QED BY <1>2, <1>3, <1>4, <1>5, <1>6, <1>7, <1>8, <1>9, <1>10, <1>11, <1>12, <1>13, <1>14,
         <1>15, <1>16, <1>17, <1>18, <1>19, <1>20, <1>21, <1>22, <1>23, <1>24, <1>25, <1>26,
         <1>27, <1>28, LoadersDo DEF Next, Begin, Continue

\* A loop taken out of its object is cancelled by whoever took it and nobody else.
LEMMA LoopTakenKept ==
  ASSUME AbiInv, [Next]_vars, NEW u \in Threads
  PROVE  LoopTaken(u)'
<1>1. (th[u].pc \in Ending => th[u].at \in Handles) /\ LoopTaken(u) /\ th[u].loop \in LoopIds
      \cup {0}
  BY Places DEF AbiInv, LoopsHeld, OnRefresher, Ending, Unmaking, Shutting, TypeOK, Thread
<1> USE <1>1 DEF Alike, Kin, Family, Life, Busy, Others, Holds, Moves, Rests, Begins, Idle,
         LoopHeld, LoopTaken, Ending, OnRefresher, Unmaking, Shutting
<1>2. ASSUME NEW t \in Threads, New(t) PROVE LoopTaken(u)'
  BY <1>2, NewDoes
<1>3. ASSUME NEW t \in Threads, NEW h \in Handles, NewRefresher(t, h) PROVE LoopTaken(u)'
  BY <1>3, NewRefresherDoes
<1>4. ASSUME NEW t \in Threads, NEW h \in Handles, Take(t, h) PROVE LoopTaken(u)'
  BY <1>4, TakeDoes
<1>5. ASSUME NEW t \in Threads, NEW h \in Handles, NEW m \in Methods \cup {"load"}, Call(t, h, m)
      PROVE LoopTaken(u)'
  BY <1>5, CallDoes
<1>6. ASSUME NEW t \in Threads, BadConfig(t) PROVE LoopTaken(u)'
  BY <1>6, BadConfigDoes
<1>7. ASSUME NEW t \in Threads, Adopt(t) PROVE LoopTaken(u)'
  BY <1>7, AdoptDoes
<1>8. ASSUME NEW t \in Threads, Enter(t) PROVE LoopTaken(u)'
  BY <1>8, EnterDoes
<1>9. ASSUME NEW t \in Threads, FetchDone(t) \/ ReadyDone(t) PROVE LoopTaken(u)'
  BY <1>9, WaitDoes
<1>10. ASSUME NEW t \in Threads, Leave(t) PROVE LoopTaken(u)'
  BY <1>10, LeaveDoes
<1>11. ASSUME NEW t \in Threads, Release(t) PROVE LoopTaken(u)'
  BY <1>11, ReleaseDoes
<1>12. ASSUME NEW t \in Threads, Start(t) PROVE LoopTaken(u)'
  <2> DEFINE h == th[t].at
  <2>0. /\ th[t].pc = "start" /\ Rests(t) /\ h \in Handles /\ ended' = ended
    BY <1>12, StartDoes
  <2>1. CASE obj' = obj /\ loops' = loops
    BY <2>0, <2>1
  <2>2. CASE obj' # obj \/ loops' # loops
    <3>1. PICK i \in FreeLoops(h) : obj'[h].cancel = i /\ loops' = loops \cup {<<h, i>>}
      BY <1>12, <2>2, StartDoes
    <3>2. \A y \in Handles \ {h} : obj'[y] = obj[y]
      BY <1>12, <2>2, <3>1, StartDoes
    <3>3. u # t /\ th[u].at = h => th[u].loop # i
      BY <2>0, <3>1 DEF FreeLoops
    <3>4. CASE u = t
      BY <2>0, <3>4
    <3>5. CASE u # t
      BY <2>0, <3>1, <3>2, <3>3, <3>5
    <3> QED BY <3>4, <3>5
  <2> QED BY <2>1, <2>2
<1>13. ASSUME NEW t \in Threads, Stop(t) PROVE LoopTaken(u)'
  <2> DEFINE h == th[t].at
  <2>1. LoopHeld(h) /\ \A v \in Threads : LoopTaken(v)
    BY <1>13, StopDoes DEF AbiInv, LoopsHeld
  <2>2. CASE u = t
    BY <1>13, <2>1, <2>2, StopDoes, Typed
  <2>3. CASE u # t
    BY <1>13, <2>1, <2>3, StopDoes
  <2> QED BY <2>2, <2>3
<1>14. ASSUME NEW t \in Threads, StopCancel(t) PROVE LoopTaken(u)'
  BY <1>14, StopCancelDoes
<1>15. ASSUME NEW t \in Threads, StopAwait(t) PROVE LoopTaken(u)'
  <2>1. Rests(t) /\ UNCHANGED <<obj, loops, ended>>
    BY <1>15, StopAwaitDoes
  <2> QED BY <2>1
<1>16. ASSUME NEW t \in Threads, EngineClose(t) PROVE LoopTaken(u)'
  BY <1>16, EngineCloseDoes
<1>17. ASSUME NEW t \in Threads, NextChild(t) PROVE LoopTaken(u)'
  BY <1>17, NextChildDoes
<1>18. ASSUME NEW t \in Threads, EngineClosed(t) PROVE LoopTaken(u)'
  BY <1>18, EngineClosedDoes
<1>19. ASSUME NEW t \in Threads, RefresherClose(t) PROVE LoopTaken(u)'
  <2> DEFINE h == th[t].at
  <2>1. LoopHeld(h) /\ \A v \in Threads : LoopTaken(v)
    BY <1>19, RefresherCloseDoes DEF AbiInv, LoopsHeld
  <2>2. CASE u = t
    BY <1>19, <2>1, <2>2, RefresherCloseDoes, Typed
  <2>3. CASE u # t
    BY <1>19, <2>1, <2>3, RefresherCloseDoes
  <2> QED BY <2>2, <2>3
<1>20. ASSUME NEW t \in Threads, CloseCancel(t) PROVE LoopTaken(u)'
  BY <1>20, CloseCancelDoes
<1>21. ASSUME NEW t \in Threads, CloseAwait(t) PROVE LoopTaken(u)'
  BY <1>21, CloseAwaitDoes
<1>22. ASSUME NEW t \in Threads, CloseInterrupt(t) PROVE LoopTaken(u)'
  BY <1>22, CloseInterruptDoes
<1>23. ASSUME NEW t \in Threads, CloseDrain(t) PROVE LoopTaken(u)'
  BY <1>23, CloseDrainDoes
<1>24. ASSUME NEW t \in Threads, Detach(t) PROVE LoopTaken(u)'
  BY SMTT(30), <1>24, DetachDoes
<1>25. ASSUME NEW h \in Handles, NEW i \in LoopIds, LoopExit(h, i) PROVE LoopTaken(u)'
  BY <1>25 DEF LoopExit
<1>26. ASSUME NEW t \in Threads, Load(t) PROVE LoopTaken(u)'
  BY <1>26, LoadersDo
<1>27. CASE Alike /\ UNCHANGED <<registry, next, loops, ended, th, cut, retired>>
  BY <1>27
<1>28. CASE UNCHANGED vars
  BY <1>28 DEF vars
<1> QED BY <1>2, <1>3, <1>4, <1>5, <1>6, <1>7, <1>8, <1>9, <1>10, <1>11, <1>12, <1>13, <1>14,
         <1>15, <1>16, <1>17, <1>18, <1>19, <1>20, <1>21, <1>22, <1>23, <1>24, <1>25, <1>26,
         <1>27, <1>28, LoadersDo DEF Next, Begin, Continue

\* A refresher that is open can be reached, or is about to be closed.
LEMMA OpenKept ==
  ASSUME AbiInv, [Next]_vars, NEW x \in Handles
  PROVE  OpenOrTaken(x)'
<1>1. OpenOrTaken(x)
  BY DEF AbiInv, Closes
<1> USE <1>1 DEF Alike, Kin, Family, Life, Busy, Others, Holds, Moves, Rests, Begins, Idle,
         OpenOrTaken, Refreshers
<1>2. ASSUME NEW t \in Threads, New(t) PROVE OpenOrTaken(x)'
  BY <1>2, NewDoes
<1>3. ASSUME NEW t \in Threads, NEW h \in Handles, NewRefresher(t, h) PROVE OpenOrTaken(x)'
  BY <1>3, NewRefresherDoes
<1>4. ASSUME NEW t \in Threads, NEW h \in Handles, Take(t, h) PROVE OpenOrTaken(x)'
  BY <1>4, TakeDoes
<1>5. ASSUME NEW t \in Threads, NEW h \in Handles, NEW m \in Methods \cup {"load"}, Call(t, h, m)
      PROVE OpenOrTaken(x)'
  BY <1>5, CallDoes
<1>6. ASSUME NEW t \in Threads, BadConfig(t) PROVE OpenOrTaken(x)'
  BY <1>6, BadConfigDoes
<1>7. ASSUME NEW t \in Threads, Adopt(t) PROVE OpenOrTaken(x)'
  BY <1>7, AdoptDoes
<1>8. ASSUME NEW t \in Threads, Enter(t) PROVE OpenOrTaken(x)'
  BY <1>8, EnterDoes
<1>9. ASSUME NEW t \in Threads, FetchDone(t) \/ ReadyDone(t) PROVE OpenOrTaken(x)'
  BY <1>9, WaitDoes
<1>10. ASSUME NEW t \in Threads, Leave(t) PROVE OpenOrTaken(x)'
  BY <1>10, LeaveDoes
<1>11. ASSUME NEW t \in Threads, Release(t) PROVE OpenOrTaken(x)'
  BY <1>11, ReleaseDoes
<1>12. ASSUME NEW t \in Threads, Start(t) PROVE OpenOrTaken(x)'
  BY <1>12, StartDoes
<1>13. ASSUME NEW t \in Threads, Stop(t) PROVE OpenOrTaken(x)'
  BY <1>13, StopDoes
<1>14. ASSUME NEW t \in Threads, StopCancel(t) PROVE OpenOrTaken(x)'
  BY <1>14, StopCancelDoes
<1>15. ASSUME NEW t \in Threads, StopAwait(t) PROVE OpenOrTaken(x)'
  BY <1>15, StopAwaitDoes
<1>16. ASSUME NEW t \in Threads, EngineClose(t) PROVE OpenOrTaken(x)'
  BY <1>16, EngineCloseDoes
<1>17. ASSUME NEW t \in Threads, NextChild(t) PROVE OpenOrTaken(x)'
  BY <1>17, NextChildDoes
<1>18. ASSUME NEW t \in Threads, EngineClosed(t) PROVE OpenOrTaken(x)'
  BY <1>18, EngineClosedDoes
<1>19. ASSUME NEW t \in Threads, RefresherClose(t) PROVE OpenOrTaken(x)'
  BY <1>19, RefresherCloseDoes
<1>20. ASSUME NEW t \in Threads, CloseCancel(t) PROVE OpenOrTaken(x)'
  BY <1>20, CloseCancelDoes
<1>21. ASSUME NEW t \in Threads, CloseAwait(t) PROVE OpenOrTaken(x)'
  BY <1>21, CloseAwaitDoes
<1>22. ASSUME NEW t \in Threads, CloseInterrupt(t) PROVE OpenOrTaken(x)'
  BY <1>22, CloseInterruptDoes
<1>23. ASSUME NEW t \in Threads, CloseDrain(t) PROVE OpenOrTaken(x)'
  BY <1>23, CloseDrainDoes
<1>24. ASSUME NEW t \in Threads, Detach(t) PROVE OpenOrTaken(x)'
  BY SMTT(30), <1>24, DetachDoes
<1>25. ASSUME NEW h \in Handles, NEW i \in LoopIds, LoopExit(h, i) PROVE OpenOrTaken(x)'
  BY <1>25 DEF LoopExit
<1>26. ASSUME NEW t \in Threads, Load(t) PROVE OpenOrTaken(x)'
  BY <1>26, LoadersDo
<1>27. CASE Alike /\ UNCHANGED <<registry, next, loops, ended, th, cut, retired>>
  BY <1>27
<1>28. CASE UNCHANGED vars
  BY <1>28 DEF vars
<1> QED BY <1>2, <1>3, <1>4, <1>5, <1>6, <1>7, <1>8, <1>9, <1>10, <1>11, <1>12, <1>13, <1>14,
         <1>15, <1>16, <1>17, <1>18, <1>19, <1>20, <1>21, <1>22, <1>23, <1>24, <1>25, <1>26,
         <1>27, <1>28, LoadersDo DEF Next, Begin, Continue

\* Whoever releases a close has seen the last call leave.
LEMMA DrainedKept ==
  ASSUME AbiInv, [Next]_vars, NEW x \in Handles
  PROVE  DrainedOnce(x)'
<1>1. DrainedOnce(x)
  BY DEF AbiInv, Closes
<1>2. obj[x].inflight \subseteq Threads
  BY Typed
<1> USE <1>1, <1>2 DEF Alike, Kin, Family, Life, Busy, DrainedOnce
<1>3. ASSUME NEW t \in Threads, New(t) PROVE DrainedOnce(x)'
  BY <1>3, NewDoes
<1>4. ASSUME NEW t \in Threads, Adopt(t) PROVE DrainedOnce(x)'
  BY <1>4, AdoptDoes
<1>5. ASSUME NEW t \in Threads, Enter(t) PROVE DrainedOnce(x)'
  BY <1>5, EnterDoes
<1>6. ASSUME NEW t \in Threads, Leave(t) PROVE DrainedOnce(x)'
  BY <1>6, LeaveDoes
<1>7. ASSUME NEW t \in Threads, Release(t) PROVE DrainedOnce(x)'
  <2>1. obj[th[t].at].closed /\ obj[th[t].at].inflight = {}
    BY <1>7, ReleaseDoes DEF AbiInv, Closes, Closed
  <2> QED BY <1>7, <2>1, ReleaseDoes
<1>8. ASSUME NEW t \in Threads, Start(t) PROVE DrainedOnce(x)'
  BY <1>8, StartDoes
<1>9. ASSUME NEW t \in Threads, Stop(t) PROVE DrainedOnce(x)'
  BY <1>9, StopDoes
<1>10. ASSUME NEW t \in Threads, EngineClose(t) PROVE DrainedOnce(x)'
  BY <1>10, EngineCloseDoes
<1>11. ASSUME NEW t \in Threads, RefresherClose(t) PROVE DrainedOnce(x)'
  BY <1>11, RefresherCloseDoes
<1>12. ASSUME NEW t \in Threads, Detach(t) PROVE DrainedOnce(x)'
  BY SMTT(30), <1>12, DetachDoes
<1>13. CASE Alike
  BY <1>13
<1>14. CASE UNCHANGED obj
  BY <1>14
<1> QED BY ObjectsChange, <1>3, <1>4, <1>5, <1>6, <1>7, <1>8, <1>9, <1>10, <1>11, <1>12, <1>13,
         <1>14

\* What lies behind each stage of a close.
LEMMA ClosedKept ==
  ASSUME AbiInv, [Next]_vars, NEW u \in Threads
  PROVE  Closed(u)'
<1>1. Closed(u) /\ (th[u].pc \in OnRefresher => th[u].at \in Handles /\ obj[th[u].at].kind #
      "none")
  BY Places DEF AbiInv, Closes
<1>2. th[u].pc \in OnRefresher => OpenOrTaken(th[u].at)
  BY Places DEF AbiInv, Closes
<1>3. \A x \in Handles : obj[x].closed /\ obj[x].kind # "none" => obj'[x].closed /\
      obj'[x].inflight \subseteq obj[x].inflight
  BY ClosedForGood
<1> USE <1>1, <1>2, <1>3 DEF Alike, Kin, Family, Life, Busy, Others, Holds, Moves, Rests,
         Begins, Idle, Closed, OnRefresher, Unmaking, Shutting
<1>4. ASSUME NEW t \in Threads, New(t) PROVE Closed(u)'
  <2>1. obj[next].kind = "none"
    BY <1>4, Typed, NewDoes DEF AbiInv, Objects
  <2> QED BY <1>4, <2>1, NewDoes
<1>5. ASSUME NEW t \in Threads, NEW h \in Handles, NewRefresher(t, h) PROVE Closed(u)'
  BY <1>5, NewRefresherDoes
<1>6. ASSUME NEW t \in Threads, NEW h \in Handles, Take(t, h) PROVE Closed(u)'
  BY <1>6, TakeDoes
<1>7. ASSUME NEW t \in Threads, NEW h \in Handles, NEW m \in Methods \cup {"load"}, Call(t, h, m)
      PROVE Closed(u)'
  BY <1>7, CallDoes
<1>8. ASSUME NEW t \in Threads, BadConfig(t) PROVE Closed(u)'
  BY <1>8, BadConfigDoes
<1>9. ASSUME NEW t \in Threads, Adopt(t) PROVE Closed(u)'
  BY <1>9, AdoptDoes
<1>10. ASSUME NEW t \in Threads, Enter(t) PROVE Closed(u)'
  BY <1>10, EnterDoes
<1>11. ASSUME NEW t \in Threads, FetchDone(t) \/ ReadyDone(t) PROVE Closed(u)'
  BY <1>11, WaitDoes
<1>12. ASSUME NEW t \in Threads, Leave(t) PROVE Closed(u)'
  BY <1>12, LeaveDoes
<1>13. ASSUME NEW t \in Threads, Release(t) PROVE Closed(u)'
  BY <1>13, ReleaseDoes
<1>14. ASSUME NEW t \in Threads, Start(t) PROVE Closed(u)'
  BY <1>14, StartDoes
<1>15. ASSUME NEW t \in Threads, Stop(t) PROVE Closed(u)'
  BY <1>15, StopDoes
<1>16. ASSUME NEW t \in Threads, StopCancel(t) PROVE Closed(u)'
  BY <1>16, StopCancelDoes
<1>17. ASSUME NEW t \in Threads, StopAwait(t) PROVE Closed(u)'
  <2>1. Rests(t) /\ UNCHANGED <<obj, registry>>
    BY <1>17, StopAwaitDoes
  <2> QED BY <2>1
<1>18. ASSUME NEW t \in Threads, EngineClose(t) PROVE Closed(u)'
  BY <1>18, EngineCloseDoes
<1>19. ASSUME NEW t \in Threads, NextChild(t) PROVE Closed(u)'
  BY <1>19, NextChildDoes
<1>20. ASSUME NEW t \in Threads, EngineClosed(t) PROVE Closed(u)'
  BY <1>20, EngineClosedDoes
<1>21. ASSUME NEW t \in Threads, RefresherClose(t) PROVE Closed(u)'
  BY <1>21, RefresherCloseDoes
<1>22. ASSUME NEW t \in Threads, CloseCancel(t) PROVE Closed(u)'
  BY <1>22, CloseCancelDoes
<1>23. ASSUME NEW t \in Threads, CloseAwait(t) PROVE Closed(u)'
  <2>1. th[t].pc = "rawait" /\ Moves(t, "rpending") /\ UNCHANGED <<obj, registry>>
    BY <1>23, CloseAwaitDoes
  <2> QED BY <2>1
<1>24. ASSUME NEW t \in Threads, CloseInterrupt(t) PROVE Closed(u)'
  BY <1>24, CloseInterruptDoes
<1>25. ASSUME NEW t \in Threads, CloseDrain(t) PROVE Closed(u)'
  <2>1. th[t].pending # {} => obj[th[t].at].inflight = {}
    BY SMTT(30), <1>25, CloseDrainDoes, Places
       DEF AbiInv, Closes, DrainedOnce, OnRefresher, Unmaking, Shutting
  <2> QED BY <1>25, <2>1, CloseDrainDoes
<1>26. ASSUME NEW t \in Threads, Detach(t) PROVE Closed(u)'
  BY SMTT(30), <1>26, DetachDoes
<1>27. ASSUME NEW h \in Handles, NEW i \in LoopIds, LoopExit(h, i) PROVE Closed(u)'
  BY <1>27 DEF LoopExit
<1>28. ASSUME NEW t \in Threads, Load(t) PROVE Closed(u)'
  BY <1>28, LoadersDo
<1>29. CASE Alike /\ UNCHANGED <<registry, next, loops, ended, th, cut, retired>>
  BY <1>29
<1>30. CASE UNCHANGED vars
  BY <1>30 DEF vars
<1> QED BY <1>4, <1>5, <1>6, <1>7, <1>8, <1>9, <1>10, <1>11, <1>12, <1>13, <1>14, <1>15, <1>16,
         <1>17, <1>18, <1>19, <1>20, <1>21, <1>22, <1>23, <1>24, <1>25, <1>26, <1>27, <1>28,
         <1>29, <1>30, LoadersDo DEF Next, Begin, Continue

\* An open refresher stays on a list that leads to its close.
LEMMA ReachKept ==
  ASSUME AbiInv, [Next]_vars, NEW x \in Handles
  PROVE  Reach(x)'
<1>1. Reach(x)
  BY DEF AbiInv, EveryRefresherReachable, Reach
<1>2. \A t \in Threads : th[t].todo # {} => th[t].over # 0 /\ th[t].pc \in Unmaking \cup
      {"children"}
  BY DEF AbiInv, Roles, Role
<1>3. obj[x].kind = "refresher" => obj[x].parent \in Handles /\ obj[obj[x].parent].kind =
      "engine" /\ Kin(x)
  BY KindsLast DEF AbiInv, Objects, Refreshers
<1>4. \A t \in Threads : th[t].pc \in Unmaking => th[t].at \notin registry
  BY DEF AbiInv, Closes, Closed
<1> USE <1>1, <1>2, <1>3, <1>4 DEF Alike, Kin, Family, Life, Busy, Others, Holds, Moves, Rests,
         Begins, Idle, Reach, Unmaking, Shutting, Refreshers
<1>5. ASSUME NEW t \in Threads, New(t) PROVE Reach(x)'
  <2>1. obj[next].kind = "none"
    BY <1>5, NewDoes, Typed DEF AbiInv, Objects
  <2> QED BY <1>5, <2>1, NewDoes
<1>6. ASSUME NEW t \in Threads, NEW h \in Handles, NewRefresher(t, h) PROVE Reach(x)'
  BY <1>6, NewRefresherDoes
<1>7. ASSUME NEW t \in Threads, NEW h \in Handles, Take(t, h) PROVE Reach(x)'
  BY <1>7, TakeDoes
<1>8. ASSUME NEW t \in Threads, NEW h \in Handles, NEW m \in Methods \cup {"load"}, Call(t, h, m)
      PROVE Reach(x)'
  BY <1>8, CallDoes
<1>9. ASSUME NEW t \in Threads, BadConfig(t) PROVE Reach(x)'
  BY <1>9, BadConfigDoes
<1>10. ASSUME NEW t \in Threads, Adopt(t) PROVE Reach(x)'
  BY <1>10, AdoptDoes
<1>11. ASSUME NEW t \in Threads, Enter(t) PROVE Reach(x)'
  BY <1>11, EnterDoes
<1>12. ASSUME NEW t \in Threads, FetchDone(t) \/ ReadyDone(t) PROVE Reach(x)'
  BY <1>12, WaitDoes
<1>13. ASSUME NEW t \in Threads, Leave(t) PROVE Reach(x)'
  BY <1>13, LeaveDoes
<1>14. ASSUME NEW t \in Threads, Release(t) PROVE Reach(x)'
  BY <1>14, ReleaseDoes
<1>15. ASSUME NEW t \in Threads, Start(t) PROVE Reach(x)'
  BY <1>15, StartDoes
<1>16. ASSUME NEW t \in Threads, Stop(t) PROVE Reach(x)'
  BY <1>16, StopDoes
<1>17. ASSUME NEW t \in Threads, StopCancel(t) PROVE Reach(x)'
  BY <1>17, StopCancelDoes
<1>18. ASSUME NEW t \in Threads, StopAwait(t) PROVE Reach(x)'
  BY <1>18, StopAwaitDoes
<1>19. ASSUME NEW t \in Threads, EngineClose(t) PROVE Reach(x)'
  BY <1>19, EngineCloseDoes
<1>20. ASSUME NEW t \in Threads, NextChild(t) PROVE Reach(x)'
  BY <1>20, NextChildDoes
<1>21. ASSUME NEW t \in Threads, EngineClosed(t) PROVE Reach(x)'
  BY <1>21, EngineClosedDoes
<1>22. ASSUME NEW t \in Threads, RefresherClose(t) PROVE Reach(x)'
  BY <1>22, RefresherCloseDoes
<1>23. ASSUME NEW t \in Threads, CloseCancel(t) PROVE Reach(x)'
  BY <1>23, CloseCancelDoes
<1>24. ASSUME NEW t \in Threads, CloseAwait(t) PROVE Reach(x)'
  BY <1>24, CloseAwaitDoes
<1>25. ASSUME NEW t \in Threads, CloseInterrupt(t) PROVE Reach(x)'
  BY <1>25, CloseInterruptDoes
<1>26. ASSUME NEW t \in Threads, CloseDrain(t) PROVE Reach(x)'
  BY SMTT(30), <1>26, CloseDrainDoes
<1>27. ASSUME NEW t \in Threads, Detach(t) PROVE Reach(x)'
  BY SMTT(30), <1>27, DetachDoes
<1>28. ASSUME NEW h \in Handles, NEW i \in LoopIds, LoopExit(h, i) PROVE Reach(x)'
  BY <1>28 DEF LoopExit
<1>29. ASSUME NEW t \in Threads, Load(t) PROVE Reach(x)'
  BY <1>29, LoadersDo
<1>30. CASE Alike /\ UNCHANGED <<registry, next, loops, ended, th, cut, retired>>
  BY <1>30
<1>31. CASE UNCHANGED vars
  BY <1>31 DEF vars
<1> QED BY <1>5, <1>6, <1>7, <1>8, <1>9, <1>10, <1>11, <1>12, <1>13, <1>14, <1>15, <1>16, <1>17,
         <1>18, <1>19, <1>20, <1>21, <1>22, <1>23, <1>24, <1>25, <1>26, <1>27, <1>28, <1>29,
         <1>30, <1>31, LoadersDo DEF Next, Begin, Continue

\* A loop passes from its object to whoever stops it, and is never lost.
LEMMA OwnedKept ==
  ASSUME AbiInv, [Next]_vars, NEW x \in Handles, NEW j \in LoopIds
  PROVE  Owned(x, j)'
<1>1. Owned(x, j)
  BY DEF AbiInv, LoopsOwned
<1>2. <<x, j>> \in loops => obj[x].kind = "refresher"
  BY DEF AbiInv, LoopsHeld, Refreshers
<1> USE <1>1, <1>2 DEF Alike, Kin, Family, Life, Busy, Others, Holds, Moves, Rests, Begins,
         Idle, Owned, Ending
<1>3. ASSUME NEW t \in Threads, New(t) PROVE Owned(x, j)'
  <2>1. obj[next].kind = "none"
    BY <1>3, NewDoes, Typed DEF AbiInv, Objects
  <2> QED BY <1>3, <2>1, NewDoes
<1>4. ASSUME NEW t \in Threads, NEW h \in Handles, NewRefresher(t, h) PROVE Owned(x, j)'
  BY <1>4, NewRefresherDoes
<1>5. ASSUME NEW t \in Threads, NEW h \in Handles, Take(t, h) PROVE Owned(x, j)'
  BY <1>5, TakeDoes
<1>6. ASSUME NEW t \in Threads, NEW h \in Handles, NEW m \in Methods \cup {"load"}, Call(t, h, m)
      PROVE Owned(x, j)'
  BY <1>6, CallDoes
<1>7. ASSUME NEW t \in Threads, BadConfig(t) PROVE Owned(x, j)'
  BY <1>7, BadConfigDoes
<1>8. ASSUME NEW t \in Threads, Adopt(t) PROVE Owned(x, j)'
  <2>1. <<x, j>> \in loops => obj'[x].cancel = obj[x].cancel
    BY <1>8, AdoptDoes
  <2> QED BY <1>8, <2>1, AdoptDoes
<1>9. ASSUME NEW t \in Threads, Enter(t) PROVE Owned(x, j)'
  BY <1>9, EnterDoes
<1>10. ASSUME NEW t \in Threads, FetchDone(t) \/ ReadyDone(t) PROVE Owned(x, j)'
  BY <1>10, WaitDoes
<1>11. ASSUME NEW t \in Threads, Leave(t) PROVE Owned(x, j)'
  BY <1>11, LeaveDoes
<1>12. ASSUME NEW t \in Threads, Release(t) PROVE Owned(x, j)'
  BY <1>12, ReleaseDoes
<1>13. ASSUME NEW t \in Threads, Start(t) PROVE Owned(x, j)'
  <2> DEFINE h == th[t].at
  <2>0. /\ th[t].pc = "start" /\ Rests(t)
    BY <1>13, StartDoes
  <2>1. CASE obj' = obj /\ loops' = loops
    BY <2>0, <2>1
  <2>2. CASE obj' # obj \/ loops' # loops
    <3>1. PICK i \in FreeLoops(h) : obj'[h].cancel = i /\ loops' = loops \cup {<<h, i>>}
      BY <1>13, <2>2, StartDoes
    <3>2. obj[h].cancel = 0 /\ \A y \in Handles \ {h} : obj'[y] = obj[y]
      BY <1>13, <2>2, <3>1, StartDoes
    <3> QED BY <2>0, <3>1, <3>2, Typed
  <2> QED BY <2>1, <2>2
<1>14. ASSUME NEW t \in Threads, Stop(t) PROVE Owned(x, j)'
  BY <1>14, StopDoes
<1>15. ASSUME NEW t \in Threads, StopCancel(t) PROVE Owned(x, j)'
  BY <1>15, StopCancelDoes
<1>16. ASSUME NEW t \in Threads, StopAwait(t) PROVE Owned(x, j)'
  <2>1. <<th[t].at, th[t].loop>> \notin loops
    BY <1>16 DEF StopAwait
  <2> QED BY <1>16, <2>1, StopAwaitDoes
<1>17. ASSUME NEW t \in Threads, EngineClose(t) PROVE Owned(x, j)'
  BY <1>17, EngineCloseDoes
<1>18. ASSUME NEW t \in Threads, NextChild(t) PROVE Owned(x, j)'
  BY <1>18, NextChildDoes
<1>19. ASSUME NEW t \in Threads, EngineClosed(t) PROVE Owned(x, j)'
  BY <1>19, EngineClosedDoes
<1>20. ASSUME NEW t \in Threads, RefresherClose(t) PROVE Owned(x, j)'
  BY <1>20, RefresherCloseDoes
<1>21. ASSUME NEW t \in Threads, CloseCancel(t) PROVE Owned(x, j)'
  BY <1>21, CloseCancelDoes
<1>22. ASSUME NEW t \in Threads, CloseAwait(t) PROVE Owned(x, j)'
  <2>1. <<th[t].at, th[t].loop>> \notin loops
    BY <1>22 DEF CloseAwait
  <2> QED BY <1>22, <2>1, CloseAwaitDoes
<1>23. ASSUME NEW t \in Threads, CloseInterrupt(t) PROVE Owned(x, j)'
  BY <1>23, CloseInterruptDoes
<1>24. ASSUME NEW t \in Threads, CloseDrain(t) PROVE Owned(x, j)'
  BY <1>24, CloseDrainDoes
<1>25. ASSUME NEW t \in Threads, Detach(t) PROVE Owned(x, j)'
  BY SMTT(30), <1>25, DetachDoes
<1>26. ASSUME NEW h \in Handles, NEW i \in LoopIds, LoopExit(h, i) PROVE Owned(x, j)'
  BY <1>26 DEF LoopExit
<1>27. ASSUME NEW t \in Threads, Load(t) PROVE Owned(x, j)'
  BY <1>27, LoadersDo
<1>28. CASE Alike /\ UNCHANGED <<registry, next, loops, ended, th, cut, retired>>
  BY <1>28
<1>29. CASE UNCHANGED vars
  BY <1>29 DEF vars
<1> QED BY <1>3, <1>4, <1>5, <1>6, <1>7, <1>8, <1>9, <1>10, <1>11, <1>12, <1>13, <1>14, <1>15,
         <1>16, <1>17, <1>18, <1>19, <1>20, <1>21, <1>22, <1>23, <1>24, <1>25, <1>26, <1>27,
         <1>28, <1>29, LoadersDo DEF Next, Begin, Continue

\* A closed refresher has no loop.
LEMMA NoneClosedKept ==
  ASSUME AbiInv, [Next]_vars, NEW x \in Handles
  PROVE  NoneClosed(x)'
<1>1. NoneClosed(x)
  BY DEF AbiInv, LoopsOwned
<1>2. obj[x].kind # "refresher" => obj[x].cancel = 0
  BY DEF AbiInv, Objects, Refreshers
<1> USE <1>1, <1>2 DEF Alike, Kin, Family, Life, Busy, NoneClosed
<1>3. ASSUME NEW t \in Threads, New(t) PROVE NoneClosed(x)'
  BY <1>3, NewDoes
<1>4. ASSUME NEW t \in Threads, Adopt(t) PROVE NoneClosed(x)'
  BY <1>4, AdoptDoes
<1>5. ASSUME NEW t \in Threads, Enter(t) PROVE NoneClosed(x)'
  BY <1>5, EnterDoes
<1>6. ASSUME NEW t \in Threads, Leave(t) PROVE NoneClosed(x)'
  BY <1>6, LeaveDoes
<1>7. ASSUME NEW t \in Threads, Release(t) PROVE NoneClosed(x)'
  BY <1>7, ReleaseDoes
<1>8. ASSUME NEW t \in Threads, Start(t) PROVE NoneClosed(x)'
  BY <1>8, StartDoes
<1>9. ASSUME NEW t \in Threads, Stop(t) PROVE NoneClosed(x)'
  BY <1>9, StopDoes
<1>10. ASSUME NEW t \in Threads, EngineClose(t) PROVE NoneClosed(x)'
  BY <1>10, EngineCloseDoes
<1>11. ASSUME NEW t \in Threads, RefresherClose(t) PROVE NoneClosed(x)'
  BY <1>11, RefresherCloseDoes
<1>12. ASSUME NEW t \in Threads, Detach(t) PROVE NoneClosed(x)'
  BY <1>12, DetachDoes
<1>13. CASE Alike
  BY <1>13
<1>14. CASE UNCHANGED obj
  BY <1>14
<1> QED BY ObjectsChange, <1>3, <1>4, <1>5, <1>6, <1>7, <1>8, <1>9, <1>10, <1>11, <1>12, <1>13,
         <1>14

\* Typing, with the objects and threads as AbiSteps types them.
LEMMA TypeKept == ASSUME AbiInv, [Next]_vars PROVE TypeOK'
<1>0. /\ TypeOK /\ th' \in [Threads -> Thread] /\ obj' \in [Handles -> Object]
  BY ThreadsKept, ObjectsStay DEF AbiInv
<1> USE DEF TypeOK
<1>1. registry' \subseteq {h \in Handles : obj'[h].kind # "none"}
  <2> USE Typed
  <2>1. \A h \in registry : obj'[h].kind # "none"
    BY KindsLast DEF Kin
  <2>2. ASSUME NEW t \in Threads, New(t) PROVE registry' \subseteq registry \cup {next}
                                             /\ next \in Handles /\ obj'[next].kind # "none"
    BY <2>2, NewDoes
  <2>3. ASSUME NEW t \in Threads, Adopt(t)
        PROVE  \/ registry' = registry
               \/ /\ registry' = registry \cup {th[t].at} /\ th[t].at \in Handles
                  /\ obj'[th[t].at].kind # "none"
    BY SMTT(30), <2>3, AdoptDoes
  <2>4. ASSUME NEW t \in Threads, \/ \E h \in Handles : Take(t, h)
                                  \/ NextChild(t)
        PROVE  registry' \subseteq registry
    BY <2>4 DEF Take, NextChild
  <2>5. \/ registry' = registry
        \/ \E t \in Threads : New(t) \/ Adopt(t) \/ NextChild(t) \/ \E h \in Handles : Take(t, h)
    BY ZenonT(60)
       DEF Next, Begin, Continue, vars, NewRefresher, Call, BadConfig, Load, FetchLoads, Enter,
           FetchDone, ReadyDone, Leave, Release, Start, Stop, StopCancel, StopAwait, EngineClose,
           EngineClosed, RefresherClose, CloseCancel, CloseAwait, CloseInterrupt, CloseDrain,
           Detach, LoopLoads, LoopExit
  <2> QED BY <2>1, <2>2, <2>3, <2>4, <2>5
<1>2. next' \in 1..(MaxHandle + 1)
  <2>1. \/ next' = next
        \/ \E t \in Threads : New(t) \/ \E h \in Handles : NewRefresher(t, h)
    BY ZenonT(60) DEF Next, Begin, Continue, vars, Take, Call, BadConfig, Adopt, Load,
           FetchLoads, Enter, FetchDone, ReadyDone, Leave, Release, Start, Stop, StopCancel,
           StopAwait, EngineClose, NextChild, EngineClosed, RefresherClose, CloseCancel,
           CloseAwait, CloseInterrupt, CloseDrain, Detach, LoopLoads, LoopExit
  <2>2. next' = next \/ (next \in Handles /\ next' = next + 1)
    BY <2>1 DEF New, NewRefresher
  <2> QED BY <1>0, <2>2, AbiAssumption DEF Handles
<1>3. loops' \subseteq Handles \X LoopIds /\ ended' \subseteq loops'
  <2>1. loops \subseteq Handles \X LoopIds /\ ended \subseteq loops
    BY <1>0
  <2>2. ASSUME NEW t \in Threads, Start(t)
        PROVE  loops' \subseteq Handles \X LoopIds /\ ended' \subseteq loops'
    <3>1. th[t].at \in Handles /\ ended' = ended
      BY <2>2, StartDoes
    <3>2. \/ loops' = loops
          \/ \E i \in LoopIds : loops' = loops \cup {<<th[t].at, i>>}
      BY <2>2, StartDoes DEF FreeLoops
    <3> QED BY <2>1, <3>1, <3>2
  <2>3. ASSUME NEW t \in Threads, StopCancel(t)
        PROVE  loops' \subseteq Handles \X LoopIds /\ ended' \subseteq loops'
    <3>1. <<th[t].at, th[t].loop>> \in loops
      BY <2>3, StopCancelDoes DEF AbiInv, LoopsHeld, LoopTaken
    <3> QED BY <2>1, <2>3, <3>1, StopCancelDoes
  <2>4. ASSUME NEW t \in Threads, CloseCancel(t)
        PROVE  loops' \subseteq Handles \X LoopIds /\ ended' \subseteq loops'
    <3>1. <<th[t].at, th[t].loop>> \in loops
      BY <2>4, CloseCancelDoes DEF AbiInv, LoopsHeld, LoopTaken
    <3> QED BY <2>1, <2>4, <3>1, CloseCancelDoes
  <2>5. ASSUME NEW h \in Handles, NEW i \in LoopIds, LoopExit(h, i)
        PROVE  loops' \subseteq Handles \X LoopIds /\ ended' \subseteq loops'
    BY <2>1, <2>5 DEF LoopExit
  <2>6. CASE UNCHANGED <<loops, ended>>
    BY <2>1, <2>6
  <2> QED BY ZenonT(60), <2>2, <2>3, <2>4, <2>5, <2>6
          DEF Next, Begin, Continue, vars, New, NewRefresher, Take, Call, BadConfig, Adopt, Load,
              FetchLoads, Enter, FetchDone, ReadyDone, Leave, Release, Stop, StopAwait,
              EngineClose, NextChild, EngineClosed, RefresherClose, CloseAwait, CloseInterrupt,
              CloseDrain, Detach, LoopLoads
<1>4. cut' \subseteq Threads
  <2>1. cut' \subseteq cut \/ \E t \in Threads : CloseInterrupt(t)
    BY ZenonT(60)
       DEF Next, Begin, Continue, vars, New, NewRefresher, Take, Call, BadConfig, Adopt, Load,
           FetchLoads, Enter, FetchDone, ReadyDone, Leave, Release, Start, Stop, StopCancel,
           StopAwait, EngineClose, NextChild, EngineClosed, RefresherClose, CloseCancel,
           CloseAwait, CloseDrain, Detach, LoopLoads, LoopExit
  <2> QED BY <1>0, <2>1, Typed DEF CloseInterrupt, Interrupted
<1>5. retired' \subseteq Handles
  <2>1. \A t \in Threads : EngineClosed(t) => th[t].over \in Handles
    BY EngineClosedDoes DEF AbiInv, Roles, Role
  <2>2. \A t \in Threads : Detach(t) => th[t].at \in Handles
    BY DetachDoes
  <2>3. \/ retired' = retired
        \/ \E t \in Threads : EngineClosed(t) \/ Detach(t)
    BY ZenonT(60)
       DEF Next, Begin, Continue, vars, New, NewRefresher, Take, Call, BadConfig, Adopt, Load,
           FetchLoads, Enter, FetchDone, ReadyDone, Leave, Release, Start, Stop, StopCancel,
           StopAwait, EngineClose, NextChild, RefresherClose, CloseCancel, CloseAwait,
           CloseInterrupt, CloseDrain, LoopLoads, LoopExit
  <2>4. CASE \E t \in Threads : EngineClosed(t)
    BY <1>0, <2>1, <2>4, EngineClosedDoes
  <2>5. CASE \E t \in Threads : Detach(t)
    BY <1>0, <2>2, <2>5, DetachDoes
  <2> QED BY <1>0, <2>3, <2>4, <2>5
<1> QED BY <1>0, <1>1, <1>2, <1>3, <1>4, <1>5

\* A handle whose close has returned.
LEMMA RetiredGrow ==
  ASSUME AbiInv, [Next]_vars, NEW x \in retired'
  PROVE  \/ x \in retired
         \/ obj[x].kind = "engine" /\ obj' = obj
         \/ /\ x \in Handles /\ obj[x].kind = "refresher" /\ obj[x].closed
            /\ obj[x].inflight = {} /\ x \notin obj'[obj[x].parent].children
<1>1. ASSUME NEW t \in Threads, EngineClosed(t), x \notin retired
      PROVE  obj[x].kind = "engine" /\ obj' = obj
  BY <1>1, EngineClosedDoes DEF AbiInv, Roles, Role
<1>2. ASSUME NEW t \in Threads, Detach(t), x \notin retired
      PROVE  /\ x \in Handles /\ obj[x].kind = "refresher" /\ obj[x].closed
             /\ obj[x].inflight = {} /\ x \notin obj'[obj[x].parent].children
  <2>1. obj[th[t].at].closed /\ obj[th[t].at].inflight = {}
    BY <1>2, DetachDoes DEF AbiInv, Closes, Closed
  <2> QED BY <1>2, <2>1, DetachDoes
<1>3. CASE UNCHANGED retired
  BY <1>3
<1> QED BY ZenonT(60), <1>1, <1>2, <1>3, LoadersDo
        DEF Next, Begin, Continue, vars, New, NewRefresher, Take, Call, BadConfig, Adopt, Enter,
            FetchDone, ReadyDone, Leave, Release, Start, Stop, StopCancel, StopAwait, EngineClose,
            NextChild, RefresherClose, CloseCancel, CloseAwait, CloseInterrupt, CloseDrain,
            LoopExit

\* What a handle whose close has returned leaves behind.
LEMMA RetiredKept ==
  ASSUME AbiInv, [Next]_vars, NEW x \in retired'
  PROVE  /\ Retired(x)'
         /\ (x \in Refreshers => obj[x].inflight = {})'
         /\ (x \in Refreshers => x \notin obj[obj[x].parent].children)'
<1>1. /\ x \in Handles /\ obj[x].kind # "none"
      /\ obj[x].kind = "refresher" =>
           obj[x].parent \in Handles /\ obj[x].closed /\ obj[x].inflight = {}
  <2>0. /\ retired \subseteq Handles /\ obj \in [Handles -> Object] /\ retired' \subseteq Handles
        /\ \A y \in Handles : obj[y].kind = "refresher" => obj[y].parent \in Handles
    BY TypeKept DEF AbiInv, TypeOK, Objects
  <2>1. CASE x \in retired
    BY <2>0, <2>1 DEF AbiInv, Closes, Retired, NoCallOutlivesClose, Refreshers
  <2>2. CASE x \notin retired
    BY <2>0, <2>2, RetiredGrow
  <2> QED BY <2>1, <2>2
<1>2. Kin(x) /\ (obj[x].closed => obj'[x].closed /\ obj'[x].inflight \subseteq obj[x].inflight)
  BY <1>1, KindsLast, ClosedForGood
<1>3. ASSUME obj[x].kind = "refresher" PROVE x \notin obj'[obj[x].parent].children
  <2>1. CASE x \in retired
    BY <1>1, <1>3, <2>1, ChildrenGrow DEF AbiInv, ClosedChildrenDropOut, Refreshers
  <2> QED BY <1>3, <2>1, RetiredGrow
<1> QED BY <1>1, <1>2, <1>3 DEF Retired, Refreshers, Kin

\* A loop that runs is a refresher's.
LEMMA LoopKnownKept ==
  ASSUME AbiInv, [Next]_vars, NEW x \in Handles, NEW j \in LoopIds, <<x, j>> \in loops'
  PROVE  x \in Refreshers'
<1>1. CASE <<x, j>> \in loops
  BY <1>1, KindsLast DEF AbiInv, LoopsHeld, Refreshers, Kin
<1>2. CASE <<x, j>> \notin loops
  <2>1. ASSUME NEW t \in Threads, Start(t) PROVE obj[x].kind = "refresher"
    BY <1>2, <2>1, StartDoes
  <2>2. \E t \in Threads : Start(t)
    BY ZenonT(60), <1>2
       DEF Next, Begin, Continue, vars, New, NewRefresher, Take, Call, BadConfig, Adopt, Load,
           FetchLoads, Enter, FetchDone, ReadyDone, Leave, Release, Stop, StopCancel, StopAwait,
           EngineClose, NextChild, EngineClosed, RefresherClose, CloseCancel, CloseAwait,
           CloseInterrupt, CloseDrain, Detach, LoopLoads, LoopExit
  <2> QED BY <2>1, <2>2, KindsLast DEF Refreshers, Kin
<1> QED BY <1>1, <1>2

-----------------------------------------------------------------------------

LEMMA InitAbiInv == Init => AbiInv
<1> SUFFICES ASSUME Init PROVE AbiInv
  OBVIOUS
<1> USE AbiAssumption DEF Init
<1>1. TypeOK
  <2>1. Idle \in Thread /\ NoObject \in Object
    BY ThreadFields, ObjectFields
  <2> QED BY <2>1 DEF TypeOK, Handles
<1>2. \A t \in Threads : th[t].pc = "idle" /\ th[t].todo = {}
  BY DEF Idle
<1>3. \A h \in Handles : /\ obj[h].kind = "none" /\ ~obj[h].closed /\ obj[h].children = {}
                         /\ obj[h].cancel = 0 /\ obj[h].inflight = {} /\ obj[h].drained = "nil"
  BY DEF NoObject
<1>4. Roles
  BY <1>2 DEF Roles, Role, OwnReserve, OnRefresher, Working, Unmaking, Shutting
<1>5. Objects /\ CallsInFlight
  BY <1>2, <1>3 DEF Objects, CallsInFlight, Working
<1>6. LoopsHeld
  BY <1>2, <1>3 DEF LoopsHeld, LoopHeld, LoopTaken
<1>7. Closes
  BY <1>2, <1>3
     DEF Closes, OpenOrTaken, DrainedOnce, Closed, Refreshers, Unmaking, Shutting
<1>8. /\ EveryRefresherReachable /\ NoCallOutlivesClose /\ LoopsOwned
      /\ ClosedChildrenDropOut
  BY <1>3 DEF EveryRefresherReachable, NoCallOutlivesClose, LoopsOwned, Owned, NoneClosed,
              ClosedChildrenDropOut
<1> QED BY <1>1, <1>4, <1>5, <1>6, <1>7, <1>8 DEF AbiInv

\* AbiInv is inductive.
LEMMA AbiInvKept == AbiInv /\ [Next]_vars => AbiInv'
<1> SUFFICES ASSUME AbiInv, [Next]_vars PROVE AbiInv'
  OBVIOUS
<1>1. TypeOK'
  BY TypeKept
<1>2. Roles'
  BY RoleKept, OwnKept DEF Roles
<1>3. Objects' /\ CallsInFlight'
  BY ObjectsKept, CallsKept
<1>4. LoopsHeld'
  BY LoopKnownKept, LoopHeldKept, LoopTakenKept DEF LoopsHeld
<1>5. Closes'
  BY OpenKept, DrainedKept, ClosedKept, RetiredKept DEF Closes
<1>6. EveryRefresherReachable'
  BY <1>1, ReachKept DEF EveryRefresherReachable, Reach, Refreshers, TypeOK
<1>7. NoCallOutlivesClose'
  <2>1. \A x \in retired' \cap Refreshers' : x \in Handles /\ obj'[x].inflight = {}
    BY RetiredKept DEF Refreshers
  <2> QED BY <1>3, <2>1 DEF NoCallOutlivesClose, CallsInFlight
<1>8. LoopsOwned'
  BY OwnedKept, NoneClosedKept DEF LoopsOwned
<1>9. ClosedChildrenDropOut'
  BY RetiredKept DEF ClosedChildrenDropOut
<1> QED BY <1>1, <1>2, <1>3, <1>4, <1>5, <1>6, <1>7, <1>8, <1>9 DEF AbiInv

-----------------------------------------------------------------------------

\* A thread at work in the close of refresher h.
Unmakes(t, h) == th[t].pc \in Unmaking /\ th[t].at = h

\* A refresher is closed once: by whoever took its handle, which is not given out again.
ClosedOnce ==
  /\ \A t, u \in Threads, h \in Handles : Unmakes(t, h) /\ Unmakes(u, h) => t = u
  /\ \A h \in retired \cap Refreshers : h \notin registry /\ \A t \in Threads : ~Unmakes(t, h)

\* A thread begins to close a refresher only when it has taken its handle.
LEMMA UnmakersGrow ==
  ASSUME AbiInv, [Next]_vars, NEW u \in Threads, NEW x \in Handles, Unmakes(u, x)', ~Unmakes(u, x)
  PROVE  x \in registry /\ x \notin registry' /\ Others(u) /\ UNCHANGED <<obj, retired>>
<1> DEFINE Took == x \in registry /\ x \notin registry' /\ Others(u) /\ UNCHANGED <<obj, retired>>
<1> USE Typed DEF Alike, Others, Holds, Moves, Rests, Begins, Idle, Unmakes, Unmaking, Shutting
<1>1. ASSUME NEW t \in Threads, New(t) PROVE Took
  BY <1>1, NewDoes
<1>2. ASSUME NEW t \in Threads, NEW h \in Handles, NewRefresher(t, h) PROVE Took
  BY <1>2, NewRefresherDoes
<1>3. ASSUME NEW t \in Threads, NEW h \in Handles, Take(t, h) PROVE Took
  BY <1>3, TakeDoes
<1>4. ASSUME NEW t \in Threads, NEW h \in Handles, NEW m \in Methods \cup {"load"}, Call(t, h, m)
      PROVE Took
  BY <1>4, CallDoes
<1>5. ASSUME NEW t \in Threads, BadConfig(t) PROVE Took
  BY <1>5, BadConfigDoes
<1>6. ASSUME NEW t \in Threads, Adopt(t) PROVE Took
  BY <1>6, AdoptDoes
<1>7. ASSUME NEW t \in Threads, Enter(t) PROVE Took
  BY <1>7, EnterDoes
<1>8. ASSUME NEW t \in Threads, FetchDone(t) \/ ReadyDone(t) PROVE Took
  BY <1>8, WaitDoes
<1>9. ASSUME NEW t \in Threads, Leave(t) PROVE Took
  BY <1>9, LeaveDoes
<1>10. ASSUME NEW t \in Threads, Release(t) PROVE Took
  BY <1>10, ReleaseDoes
<1>11. ASSUME NEW t \in Threads, Start(t) PROVE Took
  BY <1>11, StartDoes
<1>12. ASSUME NEW t \in Threads, Stop(t) PROVE Took
  BY <1>12, StopDoes
<1>13. ASSUME NEW t \in Threads, StopCancel(t) PROVE Took
  BY <1>13, StopCancelDoes
<1>14. ASSUME NEW t \in Threads, StopAwait(t) PROVE Took
  BY <1>14, StopAwaitDoes
<1>15. ASSUME NEW t \in Threads, EngineClose(t) PROVE Took
  BY <1>15, EngineCloseDoes
<1>16. ASSUME NEW t \in Threads, NextChild(t) PROVE Took
  BY <1>16, NextChildDoes
<1>17. ASSUME NEW t \in Threads, EngineClosed(t) PROVE Took
  BY <1>17, EngineClosedDoes
<1>18. ASSUME NEW t \in Threads, RefresherClose(t) PROVE Took
  BY <1>18, RefresherCloseDoes
<1>19. ASSUME NEW t \in Threads, CloseCancel(t) PROVE Took
  BY <1>19, CloseCancelDoes
<1>20. ASSUME NEW t \in Threads, CloseAwait(t) PROVE Took
  BY <1>20, CloseAwaitDoes
<1>21. ASSUME NEW t \in Threads, CloseInterrupt(t) PROVE Took
  BY <1>21, CloseInterruptDoes
<1>22. ASSUME NEW t \in Threads, CloseDrain(t) PROVE Took
  BY <1>22, CloseDrainDoes
<1>23. ASSUME NEW t \in Threads, Detach(t) PROVE Took
  BY <1>23, DetachDoes
<1>24. ASSUME NEW h \in Handles, NEW i \in LoopIds, LoopExit(h, i) PROVE Took
  BY <1>24 DEF LoopExit
<1>25. ASSUME NEW t \in Threads, Load(t) PROVE Took
  BY <1>25, LoadersDo
<1>26. CASE Alike /\ UNCHANGED <<registry, next, loops, ended, th, cut, retired>>
  BY <1>26
<1>27. CASE UNCHANGED vars
  BY <1>27 DEF vars
<1> QED BY <1>1, <1>2, <1>3, <1>4, <1>5, <1>6, <1>7, <1>8, <1>9, <1>10, <1>11, <1>12,
         <1>13, <1>14, <1>15, <1>16, <1>17, <1>18, <1>19, <1>20, <1>21, <1>22, <1>23,
         <1>24, <1>25, <1>26, <1>27, LoadersDo DEF Next, Begin, Continue

\* A handle comes into the registry when its object is made.
LEMMA RegistryGrow ==
  ASSUME AbiInv, [Next]_vars, NEW x \in registry', x \notin registry
  PROVE  obj[x].kind = "none"
<1>0. \A h \in Handles : h >= next => obj[h].kind = "none"
  BY DEF AbiInv, Objects
<1>1. ASSUME NEW t \in Threads, New(t) PROVE obj[x].kind = "none"
  BY <1>0, <1>1, NewDoes, Typed
<1>2. ASSUME NEW t \in Threads, Adopt(t) PROVE obj[x].kind = "none"
  BY <1>2, AdoptDoes
<1>3. ASSUME NEW t \in Threads, NEW h \in Handles, Take(t, h) PROVE registry' \subseteq registry
  BY <1>3, TakeDoes
<1>4. ASSUME NEW t \in Threads, NextChild(t) PROVE registry' \subseteq registry
  BY <1>4, NextChildDoes
<1>5. CASE registry' = registry
  BY <1>5
<1> QED BY ZenonT(60), <1>1, <1>2, <1>3, <1>4, <1>5
        DEF Next, Begin, Continue, vars, NewRefresher, Call, BadConfig, Load, FetchLoads, Enter,
            FetchDone, ReadyDone, Leave, Release, Start, Stop, StopCancel, StopAwait, EngineClose,
            EngineClosed, RefresherClose, CloseCancel, CloseAwait, CloseInterrupt, CloseDrain,
            Detach, LoopLoads, LoopExit

\* The close that returns is the one that took the handle.
LEMMA RetiredBy ==
  ASSUME AbiInv, [Next]_vars, NEW x \in retired', x \notin retired, obj[x].kind = "refresher"
  PROVE  /\ x \notin registry' /\ registry' = registry
         /\ \E t \in Threads : Unmakes(t, x) /\ ~Unmakes(t, x)' /\ Others(t)
<1>1. ASSUME NEW t \in Threads, EngineClosed(t) PROVE FALSE
  BY <1>1, EngineClosedDoes DEF AbiInv, Roles, Role
<1>2. ASSUME NEW t \in Threads, Detach(t)
      PROVE  /\ x \notin registry' /\ registry' = registry
             /\ Unmakes(t, x) /\ ~Unmakes(t, x)' /\ Others(t)
  <2>1. th[t].pc = "detach" /\ th[t].at = x /\ registry' = registry
    BY <1>2, DetachDoes
  <2>2. Others(t) /\ th'[t].pc \in {"idle", "children"}
    BY <1>2, DetachDoes DEF Rests, Idle
  <2>3. x \notin registry
    BY <2>1 DEF AbiInv, Closes, Closed, Unmaking, Shutting
  <2> QED BY <2>1, <2>2, <2>3 DEF Unmakes, Unmaking, Shutting
<1>3. \E t \in Threads : EngineClosed(t) \/ Detach(t)
  BY ZenonT(60)
     DEF Next, Begin, Continue, vars, New, NewRefresher, Take, Call, BadConfig, Adopt, Load,
         FetchLoads, Enter, FetchDone, ReadyDone, Leave, Release, Start, Stop, StopCancel, StopAwait,
         EngineClose, NextChild, RefresherClose, CloseCancel, CloseAwait, CloseInterrupt,
         CloseDrain, LoopLoads, LoopExit
<1> QED BY <1>1, <1>2, <1>3

\* So it stays.
LEMMA ClosedOnceKept == AbiInv /\ ClosedOnce /\ [Next]_vars => ClosedOnce'
<1> SUFFICES ASSUME AbiInv, ClosedOnce, [Next]_vars PROVE ClosedOnce'
  OBVIOUS
<1>1. \A t \in Threads, h \in Handles : Unmakes(t, h) => h \notin registry
  BY DEF AbiInv, Closes, Closed, Unmakes
<1>2. ASSUME NEW t \in Threads, NEW u \in Threads, NEW h \in Handles,
             Unmakes(t, h)', Unmakes(u, h)', t # u
      PROVE  FALSE
  <2>1. CASE Unmakes(t, h) /\ Unmakes(u, h)
    BY <1>2, <2>1 DEF ClosedOnce
  <2>2. CASE ~Unmakes(t, h)
    <3>1. h \in registry /\ Others(t)
      BY <1>2, <2>2, UnmakersGrow
    <3>2. Unmakes(u, h)
      BY <1>2, <3>1 DEF Unmakes, Others
    <3> QED BY <1>1, <3>1, <3>2
  <2>3. CASE ~Unmakes(u, h)
    <3>1. h \in registry /\ Others(u)
      BY <1>2, <2>3, UnmakersGrow
    <3>2. Unmakes(t, h)
      BY <1>2, <3>1 DEF Unmakes, Others
    <3> QED BY <1>1, <3>1, <3>2
  <2> QED BY <2>1, <2>2, <2>3
<1>3. ASSUME NEW h \in Handles, h \in retired', obj'[h].kind = "refresher"
      PROVE  h \notin registry' /\ \A t \in Threads : ~Unmakes(t, h)'
  <2>1. obj[h].kind = "refresher"
    <3>1. h \in retired => obj[h].kind # "none"
      BY DEF AbiInv, Closes, Retired
    <3>2. obj[h].kind # "none" => Kin(h)
      BY KindsLast
    <3>3. h \notin retired => obj[h].kind = "engine" \/ obj[h].kind = "refresher"
      BY <1>3, RetiredGrow
    <3> QED BY <1>3, <3>1, <3>2, <3>3 DEF Kin
  <2>2. CASE h \in retired
    <3>1. h \notin registry /\ \A t \in Threads : ~Unmakes(t, h)
      BY <2>1, <2>2 DEF ClosedOnce, Refreshers
    <3>2. h \notin registry'
      BY <2>1, <3>1, RegistryGrow
    <3>3. \A t \in Threads : ~Unmakes(t, h)'
      BY <3>1, UnmakersGrow
    <3> QED BY <3>2, <3>3
  <2>3. CASE h \notin retired
    <3>1. /\ h \notin registry' /\ registry' = registry
          /\ \E t \in Threads : Unmakes(t, h) /\ ~Unmakes(t, h)' /\ Others(t)
      BY <1>3, <2>1, <2>3, RetiredBy
    <3>2. PICK t \in Threads : Unmakes(t, h) /\ ~Unmakes(t, h)' /\ Others(t)
      BY <3>1
    <3>3. \A u \in Threads : Unmakes(u, h)' => Unmakes(u, h)
      BY <3>1, UnmakersGrow
    <3>4. \A u \in Threads : ~Unmakes(u, h)'
      BY <3>2, <3>3 DEF ClosedOnce
    <3> QED BY <3>1, <3>4
  <2> QED BY <2>2, <2>3
<1> QED BY <1>2, <1>3 DEF ClosedOnce, Refreshers

-----------------------------------------------------------------------------

\* The invariant, for every run.
THEOREM AbiInvariant == Spec => []AbiInv
BY InitAbiInv, AbiInvKept, PTL DEF Spec

\* The registry, the objects, the loops and the threads keep their types: in particular
\* only handles with an object are registered, and every loop that is cancelled runs.
THEOREM AbiTypes == Spec => []TypeOK
<1>1. AbiInv => TypeOK
  BY DEF AbiInv
<1> QED BY <1>1, AbiInvariant, PTL

\* Adopting and closing (adopt, engineObj.close): there is no window in which a refresher
\* exists but no close can reach it.
THEOREM EveryRefresherIsReachable == Spec => []EveryRefresherReachable
<1>1. AbiInv => EveryRefresherReachable
  BY DEF AbiInv
<1> QED BY <1>1, AbiInvariant, PTL

\* Enter, leave and close of a refresher: once its close has returned, none of its blocking
\* calls is running, however they raced the close.
THEOREM NoCallOutlivesItsClose == Spec => []NoCallOutlivesClose
<1>1. AbiInv => NoCallOutlivesClose
  BY DEF AbiInv
<1> QED BY <1>1, AbiInvariant, PTL

\* Start, stop and close of a refresher: no background loop is ever lost, and none outlives
\* a close that has returned but one that a stop is still waiting for.
THEOREM NoLoopIsLost == Spec => []EveryLoopHasAnOwner
<1>1. Init => ClosedOnce
  BY DEF Init, Idle, ClosedOnce, Unmakes, Unmaking, Shutting
<1>2. AbiInv /\ ClosedOnce => EveryLoopHasAnOwner
  <2> SUFFICES ASSUME AbiInv, ClosedOnce PROVE EveryLoopHasAnOwner
    OBVIOUS
  <2>1. ASSUME NEW h \in Handles, NEW i \in LoopIds, <<h, i>> \in loops
        PROVE  \/ obj[h].cancel = i
               \/ \E t \in Threads : /\ th[t].at = h /\ th[t].loop = i
                                     /\ th[t].pc \in Ending
                                     /\ h \in retired => th[t].pc \in {"cancel", "await"}
    <3>1. h \in Refreshers /\ Owned(h, i)
      BY <2>1 DEF AbiInv, LoopsHeld, LoopsOwned
    <3>2. ASSUME NEW t \in Threads, th[t].at = h, th[t].pc \in Ending, h \in retired
          PROVE  th[t].pc \in {"cancel", "await"}
      BY <3>1, <3>2 DEF ClosedOnce, Unmakes, Unmaking, Shutting, Ending
    <3> QED BY <2>1, <3>1, <3>2 DEF Owned
  <2>2. \A l \in loops : \E h \in Handles, i \in LoopIds : l = <<h, i>>
    BY DEF AbiInv, TypeOK
  <2>3. \A h \in Handles : obj[h].closed => obj[h].cancel = 0
    BY DEF AbiInv, LoopsOwned, NoneClosed
  <2> QED BY <2>1, <2>2, <2>3 DEF EveryLoopHasAnOwner
<1> QED BY <1>1, <1>2, AbiInvariant, ClosedOnceKept, PTL DEF Spec

\* Detach: a refresher whose close has returned is on no engine's list.
THEOREM ClosedRefreshersDropOut == Spec => []ClosedChildrenDropOut
<1>1. AbiInv => ClosedChildrenDropOut
  BY DEF AbiInv
<1> QED BY <1>1, AbiInvariant, PTL

\* With no handle open and every call returned nothing of the library runs: a loop's
\* refresher would be open, or its loop with a thread that is stopping it.
THEOREM UnloadingIsSafe == Spec => []UnloadIsSafe
<1>1. AbiInv => UnloadIsSafe
  <2> SUFFICES ASSUME AbiInv, registry = {}, \A t \in Threads : At(t, "idle")
               PROVE  loops = {} /\ \A h \in Handles : obj[h].inflight = {}
    BY DEF UnloadIsSafe
  <2>1. ASSUME NEW h \in Handles PROVE obj[h].inflight = {}
    <3>1. \A t \in Threads : th[t].pc \notin Working
      BY DEF At, Working
    <3> QED BY <3>1, Typed DEF AbiInv, CallsInFlight
  <2>2. ASSUME NEW h \in Handles, NEW i \in LoopIds PROVE <<h, i>> \notin loops
    <3>1. \A t \in Threads : th[t].pc \notin Ending /\ th[t].pc # "rclose"
      BY DEF At, Ending
    <3>2. h \in Refreshers => obj[h].closed /\ obj[h].cancel = 0
      BY <3>1 DEF AbiInv, Closes, OpenOrTaken, LoopsOwned, NoneClosed
    <3>3. <<h, i>> \in loops => h \in Refreshers /\ Owned(h, i)
      BY DEF AbiInv, LoopsHeld, LoopsOwned
    <3> QED BY <3>1, <3>2, <3>3, Typed DEF Owned
  <2>3. loops \subseteq Handles \X LoopIds
    BY Typed
  <2> QED BY <2>1, <2>2, <2>3
<1> QED BY <1>1, AbiInvariant, PTL
=============================================================================
