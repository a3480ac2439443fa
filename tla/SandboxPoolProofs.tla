------------------------- MODULE SandboxPoolProofs -------------------------
(* Proofs about SandboxPool, for every set of threads and runs, every      *)
(* soft limit and every number of containers.                              *)
EXTENDS SandboxPool, TLAPS

USE ThreadOfAssumption, SweeperAssumption, BoundsAssumption, NoneAssumption

LEMMA InitInv == Init => IndInv
<1>. SUFFICES ASSUME Init PROVE IndInv
  OBVIOUS
<1>1. TypeOK
  BY DEF Init, TypeOK, States, Holding, Actors
<1>2. OnePlace /\ OneCreator /\ OneOrder /\ ReadyOf /\ Nothing
  BY DEF Init, OnePlace, OneCreator, OneOrder, ReadyOf, Nothing, Holding, Actors
<1>3. Uncondemned /\ NothingForgotten
  BY DEF Init, Uncondemned, NothingForgotten, Alive
<1>. QED
  BY <1>1, <1>2, <1>3 DEF IndInv

(* The records that are made are infos and orders.                         *)
LEMMA FoundInfo ==
  ASSUME TypeOK, NEW t \in Threads, container[t] # 0
  PROVE  Found(t) \in Info /\ Found(t).at = container[t] /\ Found(t) # None
<1>1. container[t] \in 1..MaxContainers
  BY DEF TypeOK
<1>2. [id |-> 0, at |-> container[t]] \in [id : 0..MaxContainers, at : 1..MaxContainers]
  BY <1>1
<1>. QED
  BY <1>2 DEF Found, Info, NoId

LEMMA NewInfo ==
  ASSUME NEW n \in 1..MaxContainers
  PROVE  [id |-> n, at |-> n] \in Info /\ [id |-> n, at |-> n] # None
<1>1. [id |-> n, at |-> n] \in [id : 0..MaxContainers, at : 1..MaxContainers]
  OBVIOUS
<1>. QED
  BY <1>1 DEF Info

LEMMA OrderOfIs ==
  ASSUME NEW t \in Threads, NEW i \in Info
  PROVE  /\ OrderOf(t, i) \in Order /\ OrderOf(t, i) # None
         /\ OrderOf(t, i).thread = t /\ OrderOf(t, i).info = i
BY DEF OrderOf, Order

(* An info of container n is hit by the order to stop it.                  *)
LEMMA OrderHits ==
  ASSUME NEW t \in Threads, NEW i \in Info
  PROVE  Hits(OrderOf(t, i), t, i.at)
BY OrderOfIs DEF Hits, Info

(* The variables keep their types. *)
LEMMA TypeInv ==
  ASSUME TypeOK, ReadyOf, [Next]_vars
  PROVE  TypeOK'
<1>. USE DEF TypeOK, States, Holding, poolVars, sweepVars, Goto, Forget, Actors
<1>1. ASSUME NEW r \in Runs, Begin(r) PROVE TypeOK'
  BY <1>1 DEF Begin
<1>2. ASSUME NEW r \in Runs, ToolCall(r) PROVE TypeOK'
  BY <1>2 DEF ToolCall, Use
<1>3. ASSUME NEW r \in Runs, Reuse(r) PROVE TypeOK'
  BY <1>3 DEF Reuse, Enter
<1>4. ASSUME NEW r \in Runs, Reclaim(r) PROVE TypeOK'
  BY <1>4 DEF Reclaim, Enter
<1>5. ASSUME NEW r \in Runs, Miss(r) PROVE TypeOK'
  BY <1>5 DEF Miss, Enter
<1>6. ASSUME NEW r \in Runs, Discover(r) PROVE TypeOK'
  <2>1. container[ThreadOf[r]] # 0 => Found(ThreadOf[r]) \in Info
    BY FoundInfo
  <2>. QED
    BY <1>6, <2>1 DEF Discover
<1>7. ASSUME NEW r \in Runs, Count(r) PROVE TypeOK'
  BY <1>7 DEF Count
<1>8. ASSUME NEW r \in Runs, Evict(r) PROVE TypeOK'
  <2>1. \A t \in WarmSet : OrderOf(t, warm[t]) \in Order
    BY OrderOfIs DEF WarmSet
  <2>. QED
    BY <1>8, <2>1 DEF Evict, WarmSet
<1>9. ASSUME NEW r \in Runs, Launch(r) PROVE TypeOK'
  <2>1. container[ThreadOf[r]] # 0 => Found(ThreadOf[r]) \in Info
    BY FoundInfo
  <2>2. \A n \in Fresh(ThreadOf[r]) : n \in 1..MaxContainers /\ [id |-> n, at |-> n] \in Info
    BY NewInfo DEF Fresh
  <2>. QED
    BY <1>9, <2>1, <2>2 DEF Launch
<1>10. ASSUME NEW r \in Runs, Register(r) PROVE TypeOK'
  BY <1>10 DEF Register
<1>11. ASSUME NEW r \in Runs, NotReady(r) PROVE TypeOK'
  <2>1. info[r] \in Info => OrderOf(ThreadOf[r], info[r]) \in Order
    BY OrderOfIs
  <2>2. info[r] # None
    BY <1>11 DEF NotReady, ReadyOf
  <2>. QED
    BY <1>11, <2>1, <2>2 DEF NotReady
<1>12. ASSUME NEW r \in Runs, Raise(r) PROVE TypeOK'
  BY <1>12 DEF Raise
<1>13. ASSUME NEW r \in Runs, GetAcquired(r) PROVE TypeOK'
  BY <1>13 DEF GetAcquired, Use
<1>14. ASSUME NEW r \in Runs, NotFound(r) PROVE TypeOK'
  BY <1>14 DEF NotFound
<1>15. ASSUME NEW r \in Runs, Release(r) PROVE TypeOK'
  BY <1>15 DEF Release
<1>16. ASSUME NEW r \in Runs, Abandon(r) PROVE TypeOK'
  BY <1>16 DEF Abandon
<1>17. ASSUME NEW a \in Actors, Stop(a) PROVE TypeOK'
  BY <1>17 DEF Stop, Order
<1>18. ASSUME NEW t \in Threads, TimePasses(t) PROVE TypeOK'
  BY <1>18 DEF TimePasses
<1>19. ASSUME NEW t \in Threads, Recheck(t) PROVE TypeOK'
  BY <1>19 DEF Recheck
<1>20. ASSUME NEW t \in Threads, DestroyActive(t) PROVE TypeOK'
  <2>2. PICK i \in Info \cup {None} :
          stop' = IF i # None THEN [stop EXCEPT ![Sweeper] = OrderOf(t, i)] ELSE stop
    BY <1>20 DEF DestroyActive, Destroy
  <2>3. i \in Info => OrderOf(t, i) \in Order
    BY OrderOfIs
  <2>. QED
    BY <1>20, <2>2, <2>3 DEF DestroyActive, Destroy
<1>21. CASE Sweep
  <2>1. idle \cap ActiveSet \subseteq Threads /\ idle \cap WarmSet \subseteq WarmSet
    BY DEF ActiveSet
  <2>2. \A t \in WarmSet : t \in Threads /\ OrderOf(t, warm[t]) \in Order
    BY OrderOfIs DEF WarmSet
  <2>3. queue' \subseteq Order
    BY <1>21, <2>1, <2>2 DEF Sweep, Collect
  <2>. QED
    BY <1>21, <2>1, <2>3 DEF Sweep, Collect
<1>22. CASE DestroyIdle
  <2>1. victim \in Threads /\ Destroy(victim)
    BY <1>22 DEF DestroyIdle
  <2>2. PICK i \in Info \cup {None} :
          stop' = IF i # None THEN [stop EXCEPT ![Sweeper] = OrderOf(victim, i)] ELSE stop
    BY <2>1 DEF Destroy
  <2>3. i \in Info => OrderOf(victim, i) \in Order
    BY <2>1, OrderOfIs
  <2>. QED
    BY <1>22, <2>1, <2>2, <2>3 DEF DestroyIdle, Destroy
<1>23. CASE StopPopped
  BY <1>23 DEF StopPopped
<1>24. CASE Shutdown
  <2>1. ActiveSet \subseteq Threads /\ WarmSet \subseteq WarmSet
    BY DEF ActiveSet
  <2>2. \A t \in WarmSet : t \in Threads /\ OrderOf(t, warm[t]) \in Order
    BY OrderOfIs DEF WarmSet
  <2>3. queue' \subseteq Order
    BY <1>24, <2>1, <2>2 DEF Shutdown, Collect
  <2>. QED
    BY <1>24, <2>1, <2>3 DEF Shutdown, Collect
<1>25. CASE Exit
  BY <1>25 DEF Exit, Gone
<1>26. CASE Crash
  BY <1>26 DEF Crash, Gone
<1>27. CASE Restart
  <2>1. \A t \in Threads : container[t] # 0 => Found(t) \in Info
    BY FoundInfo
  <2>. QED
    BY <1>27, <2>1 DEF Restart, Running
<1>28. CASE UNCHANGED vars
  BY <1>28 DEF vars
<1>. QED
  BY <1>1, <1>2, <1>3, <1>4, <1>5, <1>6, <1>7, <1>8, <1>9, <1>10, <1>11, <1>12, <1>13, <1>14, <1>15, <1>16, <1>17, <1>18, <1>19, <1>20, <1>21, <1>22, <1>23, <1>24, <1>25, <1>26, <1>27, <1>28
     DEF Next, RunStep, AcquireStep, CheckerStep, ShutdownStep

LEMMA NothingInv ==
  ASSUME TypeOK, Nothing, [Next]_vars
  PROVE  Nothing'
<1>. USE DEF TypeOK, Nothing, Alive, poolVars, sweepVars, Goto, Forget, Actors
<1>1. ASSUME NEW r \in Runs, Begin(r) PROVE Nothing'
  BY <1>1 DEF Begin
<1>2. ASSUME NEW r \in Runs, ToolCall(r) PROVE Nothing'
  BY <1>2 DEF ToolCall, Use
<1>3. ASSUME NEW r \in Runs, Reuse(r) PROVE Nothing'
  BY <1>3 DEF Reuse, Enter
<1>4. ASSUME NEW r \in Runs, Reclaim(r) PROVE Nothing'
  BY <1>4 DEF Reclaim, Enter
<1>5. ASSUME NEW r \in Runs, Miss(r) PROVE Nothing'
  BY <1>5 DEF Miss, Enter
<1>6. ASSUME NEW r \in Runs, Discover(r) PROVE Nothing'
  BY <1>6 DEF Discover, Found
<1>7. ASSUME NEW r \in Runs, Count(r) PROVE Nothing'
  BY <1>7 DEF Count
<1>8. ASSUME NEW r \in Runs, Evict(r) PROVE Nothing'
  BY <1>8 DEF Evict, WarmSet
<1>9. ASSUME NEW r \in Runs, Launch(r) PROVE Nothing'
  BY <1>9 DEF Launch, Found, Fresh
<1>10. ASSUME NEW r \in Runs, Register(r) PROVE Nothing'
  BY <1>10 DEF Register
<1>11. ASSUME NEW r \in Runs, NotReady(r) PROVE Nothing'
  BY <1>11 DEF NotReady
<1>12. ASSUME NEW r \in Runs, Raise(r) PROVE Nothing'
  BY <1>12 DEF Raise
<1>13. ASSUME NEW r \in Runs, GetAcquired(r) PROVE Nothing'
  BY <1>13 DEF GetAcquired, Use
<1>14. ASSUME NEW r \in Runs, NotFound(r) PROVE Nothing'
  BY <1>14 DEF NotFound
<1>15. ASSUME NEW r \in Runs, Release(r) PROVE Nothing'
  BY <1>15 DEF Release
<1>16. ASSUME NEW r \in Runs, Abandon(r) PROVE Nothing'
  BY <1>16 DEF Abandon
<1>17. ASSUME NEW a \in Actors, Stop(a) PROVE Nothing'
  BY <1>17 DEF Stop
<1>18. ASSUME NEW t \in Threads, TimePasses(t) PROVE Nothing'
  BY <1>18 DEF TimePasses
<1>19. ASSUME NEW t \in Threads, Recheck(t) PROVE Nothing'
  BY <1>19 DEF Recheck
<1>20. ASSUME NEW t \in Threads, DestroyActive(t) PROVE Nothing'
  BY <1>20 DEF DestroyActive, Destroy
<1>21. CASE Sweep
  BY <1>21 DEF Sweep, Collect
<1>22. CASE DestroyIdle
  BY <1>22 DEF DestroyIdle, Destroy
<1>23. CASE StopPopped
  BY <1>23 DEF StopPopped
<1>24. CASE Shutdown
  BY <1>24 DEF Shutdown, Collect
<1>25. CASE Exit
  BY <1>25 DEF Exit, Gone
<1>26. CASE Crash
  BY <1>26 DEF Crash, Gone
<1>27. CASE Restart
  BY <1>27 DEF Restart, Found, Running
<1>28. CASE UNCHANGED vars
  BY <1>28 DEF vars
<1>. QED
  BY <1>1, <1>2, <1>3, <1>4, <1>5, <1>6, <1>7, <1>8, <1>9, <1>10, <1>11, <1>12, <1>13, <1>14, <1>15, <1>16, <1>17, <1>18, <1>19, <1>20, <1>21, <1>22, <1>23, <1>24, <1>25, <1>26, <1>27, <1>28
     DEF Next, RunStep, AcquireStep, CheckerStep, ShutdownStep

LEMMA PlaceInv ==
  ASSUME TypeOK, Nothing, OnePlace, OneCreator, [Next]_vars
  PROVE  OnePlace' /\ OneCreator'
<1>. USE DEF TypeOK, Nothing, OnePlace, OneCreator, Alive, Holding, poolVars, sweepVars, Goto, Forget
<1>1. ASSUME NEW r \in Runs, Begin(r) PROVE OnePlace' /\ OneCreator'
  BY <1>1 DEF Begin
<1>2. ASSUME NEW r \in Runs, ToolCall(r) PROVE OnePlace' /\ OneCreator'
  BY <1>2 DEF ToolCall, Use
<1>3. ASSUME NEW r \in Runs, Reuse(r) PROVE OnePlace' /\ OneCreator'
  BY <1>3 DEF Reuse, Enter
<1>4. ASSUME NEW r \in Runs, Reclaim(r) PROVE OnePlace' /\ OneCreator'
  BY <1>4 DEF Reclaim, Enter
<1>5. ASSUME NEW r \in Runs, Miss(r) PROVE OnePlace' /\ OneCreator'
  BY <1>5 DEF Miss, Enter
<1>6. ASSUME NEW r \in Runs, Discover(r) PROVE OnePlace' /\ OneCreator'
  BY <1>6 DEF Discover, Found
<1>7. ASSUME NEW r \in Runs, Count(r) PROVE OnePlace' /\ OneCreator'
  BY <1>7 DEF Count
<1>8. ASSUME NEW r \in Runs, Evict(r) PROVE OnePlace' /\ OneCreator'
  BY <1>8 DEF Evict, WarmSet
<1>9. ASSUME NEW r \in Runs, Launch(r) PROVE OnePlace' /\ OneCreator'
  BY <1>9 DEF Launch, Found, Fresh
<1>10. ASSUME NEW r \in Runs, Register(r) PROVE OnePlace' /\ OneCreator'
  BY <1>10 DEF Register
<1>11. ASSUME NEW r \in Runs, NotReady(r) PROVE OnePlace' /\ OneCreator'
  BY <1>11 DEF NotReady
<1>12. ASSUME NEW r \in Runs, Raise(r) PROVE OnePlace' /\ OneCreator'
  BY <1>12 DEF Raise
<1>13. ASSUME NEW r \in Runs, GetAcquired(r) PROVE OnePlace' /\ OneCreator'
  BY <1>13 DEF GetAcquired, Use
<1>14. ASSUME NEW r \in Runs, NotFound(r) PROVE OnePlace' /\ OneCreator'
  BY <1>14 DEF NotFound
<1>15. ASSUME NEW r \in Runs, Release(r) PROVE OnePlace' /\ OneCreator'
  BY <1>15 DEF Release
<1>16. ASSUME NEW r \in Runs, Abandon(r) PROVE OnePlace' /\ OneCreator'
  BY <1>16 DEF Abandon
<1>17. ASSUME NEW a \in Actors, Stop(a) PROVE OnePlace' /\ OneCreator'
  BY <1>17 DEF Stop
<1>18. ASSUME NEW t \in Threads, TimePasses(t) PROVE OnePlace' /\ OneCreator'
  BY <1>18 DEF TimePasses
<1>19. ASSUME NEW t \in Threads, Recheck(t) PROVE OnePlace' /\ OneCreator'
  BY <1>19 DEF Recheck
<1>20. ASSUME NEW t \in Threads, DestroyActive(t) PROVE OnePlace' /\ OneCreator'
  BY <1>20 DEF DestroyActive, Destroy
<1>21. CASE Sweep
  BY <1>21 DEF Sweep, Collect
<1>22. CASE DestroyIdle
  BY <1>22 DEF DestroyIdle, Destroy
<1>23. CASE StopPopped
  BY <1>23 DEF StopPopped
<1>24. CASE Shutdown
  BY <1>24 DEF Shutdown, Collect
<1>25. CASE Exit
  BY <1>25 DEF Exit, Gone
<1>26. CASE Crash
  BY <1>26 DEF Crash, Gone
<1>27. CASE Restart
  BY <1>27 DEF Restart, Found, Running
<1>28. CASE UNCHANGED vars
  BY <1>28 DEF vars
<1>. QED
  BY <1>1, <1>2, <1>3, <1>4, <1>5, <1>6, <1>7, <1>8, <1>9, <1>10, <1>11, <1>12, <1>13, <1>14, <1>15, <1>16, <1>17, <1>18, <1>19, <1>20, <1>21, <1>22, <1>23, <1>24, <1>25, <1>26, <1>27, <1>28
     DEF Next, RunStep, AcquireStep, CheckerStep, ShutdownStep

LEMMA OrderInv ==
  ASSUME TypeOK, Nothing, OneOrder, [Next]_vars
  PROVE  OneOrder'
<1>. USE DEF TypeOK, Nothing, OneOrder, Alive, poolVars, sweepVars, Goto, Forget, Actors, Resting
<1>1. ASSUME NEW r \in Runs, Begin(r) PROVE OneOrder'
  BY <1>1 DEF Begin
<1>2. ASSUME NEW r \in Runs, ToolCall(r) PROVE OneOrder'
  BY <1>2 DEF ToolCall, Use
<1>3. ASSUME NEW r \in Runs, Reuse(r) PROVE OneOrder'
  BY <1>3 DEF Reuse, Enter
<1>4. ASSUME NEW r \in Runs, Reclaim(r) PROVE OneOrder'
  BY <1>4 DEF Reclaim, Enter
<1>5. ASSUME NEW r \in Runs, Miss(r) PROVE OneOrder'
  BY <1>5 DEF Miss, Enter
<1>6. ASSUME NEW r \in Runs, Discover(r) PROVE OneOrder'
  BY <1>6 DEF Discover, Found
<1>7. ASSUME NEW r \in Runs, Count(r) PROVE OneOrder'
  BY <1>7 DEF Count
<1>8. ASSUME NEW r \in Runs, Evict(r) PROVE OneOrder'
  BY <1>8 DEF Evict, WarmSet
<1>9. ASSUME NEW r \in Runs, Launch(r) PROVE OneOrder'
  BY <1>9 DEF Launch, Found, Fresh
<1>10. ASSUME NEW r \in Runs, Register(r) PROVE OneOrder'
  BY <1>10 DEF Register
<1>11. ASSUME NEW r \in Runs, NotReady(r) PROVE OneOrder'
  BY <1>11 DEF NotReady
<1>12. ASSUME NEW r \in Runs, Raise(r) PROVE OneOrder'
  BY <1>12 DEF Raise
<1>13. ASSUME NEW r \in Runs, GetAcquired(r) PROVE OneOrder'
  BY <1>13 DEF GetAcquired, Use
<1>14. ASSUME NEW r \in Runs, NotFound(r) PROVE OneOrder'
  BY <1>14 DEF NotFound
<1>15. ASSUME NEW r \in Runs, Release(r) PROVE OneOrder'
  BY <1>15 DEF Release
<1>16. ASSUME NEW r \in Runs, Abandon(r) PROVE OneOrder'
  BY <1>16 DEF Abandon
<1>17. ASSUME NEW a \in Actors, Stop(a) PROVE OneOrder'
  BY <1>17 DEF Stop
<1>18. ASSUME NEW t \in Threads, TimePasses(t) PROVE OneOrder'
  BY <1>18 DEF TimePasses
<1>19. ASSUME NEW t \in Threads, Recheck(t) PROVE OneOrder'
  BY <1>19 DEF Recheck
<1>20. ASSUME NEW t \in Threads, DestroyActive(t) PROVE OneOrder'
  BY <1>20 DEF DestroyActive, Destroy
<1>21. CASE Sweep
  BY <1>21 DEF Sweep, Collect
<1>22. CASE DestroyIdle
  BY <1>22 DEF DestroyIdle, Destroy
<1>23. CASE StopPopped
  BY <1>23 DEF StopPopped
<1>24. CASE Shutdown
  BY <1>24 DEF Shutdown, Collect
<1>25. CASE Exit
  BY <1>25 DEF Exit, Gone
<1>26. CASE Crash
  BY <1>26 DEF Crash, Gone
<1>27. CASE Restart
  BY <1>27 DEF Restart, Found, Running
<1>28. CASE UNCHANGED vars
  BY <1>28 DEF vars
<1>. QED
  BY <1>1, <1>2, <1>3, <1>4, <1>5, <1>6, <1>7, <1>8, <1>9, <1>10, <1>11, <1>12, <1>13, <1>14, <1>15, <1>16, <1>17, <1>18, <1>19, <1>20, <1>21, <1>22, <1>23, <1>24, <1>25, <1>26, <1>27, <1>28
     DEF Next, RunStep, AcquireStep, CheckerStep, ShutdownStep

LEMMA ReadyInv ==
  ASSUME TypeOK, Nothing, OneCreator, ReadyOf, [Next]_vars
  PROVE  ReadyOf'
<1>. USE DEF TypeOK, Nothing, OneCreator, ReadyOf, Alive, Holding, poolVars, sweepVars, Goto, Forget
<1>1. ASSUME NEW r \in Runs, Begin(r) PROVE ReadyOf'
  BY <1>1 DEF Begin
<1>2. ASSUME NEW r \in Runs, ToolCall(r) PROVE ReadyOf'
  BY <1>2 DEF ToolCall, Use
<1>3. ASSUME NEW r \in Runs, Reuse(r) PROVE ReadyOf'
  BY <1>3 DEF Reuse, Enter
<1>4. ASSUME NEW r \in Runs, Reclaim(r) PROVE ReadyOf'
  BY <1>4 DEF Reclaim, Enter
<1>5. ASSUME NEW r \in Runs, Miss(r) PROVE ReadyOf'
  BY <1>5 DEF Miss, Enter
<1>6. ASSUME NEW r \in Runs, Discover(r) PROVE ReadyOf'
  <2>1. container[ThreadOf[r]] # 0 => Found(ThreadOf[r]).at = container[ThreadOf[r]] /\ Found(ThreadOf[r]) # None
    BY FoundInfo
  <2>. QED
    BY <1>6, <2>1 DEF Discover
<1>7. ASSUME NEW r \in Runs, Count(r) PROVE ReadyOf'
  BY <1>7 DEF Count
<1>8. ASSUME NEW r \in Runs, Evict(r) PROVE ReadyOf'
  BY <1>8 DEF Evict, WarmSet
<1>9. ASSUME NEW r \in Runs, Launch(r) PROVE ReadyOf'
  <2>. DEFINE t == ThreadOf[r]
  <2>1. container[t] # 0 => Found(t) \in Info /\ Found(t).at = container[t] /\ Found(t) # None
    BY FoundInfo
  <2>2. \A n \in Fresh(t) : n \in 1..MaxContainers /\ [id |-> n, at |-> n] # None
    BY NewInfo DEF Fresh
  <2>3. \A q \in Runs : q # r /\ pc'[q] = "ready" => ThreadOf[q] # t /\ pc[q] = "ready"
    BY <1>9 DEF Launch
  <2>4. \A q \in Runs : q # r => info'[q] = info[q]
    BY <1>9 DEF Launch
  <2>5. \A u \in Threads : u # t => container'[u] = container[u]
    BY <1>9 DEF Launch
  <2>6. pc'[r] = "ready" => info'[r] # None /\ container'[t] \in {0, info'[r].at}
    BY <1>9, <2>1, <2>2 DEF Launch
  <2>. QED
    BY <2>3, <2>4, <2>5, <2>6
<1>10. ASSUME NEW r \in Runs, Register(r) PROVE ReadyOf'
  BY <1>10 DEF Register
<1>11. ASSUME NEW r \in Runs, NotReady(r) PROVE ReadyOf'
  BY <1>11 DEF NotReady
<1>12. ASSUME NEW r \in Runs, Raise(r) PROVE ReadyOf'
  BY <1>12 DEF Raise
<1>13. ASSUME NEW r \in Runs, GetAcquired(r) PROVE ReadyOf'
  BY <1>13 DEF GetAcquired, Use
<1>14. ASSUME NEW r \in Runs, NotFound(r) PROVE ReadyOf'
  BY <1>14 DEF NotFound
<1>15. ASSUME NEW r \in Runs, Release(r) PROVE ReadyOf'
  BY <1>15 DEF Release
<1>16. ASSUME NEW r \in Runs, Abandon(r) PROVE ReadyOf'
  BY <1>16 DEF Abandon
<1>17. ASSUME NEW a \in Actors, Stop(a) PROVE ReadyOf'
  BY <1>17 DEF Stop
<1>18. ASSUME NEW t \in Threads, TimePasses(t) PROVE ReadyOf'
  BY <1>18 DEF TimePasses
<1>19. ASSUME NEW t \in Threads, Recheck(t) PROVE ReadyOf'
  BY <1>19 DEF Recheck
<1>20. ASSUME NEW t \in Threads, DestroyActive(t) PROVE ReadyOf'
  BY <1>20 DEF DestroyActive, Destroy
<1>21. CASE Sweep
  BY <1>21 DEF Sweep, Collect
<1>22. CASE DestroyIdle
  BY <1>22 DEF DestroyIdle, Destroy
<1>23. CASE StopPopped
  BY <1>23 DEF StopPopped
<1>24. CASE Shutdown
  BY <1>24 DEF Shutdown, Collect
<1>25. CASE Exit
  BY <1>25 DEF Exit, Gone
<1>26. CASE Crash
  BY <1>26 DEF Crash, Gone
<1>27. CASE Restart
  BY <1>27 DEF Restart, Found, Running
<1>28. CASE UNCHANGED vars
  BY <1>28 DEF vars
<1>. QED
  BY <1>1, <1>2, <1>3, <1>4, <1>5, <1>6, <1>7, <1>8, <1>9, <1>10, <1>11, <1>12, <1>13, <1>14, <1>15, <1>16, <1>17, <1>18, <1>19, <1>20, <1>21, <1>22, <1>23, <1>24, <1>25, <1>26, <1>27, <1>28
     DEF Next, RunStep, AcquireStep, CheckerStep, ShutdownStep

(* What the steps do to the orders.                                        *)
LEMMA SameOrders == stop' = stop /\ queue' = queue => Orders' = Orders
BY DEF Orders

LEMMA FewerOrders ==
  ASSUME \A b \in Actors : stop'[b] \in {stop[b], None} \cup queue, queue' \subseteq queue
  PROVE  \A o \in Orders' : o \in Orders
BY DEF Orders

LEMMA OneMore ==
  ASSUME NEW a \in Actors, NEW o, TypeOK, stop' = [stop EXCEPT ![a] = o], queue' = queue
  PROVE  \A u \in Orders' : u \in Orders \cup {o}
<1>1. \A b \in Actors : stop'[b] \in {stop[b], o}
  BY DEF TypeOK
<1>. QED
  BY <1>1 DEF Orders

(* The containers of the entries run. *)
LEMMA ServedInv ==
  ASSUME TypeOK, Nothing, OnePlace, ReadyOf, Uncondemned, [Next]_vars
  PROVE  Uncondemned'
<1>. USE DEF TypeOK, Uncondemned, Alive, poolVars, sweepVars, Goto, Forget, Actors
<1>1. ASSUME NEW r \in Runs, Begin(r) PROVE Uncondemned'
  <2>1. Orders' = Orders
    BY <1>1, SameOrders DEF Begin
  <2>. QED
    BY <1>1, <2>1 DEF Begin
<1>2. ASSUME NEW r \in Runs, ToolCall(r) PROVE Uncondemned'
  <2>1. Orders' = Orders
    BY <1>2, SameOrders DEF ToolCall, Use
  <2>. QED
    BY <1>2, <2>1 DEF ToolCall, Use
<1>3. ASSUME NEW r \in Runs, Reuse(r) PROVE Uncondemned'
  <2>1. Orders' = Orders
    BY <1>3, SameOrders DEF Reuse, Enter
  <2>. QED
    BY <1>3, <2>1 DEF Reuse, Enter
<1>4. ASSUME NEW r \in Runs, Reclaim(r) PROVE Uncondemned'
  <2>1. Orders' = Orders
    BY <1>4, SameOrders DEF Reclaim, Enter
  <2>. QED
    BY <1>4, <2>1 DEF Reclaim, Enter
<1>5. ASSUME NEW r \in Runs, Miss(r) PROVE Uncondemned'
  <2>1. Orders' = Orders
    BY <1>5, SameOrders DEF Miss, Enter
  <2>. QED
    BY <1>5, <2>1 DEF Miss, Enter
<1>6. ASSUME NEW r \in Runs, Discover(r) PROVE Uncondemned'
  <2>1. Orders' = Orders
    BY <1>6, SameOrders DEF Discover, Found
  <2>. QED
    BY <1>6, <2>1 DEF Discover, Found
<1>7. ASSUME NEW r \in Runs, Count(r) PROVE Uncondemned'
  <2>1. Orders' = Orders
    BY <1>7, SameOrders DEF Count
  <2>. QED
    BY <1>7, <2>1 DEF Count
<1>8. ASSUME NEW r \in Runs, Evict(r) PROVE Uncondemned'
  <2>1. CASE WarmSet = {}
    <3>1. stop' = stop /\ queue' = queue
      BY <1>8, <2>1 DEF Evict
    <3>2. Orders' = Orders
      BY <3>1, SameOrders
    <3>. QED
      BY <1>8, <2>1, <3>2 DEF Evict
  <2>2. ASSUME NEW t \in WarmSet, warm' = [warm EXCEPT ![t] = None],
               stop' = [stop EXCEPT ![r] = OrderOf(t, warm[t])], Forget({t})
        PROVE  Uncondemned'
    <3>1. t \in Threads /\ warm[t] \in Info
      BY DEF WarmSet
    <3>2. OrderOf(t, warm[t]).thread = t
      BY <3>1, OrderOfIs
    <3>3. \A u \in Orders' : u \in Orders \/ u.thread = t
      <4>1. \A u \in Orders' : u \in Orders \cup {OrderOf(t, warm[t])}
        <5>1. queue' = queue /\ r \in Actors
          BY <1>8 DEF Evict
        <5>. QED
          BY <2>2, <5>1, OneMore
      <4>. QED
        BY <4>1, <3>2
    <3>4. active' = active /\ container' = container
      BY <1>8 DEF Evict
    <3>5. active[t] = None
      BY <3>1 DEF OnePlace
    <3>. QED
      BY <2>2, <3>1, <3>3, <3>4, <3>5 DEF Hits
  <2>. QED
    BY <1>8, <2>1, <2>2 DEF Evict
<1>9. ASSUME NEW r \in Runs, Launch(r) PROVE Uncondemned'
  <2>1. Orders' = Orders
    BY <1>9, SameOrders DEF Launch
  <2>2. active[ThreadOf[r]] = None /\ warm[ThreadOf[r]] = None
    BY <1>9 DEF Launch, OnePlace, Holding
  <2>3. \A u \in Threads : u # ThreadOf[r] => container'[u] = container[u]
    BY <1>9 DEF Launch
  <2>. QED
    BY <1>9, <2>1, <2>2, <2>3 DEF Launch
<1>10. ASSUME NEW r \in Runs, Register(r) PROVE Uncondemned'
  <2>. DEFINE t == ThreadOf[r]
  <2>1. Orders' = Orders
    BY <1>10, SameOrders DEF Register
  <2>2. warm[t] = None /\ active'[t] = info[r]
    BY <1>10 DEF Register, OnePlace, Holding
  <2>3. Doomed(t, info[r]) => t \in condemned'
    BY <1>10 DEF Register
  <2>4. \A u \in Threads : u # t => active'[u] = active[u] /\ (u \in condemned' <=> u \in condemned)
    BY <1>10 DEF Register
  <2>. QED
    BY <1>10, <2>1, <2>2, <2>3, <2>4 DEF Register, Doomed
<1>11. ASSUME NEW r \in Runs, NotReady(r) PROVE Uncondemned'
  <2>. DEFINE t == ThreadOf[r]
  <2>1. info[r] \in Info
    BY <1>11 DEF NotReady, ReadyOf
  <2>2. OrderOf(t, info[r]).thread = t
    BY <2>1, OrderOfIs
  <2>3. \A u \in Orders' : u \in Orders \cup {OrderOf(t, info[r])}
    <3>1. queue' = queue /\ r \in Actors /\ stop' = [stop EXCEPT ![r] = OrderOf(t, info[r])]
      BY <1>11 DEF NotReady
    <3>. QED
      BY <3>1, OneMore
  <2>4. active[t] = None /\ warm[t] = None
    BY <1>11 DEF NotReady, OnePlace, Holding
  <2>. QED
    BY <1>11, <2>2, <2>3, <2>4 DEF NotReady, Hits
<1>12. ASSUME NEW r \in Runs, Raise(r) PROVE Uncondemned'
  <2>1. Orders' = Orders
    BY <1>12, SameOrders DEF Raise
  <2>. QED
    BY <1>12, <2>1 DEF Raise
<1>13. ASSUME NEW r \in Runs, GetAcquired(r) PROVE Uncondemned'
  <2>1. Orders' = Orders
    BY <1>13, SameOrders DEF GetAcquired, Use
  <2>. QED
    BY <1>13, <2>1 DEF GetAcquired, Use
<1>14. ASSUME NEW r \in Runs, NotFound(r) PROVE Uncondemned'
  <2>1. Orders' = Orders
    BY <1>14, SameOrders DEF NotFound
  <2>. QED
    BY <1>14, <2>1 DEF NotFound
<1>15. ASSUME NEW r \in Runs, Release(r) PROVE Uncondemned'
  <2>1. Orders' = Orders
    BY <1>15, SameOrders DEF Release
  <2>. QED
    BY <1>15, <2>1 DEF Release
<1>16. ASSUME NEW r \in Runs, Abandon(r) PROVE Uncondemned'
  <2>1. Orders' = Orders
    BY <1>16, SameOrders DEF Abandon
  <2>. QED
    BY <1>16, <2>1 DEF Abandon
<1>17. ASSUME NEW a \in Actors, Stop(a) PROVE Uncondemned'
  <2>1. \A o \in Orders' : o \in Orders
    BY <1>17, FewerOrders DEF Stop
  <2>2. stop[a] \in Orders
    BY <1>17 DEF Stop, Orders
  <2>3. \A t \in Threads : container'[t] # container[t] => Hits(stop[a], t, container[t])
    BY <1>17 DEF Stop, Order
  <2>4. active' = active /\ warm' = warm /\ condemned' = condemned
    BY <1>17 DEF Stop
  <2>. QED
    BY <2>1, <2>2, <2>3, <2>4
<1>18. ASSUME NEW t \in Threads, TimePasses(t) PROVE Uncondemned'
  <2>1. Orders' = Orders
    BY <1>18, SameOrders DEF TimePasses
  <2>. QED
    BY <1>18, <2>1 DEF TimePasses
<1>19. ASSUME NEW t \in Threads, Recheck(t) PROVE Uncondemned'
  <2>1. Orders' = Orders
    BY <1>19, SameOrders DEF Recheck
  <2>. QED
    BY <1>19, <2>1 DEF Recheck
<1>20. ASSUME NEW t \in Threads, DestroyActive(t) PROVE Uncondemned'
  <2>0. Destroy(t) /\ t \in Threads
    BY <1>20 DEF DestroyActive
  <2>1. PICK i \in Info \cup {None} :
          stop' = IF i # None THEN [stop EXCEPT ![Sweeper] = OrderOf(t, i)] ELSE stop
    BY <2>0 DEF Destroy
  <2>2. queue' = queue /\ Sweeper \in Actors
    BY <2>0 DEF Destroy
  <2>3. \A u \in Orders' : u \in Orders \/ u.thread = t
    <3>1. CASE i = None
      BY <2>1, <2>2, <3>1, SameOrders
    <3>2. CASE i \in Info
      <4>1. \A u \in Orders' : u \in Orders \cup {OrderOf(t, i)}
        BY <2>1, <2>2, <3>2, OneMore
      <4>. QED
        BY <2>0, <3>2, <4>1, OrderOfIs
    <3>. QED
      BY <3>1, <3>2
  <2>. QED
    BY <2>0, <2>3 DEF Destroy, Hits
<1>21. CASE Sweep
  <2>. DEFINE W == idle \cap WarmSet
  <2>1. stop' = stop /\ queue' = {OrderOf(t, warm[t]) : t \in W}
    BY <1>21 DEF Sweep, Collect
  <2>2. \A t \in W : t \in Threads /\ warm[t] \in Info
    BY DEF WarmSet
  <2>3. \A u \in Orders' : u \in Orders \/ u.thread \in W
    BY <2>1, <2>2, OrderOfIs DEF Orders
  <2>4. /\ active' = active /\ container' = container /\ condemned' = condemned \ W
        /\ \A t \in Threads : warm'[t] = IF t \in W THEN None ELSE warm[t]
    BY <1>21 DEF Sweep, Collect
  <2>5. \A t \in W : active[t] = None
    BY <2>2 DEF OnePlace
  <2>. QED
    BY <2>2, <2>3, <2>4, <2>5 DEF Hits
<1>22. CASE DestroyIdle
  <2>0. Destroy(victim) /\ victim \in Threads
    BY <1>22 DEF DestroyIdle
  <2>1. PICK i \in Info \cup {None} :
          stop' = IF i # None THEN [stop EXCEPT ![Sweeper] = OrderOf(victim, i)] ELSE stop
    BY <2>0 DEF Destroy
  <2>2. queue' = queue /\ Sweeper \in Actors
    BY <2>0 DEF Destroy
  <2>3. \A u \in Orders' : u \in Orders \/ u.thread = victim
    <3>1. CASE i = None
      BY <2>1, <2>2, <3>1, SameOrders
    <3>2. CASE i \in Info
      <4>1. \A u \in Orders' : u \in Orders \cup {OrderOf(victim, i)}
        BY <2>1, <2>2, <3>2, OneMore
      <4>. QED
        BY <2>0, <3>2, <4>1, OrderOfIs
    <3>. QED
      BY <3>1, <3>2
  <2>. QED
    BY <2>0, <2>3 DEF Destroy, Hits
<1>23. CASE StopPopped
  <2>1. \A o \in Orders' : o \in Orders
    BY <1>23, FewerOrders DEF StopPopped
  <2>. QED
    BY <1>23, <2>1 DEF StopPopped
<1>24. CASE Shutdown
  <2>. DEFINE W == WarmSet
  <2>1. stop' = stop /\ queue' = {OrderOf(t, warm[t]) : t \in W}
    BY <1>24 DEF Shutdown, Collect
  <2>2. \A t \in W : t \in Threads /\ warm[t] \in Info
    BY DEF WarmSet
  <2>3. \A u \in Orders' : u \in Orders \/ u.thread \in W
    BY <2>1, <2>2, OrderOfIs DEF Orders
  <2>4. /\ active' = active /\ container' = container /\ condemned' = condemned \ W
        /\ \A t \in Threads : warm'[t] = IF t \in W THEN None ELSE warm[t]
    BY <1>24 DEF Shutdown, Collect
  <2>5. \A t \in W : active[t] = None
    BY <2>2 DEF OnePlace
  <2>. QED
    BY <2>2, <2>3, <2>4, <2>5 DEF Hits
<1>25. CASE Exit
  BY <1>25 DEF Exit, Gone
<1>26. CASE Crash
  BY <1>26 DEF Crash, Gone
<1>27. CASE Restart
  <2>1. Orders = {}
    BY <1>27 DEF Restart, Nothing, Orders
  <2>2. Orders' = Orders
    BY <1>27, SameOrders DEF Restart
  <2>3. \A t \in Threads : container[t] # 0 => Found(t).at = container[t] /\ Found(t) # None
    BY FoundInfo
  <2>4. \A t \in Threads : active'[t] = None /\ (warm'[t] # None => warm'[t].at = container'[t])
    BY <1>27, <2>3 DEF Restart, Running, Nothing
  <2>. QED
    BY <2>1, <2>2, <2>4
<1>28. CASE UNCHANGED vars
  BY <1>28, SameOrders DEF vars
<1>. QED
  BY <1>1, <1>2, <1>3, <1>4, <1>5, <1>6, <1>7, <1>8, <1>9, <1>10, <1>11, <1>12, <1>13, <1>14, <1>15, <1>16, <1>17, <1>18, <1>19, <1>20, <1>21, <1>22, <1>23, <1>24, <1>25, <1>26, <1>27, <1>28
     DEF Next, RunStep, AcquireStep, CheckerStep, ShutdownStep

(* docker run makes a container for the run, or leaves the one there is.   *)
LEMMA LaunchFacts ==
  ASSUME TypeOK, NEW r \in Runs, Launch(r)
  PROVE  LET t == ThreadOf[r] IN
         container'[t] = container[t] \/ (pc'[r] = "ready" /\ info'[r].at = container'[t])
BY DEF Launch, TypeOK, Goto

(* No container is forgotten. *)
LEMMA KnownInv ==
  ASSUME TypeOK, Nothing, OnePlace, OneOrder, ReadyOf, NothingForgotten, [Next]_vars
  PROVE  NothingForgotten'
<1>. USE DEF TypeOK, NothingForgotten, Known, Alive, poolVars, sweepVars, Goto, Forget, Actors
<1>1. ASSUME NEW r \in Runs, Begin(r) PROVE NothingForgotten'
  <2>1. Orders' = Orders
    BY <1>1, SameOrders DEF Begin
  <2>. QED
    BY <1>1, <2>1 DEF Begin
<1>2. ASSUME NEW r \in Runs, ToolCall(r) PROVE NothingForgotten'
  <2>1. Orders' = Orders
    BY <1>2, SameOrders DEF ToolCall, Use
  <2>. QED
    BY <1>2, <2>1 DEF ToolCall, Use
<1>3. ASSUME NEW r \in Runs, Reuse(r) PROVE NothingForgotten'
  <2>1. Orders' = Orders
    BY <1>3, SameOrders DEF Reuse, Enter
  <2>. QED
    BY <1>3, <2>1 DEF Reuse, Enter
<1>4. ASSUME NEW r \in Runs, Reclaim(r) PROVE NothingForgotten'
  <2>1. Orders' = Orders
    BY <1>4, SameOrders DEF Reclaim, Enter
  <2>. QED
    BY <1>4, <2>1 DEF Reclaim, Enter
<1>5. ASSUME NEW r \in Runs, Miss(r) PROVE NothingForgotten'
  <2>1. Orders' = Orders
    BY <1>5, SameOrders DEF Miss, Enter
  <2>. QED
    BY <1>5, <2>1 DEF Miss, Enter
<1>6. ASSUME NEW r \in Runs, Discover(r) PROVE NothingForgotten'
  <2>1. Orders' = Orders
    BY <1>6, SameOrders DEF Discover, Found
  <2>. QED
    BY <1>6, <2>1 DEF Discover, Found
<1>7. ASSUME NEW r \in Runs, Count(r) PROVE NothingForgotten'
  <2>1. Orders' = Orders
    BY <1>7, SameOrders DEF Count
  <2>. QED
    BY <1>7, <2>1 DEF Count
<1>8. ASSUME NEW r \in Runs, Evict(r) PROVE NothingForgotten'
  <2>1. CASE WarmSet = {}
    <3>1. stop' = stop /\ queue' = queue
      BY <1>8, <2>1 DEF Evict
    <3>2. Orders' = Orders
      BY <3>1, SameOrders
    <3>. QED
      BY <1>8, <2>1, <3>2 DEF Evict
  <2>2. ASSUME NEW t \in WarmSet, warm' = [warm EXCEPT ![t] = None],
               stop' = [stop EXCEPT ![r] = OrderOf(t, warm[t])]
        PROVE  NothingForgotten'
    <3>1. t \in Threads /\ warm[t] \in Info /\ active[t] = None
      BY DEF WarmSet, OnePlace
    <3>2. stop[r] = None /\ queue' = queue /\ r \in Actors
      BY <1>8 DEF Evict, OneOrder
    <3>3. \A o \in Orders : o \in Orders'
      BY <2>2, <3>2 DEF Orders
    <3>4. OrderOf(t, warm[t]) \in Orders'
      BY <2>2, <3>1, <3>2, OrderOfIs DEF Orders
    <3>5. active' = active /\ container' = container /\ info' = info /\ phase' = phase /\ left' = left
      BY <1>8 DEF Evict
    <3>6. \A q \in Runs : pc[q] = "ready" => pc'[q] = "ready"
      BY <1>8 DEF Evict
    <3>7. Hits(OrderOf(t, warm[t]), t, warm[t].at)
      BY <3>1, OrderHits
    <3>8. \A u \in Threads : Known(u) => Known(u)'
      BY <2>2, <3>1, <3>3, <3>4, <3>5, <3>6, <3>7
    <3>. QED
      BY <3>5, <3>8
  <2>. QED
    BY <1>8, <2>1, <2>2 DEF Evict
<1>9. ASSUME NEW r \in Runs, Launch(r) PROVE NothingForgotten'
  <2>. DEFINE t == ThreadOf[r]
  <2>1. Orders' = Orders
    BY <1>9, SameOrders DEF Launch
  <2>2. \A q \in Runs : q # r => pc'[q] = pc[q] /\ info'[q] = info[q]
    BY <1>9 DEF Launch
  <2>3. \A u \in Threads : u # t => container'[u] = container[u]
    BY <1>9 DEF Launch
  <2>4. phase' = phase /\ active' = active /\ warm' = warm /\ left' = left /\ pc[r] = "launch"
    BY <1>9 DEF Launch
  <2>5. container'[t] = container[t] \/ (pc'[r] = "ready" /\ info'[r].at = container'[t])
    BY <1>9, LaunchFacts
  <2>6. \A u \in Threads : u # t /\ Known(u) => Known(u)'
    BY <2>1, <2>2, <2>3, <2>4
  <2>7. Known(t) /\ container'[t] = container[t] => Known(t)'
    BY <2>1, <2>2, <2>4
  <2>8. container'[t] # container[t] => Known(t)'
    BY <2>5
  <2>. QED
    BY <2>3, <2>4, <2>6, <2>7, <2>8
<1>10. ASSUME NEW r \in Runs, Register(r) PROVE NothingForgotten'
  <2>. DEFINE t == ThreadOf[r]
  <2>1. Orders' = Orders
    BY <1>10, SameOrders DEF Register
  <2>2. active'[t] = info[r] /\ info[r] # None /\ container[t] \in {0, info[r].at}
    BY <1>10 DEF Register, ReadyOf
  <2>3. \A u \in Threads : u # t => active'[u] = active[u] /\ (u \in left' <=> u \in left)
    BY <1>10 DEF Register
  <2>4. \A q \in Runs : q # r => pc'[q] = pc[q] /\ info'[q] = info[q]
    BY <1>10 DEF Register
  <2>5. phase' = phase /\ warm' = warm /\ container' = container
    BY <1>10 DEF Register
  <2>. QED
    BY <2>1, <2>2, <2>3, <2>4, <2>5
<1>11. ASSUME NEW r \in Runs, NotReady(r) PROVE NothingForgotten'
  <2>. DEFINE t == ThreadOf[r]
  <2>1. info[r] \in Info /\ container[t] \in {0, info[r].at}
    BY <1>11 DEF NotReady, ReadyOf
  <2>2. stop[r] = None /\ queue' = queue /\ r \in Actors
    BY <1>11 DEF NotReady, OneOrder
  <2>3. \A o \in Orders : o \in Orders'
    BY <1>11, <2>2 DEF NotReady, Orders
  <2>4. OrderOf(t, info[r]) \in Orders'
    BY <1>11, <2>1, <2>2, OrderOfIs DEF NotReady, Orders
  <2>5. active' = active /\ container' = container /\ warm' = warm /\ phase' = phase /\ left' = left
    BY <1>11 DEF NotReady
  <2>6. \A q \in Runs : q # r => pc'[q] = pc[q] /\ info'[q] = info[q]
    BY <1>11 DEF NotReady
  <2>7. Hits(OrderOf(t, info[r]), t, info[r].at)
    BY <2>1, OrderHits
  <2>8. \A u \in Threads : container[u] # 0 /\ Known(u) => Known(u)'
    BY <2>1, <2>3, <2>4, <2>5, <2>6, <2>7
  <2>. QED
    BY <2>5, <2>8
<1>12. ASSUME NEW r \in Runs, Raise(r) PROVE NothingForgotten'
  <2>1. Orders' = Orders
    BY <1>12, SameOrders DEF Raise
  <2>. QED
    BY <1>12, <2>1 DEF Raise
<1>13. ASSUME NEW r \in Runs, GetAcquired(r) PROVE NothingForgotten'
  <2>1. Orders' = Orders
    BY <1>13, SameOrders DEF GetAcquired, Use
  <2>. QED
    BY <1>13, <2>1 DEF GetAcquired, Use
<1>14. ASSUME NEW r \in Runs, NotFound(r) PROVE NothingForgotten'
  <2>1. Orders' = Orders
    BY <1>14, SameOrders DEF NotFound
  <2>. QED
    BY <1>14, <2>1 DEF NotFound
<1>15. ASSUME NEW r \in Runs, Release(r) PROVE NothingForgotten'
  <2>1. Orders' = Orders
    BY <1>15, SameOrders DEF Release
  <2>. QED
    BY <1>15, <2>1 DEF Release, OnePlace
<1>16. ASSUME NEW r \in Runs, Abandon(r) PROVE NothingForgotten'
  <2>1. Orders' = Orders
    BY <1>16, SameOrders DEF Abandon
  <2>. QED
    BY <1>16, <2>1 DEF Abandon
<1>17. ASSUME NEW a \in Actors, Stop(a) PROVE NothingForgotten'
  <2>1. \A o \in Orders : o = stop[a] \/ o \in Orders'
    BY <1>17 DEF Stop, Orders
  <2>2. stop[a].thread \in Threads
    BY <1>17 DEF Stop, Order
  <2>3. /\ active' = active /\ warm' = warm /\ pc' = pc /\ info' = info /\ phase' = phase
    BY <1>17 DEF Stop
  <2>4. \A t \in Threads :
          \/ container'[t] = 0
          \/ container'[t] = container[t] /\ t \in left'
          \/ container'[t] = container[t] /\ (t \in left => t \in left') /\ ~Hits(stop[a], t, container[t])
          \/ container[t] = 0 /\ container'[t] = container[t]
    BY <1>17, <2>2 DEF Stop, Hits
  <2>. QED
    BY <2>1, <2>3, <2>4
<1>18. ASSUME NEW t \in Threads, TimePasses(t) PROVE NothingForgotten'
  <2>1. Orders' = Orders
    BY <1>18, SameOrders DEF TimePasses
  <2>. QED
    BY <1>18, <2>1 DEF TimePasses
<1>19. ASSUME NEW t \in Threads, Recheck(t) PROVE NothingForgotten'
  <2>1. Orders' = Orders
    BY <1>19, SameOrders DEF Recheck
  <2>. QED
    BY <1>19, <2>1 DEF Recheck
<1>20. ASSUME NEW t \in Threads, DestroyActive(t) PROVE NothingForgotten'
  <2>0. Destroy(t) /\ t \in Threads /\ stop[Sweeper] = None
    BY <1>20 DEF DestroyActive, OneOrder
  <2>. DEFINE i == IF active[t] # None THEN active[t] ELSE warm[t]
  <2>1. stop' = IF i # None THEN [stop EXCEPT ![Sweeper] = OrderOf(t, i)] ELSE stop
    BY <2>0 DEF Destroy
  <2>2. queue' = queue /\ Sweeper \in Actors
    BY <2>0 DEF Destroy
  <2>3. \A o \in Orders : o \in Orders'
    BY <2>0, <2>1, <2>2 DEF Orders
  <2>4. i \in Info \cup {None} /\ (active[t] = None \/ warm[t] = None)
    BY <2>0 DEF OnePlace
  <2>5. i # None => OrderOf(t, i) \in Orders' /\ Hits(OrderOf(t, i), t, i.at)
    BY <2>0, <2>1, <2>2, <2>4, OrderOfIs, OrderHits DEF Orders
  <2>6. /\ container' = container /\ pc' = pc /\ info' = info /\ phase' = phase /\ left' = left
        /\ \A u \in Threads : u # t => active'[u] = active[u] /\ warm'[u] = warm[u]
    BY <2>0 DEF Destroy
  <2>7. \A u \in Threads : u # t /\ Known(u) => Known(u)'
    BY <2>3, <2>6
  <2>8. Known(t) => Known(t)'
    <3>. SUFFICES ASSUME Known(t) PROVE Known(t)'
      OBVIOUS
    <3>1. CASE \E j \in {active[t], warm[t]} : j # None /\ j.at = container[t]
      <4>1. i # None /\ i.at = container[t]
        BY <2>4, <3>1
      <4>2. OrderOf(t, i) \in Orders' /\ Hits(OrderOf(t, i), t, container'[t])
        BY <2>5, <2>6, <4>1
      <4>. QED
        BY <4>2
    <3>2. CASE \E r \in Runs : ThreadOf[r] = t /\ pc[r] = "ready" /\ info[r].at = container[t]
      BY <2>6, <3>2
    <3>3. CASE \E o \in Orders : Hits(o, t, container[t])
      BY <2>3, <2>6, <3>3
    <3>. QED
      BY <3>1, <3>2, <3>3
  <2>. HIDE DEF Known
  <2>. QED
    BY <2>0, <2>6, <2>7, <2>8
<1>21. CASE Sweep
  <2>. DEFINE W == idle \cap WarmSet
  <2>1. stop' = stop /\ queue' = {OrderOf(t, warm[t]) : t \in W} /\ queue = {}
    BY <1>21 DEF Sweep, Collect, Resting
  <2>2. \A t \in W : t \in Threads /\ warm[t] \in Info
    BY DEF WarmSet
  <2>3. \A o \in Orders : o \in Orders'
    BY <2>1 DEF Orders
  <2>4. \A t \in W : OrderOf(t, warm[t]) \in Orders' /\ Hits(OrderOf(t, warm[t]), t, warm[t].at)
    BY <2>1, <2>2, OrderHits DEF Orders
  <2>5. /\ active' = active /\ container' = container /\ pc' = pc /\ info' = info /\ left' = left
        /\ phase = "up" /\ \A t \in Threads : warm'[t] = IF t \in W THEN None ELSE warm[t]
    BY <1>21 DEF Sweep, Collect
  <2>6. \A t \in Threads : t \notin W /\ Known(t) => Known(t)'
    BY <2>3, <2>5
  <2>7. \A t \in Threads : t \in W /\ Known(t) => Known(t)'
    BY <2>3, <2>4, <2>5
  <2>. QED
    BY <2>5, <2>6, <2>7
<1>22. CASE DestroyIdle
  <2>0. PICK t \in Threads : Destroy(t) /\ stop[Sweeper] = None
    BY <1>22 DEF DestroyIdle, OneOrder
  <2>. DEFINE i == IF active[t] # None THEN active[t] ELSE warm[t]
  <2>1. stop' = IF i # None THEN [stop EXCEPT ![Sweeper] = OrderOf(t, i)] ELSE stop
    BY <2>0 DEF Destroy
  <2>2. queue' = queue /\ Sweeper \in Actors
    BY <2>0 DEF Destroy
  <2>3. \A o \in Orders : o \in Orders'
    BY <2>0, <2>1, <2>2 DEF Orders
  <2>4. i \in Info \cup {None} /\ (active[t] = None \/ warm[t] = None)
    BY <2>0 DEF OnePlace
  <2>5. i # None => OrderOf(t, i) \in Orders' /\ Hits(OrderOf(t, i), t, i.at)
    BY <2>0, <2>1, <2>2, <2>4, OrderOfIs, OrderHits DEF Orders
  <2>6. /\ container' = container /\ pc' = pc /\ info' = info /\ phase' = phase /\ left' = left
        /\ \A u \in Threads : u # t => active'[u] = active[u] /\ warm'[u] = warm[u]
    BY <2>0 DEF Destroy
  <2>7. \A u \in Threads : u # t /\ Known(u) => Known(u)'
    BY <2>3, <2>6
  <2>8. Known(t) => Known(t)'
    <3>. SUFFICES ASSUME Known(t) PROVE Known(t)'
      OBVIOUS
    <3>1. CASE \E j \in {active[t], warm[t]} : j # None /\ j.at = container[t]
      <4>1. i # None /\ i.at = container[t]
        BY <2>4, <3>1
      <4>2. OrderOf(t, i) \in Orders' /\ Hits(OrderOf(t, i), t, container'[t])
        BY <2>5, <2>6, <4>1
      <4>. QED
        BY <4>2
    <3>2. CASE \E r \in Runs : ThreadOf[r] = t /\ pc[r] = "ready" /\ info[r].at = container[t]
      BY <2>6, <3>2
    <3>3. CASE \E o \in Orders : Hits(o, t, container[t])
      BY <2>3, <2>6, <3>3
    <3>. QED
      BY <3>1, <3>2, <3>3
  <2>. HIDE DEF Known
  <2>. QED
    BY <2>0, <2>6, <2>7, <2>8
<1>23. CASE StopPopped
  <2>1. \A o \in Orders : o \in Orders'
    <3>1. stop[Sweeper] = None /\ Sweeper \in Actors
      BY <1>23 DEF StopPopped
    <3>2. PICK o \in queue : stop' = [stop EXCEPT ![Sweeper] = o] /\ queue' = queue \ {o}
      BY <1>23 DEF StopPopped
    <3>3. o # None
      BY <3>2
    <3>. QED
      BY <3>1, <3>2, <3>3 DEF Orders
  <2>. QED
    BY <1>23, <2>1 DEF StopPopped
<1>24. CASE Shutdown
  <2>. DEFINE W == WarmSet
  <2>1. stop' = stop /\ queue' = {OrderOf(t, warm[t]) : t \in W} /\ queue = {}
    BY <1>24 DEF Shutdown, Collect, Resting
  <2>2. \A t \in W : t \in Threads /\ warm[t] \in Info
    BY DEF WarmSet
  <2>3. \A o \in Orders : o \in Orders'
    BY <2>1 DEF Orders
  <2>4. \A t \in W : OrderOf(t, warm[t]) \in Orders' /\ Hits(OrderOf(t, warm[t]), t, warm[t].at)
    BY <2>1, <2>2, OrderHits DEF Orders
  <2>5. /\ active' = active /\ container' = container /\ pc' = pc /\ info' = info /\ left' = left
        /\ phase = "up" /\ \A t \in Threads : warm'[t] = IF t \in W THEN None ELSE warm[t]
    BY <1>24 DEF Shutdown, Collect
  <2>6. \A t \in Threads : t \notin W /\ Known(t) => Known(t)'
    BY <2>3, <2>5
  <2>7. \A t \in Threads : t \in W /\ Known(t) => Known(t)'
    BY <2>3, <2>4, <2>5
  <2>. QED
    BY <2>5, <2>6, <2>7
<1>25. CASE Exit
  BY <1>25 DEF Exit, Gone
<1>26. CASE Crash
  BY <1>26 DEF Crash, Gone
<1>27. CASE Restart
  <2>1. \A t \in Threads : container[t] # 0 => Found(t).at = container[t] /\ Found(t) # None
    BY FoundInfo
  <2>2. container' = container
    BY <1>27 DEF Restart
  <2>3. \A t \in Threads : container[t] # 0 => t \in left' \/ (warm'[t] # None /\ warm'[t].at = container[t])
    BY <1>27, <2>1 DEF Restart, Running
  <2>. QED
    BY <2>2, <2>3
<1>28. CASE UNCHANGED vars
  BY <1>28, SameOrders DEF vars
<1>. QED
  BY <1>1, <1>2, <1>3, <1>4, <1>5, <1>6, <1>7, <1>8, <1>9, <1>10, <1>11, <1>12, <1>13, <1>14, <1>15, <1>16, <1>17, <1>18, <1>19, <1>20, <1>21, <1>22, <1>23, <1>24, <1>25, <1>26, <1>27, <1>28
     DEF Next, RunStep, AcquireStep, CheckerStep, ShutdownStep

-----------------------------------------------------------------------------
(* The inductive invariant holds in every state: a sandbox is in one map   *)
(* at most and has one creator, an actor carries one order, and every      *)
(* container is known (acquire, release, destroy, _cleanup_idle_sandboxes, *)
(* _evict_oldest_warm, shutdown and _reconcile_orphans).                   *)
THEOREM Invariance == Spec => []IndInv
<1>1. IndInv /\ [Next]_vars => IndInv'
  <2>. SUFFICES ASSUME IndInv, [Next]_vars PROVE IndInv'
    OBVIOUS
  <2>. USE DEF IndInv
  <2>1. TypeOK' /\ Nothing'
    BY TypeInv, NothingInv
  <2>2. OnePlace' /\ OneCreator'
    BY PlaceInv
  <2>3. OneOrder' /\ ReadyOf'
    BY OrderInv, ReadyInv
  <2>4. Uncondemned'
    BY ServedInv
  <2>5. NothingForgotten'
    BY KnownInv
  <2>. QED
    BY <2>1, <2>2, <2>3, <2>4, <2>5
<1>. QED
  BY <1>1, InitInv, PTL DEF Spec

(* The variables keep their types.                                         *)
THEOREM TypeCorrect == Spec => []TypeOK
<1>1. IndInv => TypeOK
  BY DEF IndInv
<1>. QED
  BY <1>1, Invariance, PTL

(* No sandbox is in two maps, and no run registers over another's entry.   *)
THEOREM PlaceCorrect == Spec => []OnePlace
<1>1. IndInv => OnePlace
  BY DEF IndInv
<1>. QED
  BY <1>1, Invariance, PTL

(* Every container that runs is known to the provider or about to be       *)
(* stopped, docker's failures excepted.                                    *)
THEOREM KnownCorrect == Spec => []NothingForgotten
<1>1. IndInv => NothingForgotten
  BY DEF IndInv
<1>. QED
  BY <1>1, Invariance, PTL

(* What is in a map runs, unless it was adopted under an order to stop it. *)
THEOREM ServedCorrect == Spec => []ServedUnlessCondemned
<1>1. IndInv => ServedUnlessCondemned
  BY DEF IndInv, Uncondemned, ServedUnlessCondemned
<1>. QED
  BY <1>1, Invariance, PTL
=============================================================================
