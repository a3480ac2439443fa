-------------------------- MODULE RunLifecycleProofs --------------------------
(***************************************************************************)
(* Proofs about RunLifecycle: its inductive invariant, and the properties  *)
(* that follow from it, for any number of runs.  Each invariance lemma has *)
(* one step per action.                                                    *)
(***************************************************************************)
EXTENDS RunLifecycle, TLAPS

-----------------------------------------------------------------------------
(* What aborting a set of runs does to each run.                           *)
Aborted(S, how) ==
  /\ abort' \in [Run -> BOOLEAN]
  /\ action' \in [Run -> {"interrupt", "rollback"}]
  /\ cancelled' \in [Run -> BOOLEAN]
  /\ \A q \in S : abort'[q] /\ action'[q] = how
  /\ \A q \in S : TaskAlive(q) => cancelled'[q]
  /\ \A q \in S : ~TaskAlive(q) => cancelled'[q] = cancelled[q]
  /\ \A q \in Run \ S : /\ abort'[q] = abort[q]
                        /\ action'[q] = action[q]
                        /\ cancelled'[q] = cancelled[q]

(* AbortRuns, run by run.                                                  *)
LEMMA AbortFacts ==
  ASSUME TypeOK, NEW S \in SUBSET Run, NEW how \in {"interrupt", "rollback"},
         AbortRuns(S, how)
  PROVE  Aborted(S, how)
<1>1. abort' \in [Run -> BOOLEAN] /\ cancelled' \in [Run -> BOOLEAN]
  BY Zenon DEF AbortRuns, TypeOK
<1>2. action' \in [Run -> {"interrupt", "rollback"}]
  BY DEF AbortRuns, TypeOK
<1>3. \A q \in S : abort'[q] /\ action'[q] = how
  BY DEF AbortRuns, TypeOK
<1>4. \A q \in S : TaskAlive(q) => cancelled'[q]
  BY DEF AbortRuns, TypeOK
<1>5. \A q \in S : ~TaskAlive(q) => cancelled'[q] = cancelled[q]
  BY DEF AbortRuns, TypeOK
<1>6. \A q \in Run \ S : /\ abort'[q] = abort[q]
                       /\ action'[q] = action[q]
                       /\ cancelled'[q] = cancelled[q]
  BY DEF AbortRuns, TypeOK
<1>. QED  BY <1>1, <1>2, <1>3, <1>4, <1>5, <1>6 DEF Aborted

(* A refused conflict aside, a new run aborts whatever is in flight: with  *)
(* the reject strategy that is nothing.                                    *)
LEMMA CreateFacts ==
  ASSUME TypeOK, NEW r \in Run,
         NEW strategy \in {"reject", "interrupt", "rollback"},
         CreateOrReject(r, strategy)
  PROVE  /\ \E how \in {"interrupt", "rollback"} : Aborted(Inflight, how)
         /\ status' \in [Run -> RunStatus \cup {"none"}]
         /\ status'[r] = "pending"
         /\ \A q \in Inflight : q # r => status'[q] = "interrupted"
         /\ \A q \in Run \ Inflight : q # r => status'[q] = status[q]
<1>. DEFINE how == IF strategy = "reject" THEN "interrupt" ELSE strategy
<1>1. how \in {"interrupt", "rollback"}
  OBVIOUS
<1>2. CASE strategy = "reject"
  <2>1. Inflight = {} /\ UNCHANGED <<abort, action, cancelled>>
    BY <1>2 DEF CreateOrReject
  <2>2. Aborted(Inflight, how)
    BY <2>1 DEF Aborted, TypeOK
  <2>3. status' = [q \in Run |-> IF q = r THEN "pending" ELSE status[q]]
    BY <1>2, <2>1 DEF CreateOrReject
  <2>. QED  BY <1>1, <2>1, <2>2, <2>3 DEF TypeOK, RunStatus
<1>3. CASE strategy # "reject"
  <2>1. AbortRuns(Inflight, how)
    BY <1>3 DEF CreateOrReject
  <2>2. Aborted(Inflight, how)
    BY <1>1, <2>1, AbortFacts DEF Inflight
  <2>3. status' = [q \in Run |-> IF q = r THEN "pending"
                                 ELSE IF q \in Inflight THEN "interrupted"
                                        ELSE status[q]]
    BY <1>3 DEF CreateOrReject
  <2>4. \A q \in Inflight : q \in Run
    BY DEF Inflight
  <2>. QED  BY <1>1, <2>2, <2>3, <2>4 DEF TypeOK, RunStatus
<1>. QED  BY <1>2, <1>3

(* cancel aborts one run, which was in flight.                             *)
LEMMA CancelFacts ==
  ASSUME TypeOK, NEW r \in Run, NEW how \in {"interrupt", "rollback"},
         Cancel(r, how)
  PROVE  Aborted({r}, how) /\ r \in Inflight
  BY AbortFacts DEF Cancel

(* Every step keeps the types.                                             *)
LEMMA TypeInv == ASSUME TypeOK, Standing, [Next]_vars PROVE TypeOK'
<1> USE DEF vars, requestVars, graphVars, recordVars, GoTo
<1>1. ASSUME NEW r \in Run, NEW strategy \in {"reject", "interrupt", "rollback"},
             CreateOrReject(r, strategy)
      PROVE  TypeOK'
  BY <1>1, CreateFacts DEF TypeOK, Aborted, CreateOrReject, Place, Request
<1>2. ASSUME NEW r \in Run, NEW how \in {"interrupt", "rollback"}, Cancel(r, how)
      PROVE  TypeOK'
  BY <1>2, CancelFacts DEF TypeOK, Aborted, Cancel, RunStatus
<1>3. ASSUME NEW r \in Run, Persist(r)
      PROVE  TypeOK'
  BY <1>3 DEF TypeOK, Standing, StandingAt, RunStatus, Request, Driving,
     Leaving, Place, Outcome, Contribution, Persist
<1>4. ASSUME NEW r \in Run, LookupMeta(r)
      PROVE  TypeOK'
  BY <1>4 DEF TypeOK, Standing, StandingAt, RunStatus, Request, Driving,
     Leaving, Place, Outcome, Contribution, LookupMeta
<1>5. ASSUME NEW r \in Run, CreateMeta(r)
      PROVE  TypeOK'
  BY <1>5 DEF TypeOK, Standing, StandingAt, RunStatus, Request, Driving,
     Leaving, Place, Outcome, Contribution, CreateMeta
<1>6. ASSUME NEW r \in Run, TouchMeta(r)
      PROVE  TypeOK'
  BY <1>6 DEF TypeOK, Standing, StandingAt, RunStatus, Request, Driving,
     Leaving, Place, Outcome, Contribution, TouchMeta
<1>7. ASSUME NEW r \in Run, Launch(r)
      PROVE  TypeOK'
  BY <1>7 DEF TypeOK, Standing, StandingAt, RunStatus, Request, Driving,
     Leaving, Place, Outcome, Contribution, Launch
<1>8. ASSUME NEW r \in Run, NeverStart(r)
      PROVE  TypeOK'
  BY <1>8 DEF TypeOK, Standing, StandingAt, RunStatus, Request, Driving,
     Leaving, Place, Outcome, Contribution, NeverStart
<1>9. ASSUME NEW r \in Run, Start(r)
      PROVE  TypeOK'
  BY <1>9 DEF TypeOK, Standing, StandingAt, RunStatus, Request, Driving,
     Leaving, Place, Outcome, Contribution, Start
<1>10. ASSUME NEW r \in Run, Mark(r)
      PROVE  TypeOK'
  BY <1>10 DEF TypeOK, Standing, StandingAt, RunStatus, Request, Driving,
     Leaving, Place, Outcome, Contribution, Mark
<1>11. ASSUME NEW r \in Run, Capture(r)
      PROVE  TypeOK'
  BY <1>11 DEF TypeOK, Standing, StandingAt, RunStatus, Request, Driving,
     Leaving, Place, Outcome, Contribution, Capture
<1>12. ASSUME NEW r \in Run, DeliverCancel(r)
      PROVE  TypeOK'
  BY <1>12 DEF TypeOK, Standing, StandingAt, RunStatus, Request, Driving,
     Leaving, Place, Outcome, Contribution, DeliverCancel, SettleAborted
<1>13. ASSUME NEW r \in Run, StoreFinal(r)
      PROVE  TypeOK'
  BY <1>13 DEF TypeOK, Standing, StandingAt, RunStatus, Request, Driving,
     Leaving, Place, Outcome, Contribution, StoreFinal
<1>14. ASSUME NEW r \in Run, Restore(r)
      PROVE  TypeOK'
  BY <1>14 DEF TypeOK, Standing, StandingAt, RunStatus, Request, Driving,
     Leaving, Place, Outcome, Contribution, Restore
<1>15. ASSUME NEW r \in Run, Complete(r)
      PROVE  TypeOK'
  BY <1>15 DEF TypeOK, Standing, StandingAt, RunStatus, Request, Driving,
     Leaving, Place, Outcome, Contribution, Complete
<1>16. ASSUME NEW r \in Run, SyncMeta(r)
      PROVE  TypeOK'
  BY <1>16 DEF TypeOK, Standing, StandingAt, RunStatus, Request, Driving,
     Leaving, Place, Outcome, Contribution, SyncMeta
<1>17. ASSUME NEW r \in Run, PublishEnd(r)
      PROVE  TypeOK'
  BY <1>17 DEF TypeOK, Standing, StandingAt, RunStatus, Request, Driving,
     Leaving, Place, Outcome, Contribution, PublishEnd
<1>18. ASSUME NEW r \in Run, Load(r)
      PROVE  TypeOK'
  BY <1>18 DEF TypeOK, Standing, StandingAt, RunStatus, Request, Driving,
     Leaving, Place, Outcome, Contribution, Load
<1>19. ASSUME NEW r \in Run, GraphStep(r)
      PROVE  TypeOK'
  BY <1>19 DEF TypeOK, Standing, StandingAt, RunStatus, Request, Driving,
     Leaving, Place, Outcome, Contribution, GraphStep
<1>20. ASSUME NEW r \in Run, Succeed(r)
      PROVE  TypeOK'
  BY <1>20 DEF TypeOK, Standing, StandingAt, RunStatus, Request, Driving,
     Leaving, Place, Outcome, Contribution, Succeed
<1>21. ASSUME NEW r \in Run, Fail(r)
      PROVE  TypeOK'
  BY <1>21 DEF TypeOK, Standing, StandingAt, RunStatus, Request, Driving,
     Leaving, Place, Outcome, Contribution, Fail
<1>22. ASSUME NEW r \in Run, Stop(r)
      PROVE  TypeOK'
  BY <1>22 DEF TypeOK, Standing, StandingAt, RunStatus, Request, Driving,
     Leaving, Place, Outcome, Contribution, Stop, SettleAborted
<1>23. CASE UNCHANGED vars
  BY <1>23 DEF TypeOK, Standing, StandingAt, RunStatus, Request, Driving,
     Leaving, Place, Outcome, Contribution
<1>. QED  BY <1>1, <1>2, <1>3, <1>4, <1>5, <1>6, <1>7, <1>8, <1>9, <1>10,
   <1>11, <1>12, <1>13, <1>14, <1>15, <1>16, <1>17, <1>18, <1>19, <1>20,
   <1>21, <1>22, <1>23 DEF Next, Clients, StartRun, Worker, Graph

(* Every step keeps what a run's place says of its record.                 *)
LEMMA StandingInv == ASSUME TypeOK, Standing, [Next]_vars PROVE Standing'
<1> USE DEF vars, requestVars, graphVars, recordVars, GoTo
<1> SUFFICES ASSUME NEW q \in Run PROVE StandingAt(q)'
  BY DEF Standing
<1>1. ASSUME NEW r \in Run, NEW strategy \in {"reject", "interrupt", "rollback"},
             CreateOrReject(r, strategy)
      PROVE  StandingAt(q)'
  <2>1. PICK how \in {"interrupt", "rollback"} : Aborted(Inflight, how)
    BY <1>1, CreateFacts
  <2>2. /\ pc' = [pc EXCEPT ![r] = "persist"]
        /\ pc[r] = "new"
        /\ UNCHANGED <<store, ended>>
    BY <1>1 DEF CreateOrReject
  <2>3. CASE q = r
    <3>1. r \notin Inflight /\ r \in Run \ Inflight
      BY <2>2 DEF Standing, StandingAt, Inflight
    <3>2. pc'[r] = "persist" /\ status'[r] = "pending"
      BY <1>1, <2>2, CreateFacts DEF TypeOK
    <3>3. ~abort'[r] /\ ~cancelled'[r] /\ ~ended'[r]
      BY <2>1, <2>2, <3>1 DEF Standing, StandingAt, Aborted
    <3>. QED  BY <2>3, <3>2, <3>3 DEF StandingAt, Request, Driving, Leaving
  <2>4. CASE q # r /\ q \in Inflight
    <3>1. abort'[q] /\ status'[q] = "interrupted" /\ pc'[q] = pc[q]
      BY <1>1, <2>1, <2>2, <2>4, CreateFacts DEF Aborted, TypeOK
    <3>2. status[q] \in {"pending", "running"}
      BY <2>4 DEF Inflight
    <3>3. pc[q] \in Place /\ StandingAt(q) /\ ended'[q] = ended[q]
      BY <2>2 DEF TypeOK, Standing
    <3>. QED  BY <3>1, <3>2, <3>3 DEF StandingAt, Place, Request, Driving,
       Leaving
  <2>5. CASE q # r /\ q \notin Inflight
    <3>1. /\ status'[q] = status[q] /\ pc'[q] = pc[q] /\ store'[q] = store[q]
          /\ ended'[q] = ended[q] /\ abort'[q] = abort[q]
          /\ action'[q] = action[q] /\ cancelled'[q] = cancelled[q]
      BY <1>1, <2>1, <2>2, <2>5, CreateFacts DEF Aborted, TypeOK
    <3>. QED  BY <3>1 DEF Standing, StandingAt
  <2>. QED  BY <2>3, <2>4, <2>5
<1>2. ASSUME NEW r \in Run, NEW how \in {"interrupt", "rollback"}, Cancel(r, how)
      PROVE  StandingAt(q)'
  <2>1. Aborted({r}, how) /\ r \in Inflight
    BY <1>2, CancelFacts
  <2>2. /\ status' = [status EXCEPT ![r] = "interrupted"]
        /\ UNCHANGED <<pc, store, ended>>
    BY <1>2 DEF Cancel
  <2>3. CASE q = r
    <3>1. abort'[q] /\ status'[q] = "interrupted" /\ pc'[q] = pc[q]
      BY <2>1, <2>2, <2>3 DEF Aborted, TypeOK
    <3>2. status[q] \in {"pending", "running"}
      BY <2>1, <2>3 DEF Inflight
    <3>3. pc[q] \in Place /\ StandingAt(q) /\ ended'[q] = ended[q]
      BY <2>2 DEF TypeOK, Standing
    <3>. QED  BY <3>1, <3>2, <3>3 DEF StandingAt, Place, Request, Driving,
       Leaving
  <2>4. CASE q # r
    <3>1. /\ status'[q] = status[q] /\ pc'[q] = pc[q] /\ store'[q] = store[q]
          /\ ended'[q] = ended[q] /\ abort'[q] = abort[q]
          /\ action'[q] = action[q] /\ cancelled'[q] = cancelled[q]
      BY <2>1, <2>2, <2>4 DEF Aborted, TypeOK
    <3>. QED  BY <3>1 DEF Standing, StandingAt
  <2>. QED  BY <2>3, <2>4
<1>3. ASSUME NEW r \in Run, Persist(r)
      PROVE  StandingAt(q)'
  BY <1>3 DEF TypeOK, Standing, StandingAt, RunStatus, Request, Driving,
     Leaving, Place, Outcome, Persist
<1>4. ASSUME NEW r \in Run, LookupMeta(r)
      PROVE  StandingAt(q)'
  BY <1>4 DEF TypeOK, Standing, StandingAt, RunStatus, Request, Driving,
     Leaving, Place, Outcome, LookupMeta
<1>5. ASSUME NEW r \in Run, CreateMeta(r)
      PROVE  StandingAt(q)'
  BY <1>5 DEF TypeOK, Standing, StandingAt, RunStatus, Request, Driving,
     Leaving, Place, Outcome, CreateMeta
<1>6. ASSUME NEW r \in Run, TouchMeta(r)
      PROVE  StandingAt(q)'
  BY <1>6 DEF TypeOK, Standing, StandingAt, RunStatus, Request, Driving,
     Leaving, Place, Outcome, TouchMeta
<1>7. ASSUME NEW r \in Run, Launch(r)
      PROVE  StandingAt(q)'
  BY <1>7 DEF TypeOK, Standing, StandingAt, RunStatus, Request, Driving,
     Leaving, Place, Outcome, Launch
<1>8. ASSUME NEW r \in Run, NeverStart(r)
      PROVE  StandingAt(q)'
  BY <1>8 DEF TypeOK, Standing, StandingAt, RunStatus, Request, Driving,
     Leaving, Place, Outcome, NeverStart
<1>9. ASSUME NEW r \in Run, Start(r)
      PROVE  StandingAt(q)'
  BY <1>9 DEF TypeOK, Standing, StandingAt, RunStatus, Request, Driving,
     Leaving, Place, Outcome, Start
<1>10. ASSUME NEW r \in Run, Mark(r)
      PROVE  StandingAt(q)'
  BY <1>10 DEF TypeOK, Standing, StandingAt, RunStatus, Request, Driving,
     Leaving, Place, Outcome, Mark
<1>11. ASSUME NEW r \in Run, Capture(r)
      PROVE  StandingAt(q)'
  BY <1>11 DEF TypeOK, Standing, StandingAt, RunStatus, Request, Driving,
     Leaving, Place, Outcome, Capture
<1>12. ASSUME NEW r \in Run, DeliverCancel(r)
      PROVE  StandingAt(q)'
  BY <1>12 DEF TypeOK, Standing, StandingAt, RunStatus, Request, Driving,
     Leaving, Place, Outcome, DeliverCancel, SettleAborted
<1>13. ASSUME NEW r \in Run, StoreFinal(r)
      PROVE  StandingAt(q)'
  BY <1>13 DEF TypeOK, Standing, StandingAt, RunStatus, Request, Driving,
     Leaving, Place, Outcome, StoreFinal
<1>14. ASSUME NEW r \in Run, Restore(r)
      PROVE  StandingAt(q)'
  BY <1>14 DEF TypeOK, Standing, StandingAt, RunStatus, Request, Driving,
     Leaving, Place, Outcome, Restore
<1>15. ASSUME NEW r \in Run, Complete(r)
      PROVE  StandingAt(q)'
  BY <1>15 DEF TypeOK, Standing, StandingAt, RunStatus, Request, Driving,
     Leaving, Place, Outcome, Complete
<1>16. ASSUME NEW r \in Run, SyncMeta(r)
      PROVE  StandingAt(q)'
  BY <1>16 DEF TypeOK, Standing, StandingAt, RunStatus, Request, Driving,
     Leaving, Place, Outcome, SyncMeta
<1>17. ASSUME NEW r \in Run, PublishEnd(r)
      PROVE  StandingAt(q)'
  BY <1>17 DEF TypeOK, Standing, StandingAt, RunStatus, Request, Driving,
     Leaving, Place, Outcome, PublishEnd
<1>18. ASSUME NEW r \in Run, Load(r)
      PROVE  StandingAt(q)'
  BY <1>18 DEF TypeOK, Standing, StandingAt, RunStatus, Request, Driving,
     Leaving, Place, Outcome, Load
<1>19. ASSUME NEW r \in Run, GraphStep(r)
      PROVE  StandingAt(q)'
  BY <1>19 DEF TypeOK, Standing, StandingAt, RunStatus, Request, Driving,
     Leaving, Place, Outcome, GraphStep
<1>20. ASSUME NEW r \in Run, Succeed(r)
      PROVE  StandingAt(q)'
  BY <1>20 DEF TypeOK, Standing, StandingAt, RunStatus, Request, Driving,
     Leaving, Place, Outcome, Succeed
<1>21. ASSUME NEW r \in Run, Fail(r)
      PROVE  StandingAt(q)'
  BY <1>21 DEF TypeOK, Standing, StandingAt, RunStatus, Request, Driving,
     Leaving, Place, Outcome, Fail
<1>22. ASSUME NEW r \in Run, Stop(r)
      PROVE  StandingAt(q)'
  BY <1>22 DEF TypeOK, Standing, StandingAt, RunStatus, Request, Driving,
     Leaving, Place, Outcome, Stop, SettleAborted
<1>23. CASE UNCHANGED vars
  BY <1>23 DEF TypeOK, Standing, StandingAt, RunStatus, Request, Driving,
     Leaving, Place, Outcome
<1>. QED  BY <1>1, <1>2, <1>3, <1>4, <1>5, <1>6, <1>7, <1>8, <1>9, <1>10,
   <1>11, <1>12, <1>13, <1>14, <1>15, <1>16, <1>17, <1>18, <1>19, <1>20,
   <1>21, <1>22, <1>23 DEF Next, Clients, StartRun, Worker, Graph

(* The runs nobody has given up on.                                        *)
Wanted(r) == r \in Inflight /\ ~abort[r]

(* Only a new request makes a run wanted.                                  *)
LEMMA WantedShrinks ==
  ASSUME TypeOK, Standing, [Next]_vars,
         ~ \E r \in Run, strategy \in {"reject", "interrupt", "rollback"} :
             CreateOrReject(r, strategy),
         NEW q \in Run, Wanted(q)'
  PROVE  Wanted(q)
<1> USE DEF vars, requestVars, graphVars, recordVars, GoTo
<1>1. ASSUME NEW r \in Run, NEW strategy \in {"reject", "interrupt", "rollback"},
             CreateOrReject(r, strategy)
      PROVE  Wanted(q)
  BY <1>1
<1>2. ASSUME NEW r \in Run, NEW how \in {"interrupt", "rollback"}, Cancel(r, how)
      PROVE  Wanted(q)
  <2>1. status' = [status EXCEPT ![r] = "interrupted"]
    BY <1>2 DEF Cancel
  <2>2. q # r
    BY <2>1 DEF Wanted, Inflight, TypeOK
  <2>3. abort'[q] = abort[q]
    BY <1>2, <2>2, CancelFacts DEF Aborted
  <2>. QED  BY <2>1, <2>2, <2>3 DEF Wanted, Inflight, TypeOK
<1>3. ASSUME NEW r \in Run, Persist(r)
      PROVE  Wanted(q)
  BY <1>3 DEF TypeOK, Standing, StandingAt, Wanted, Inflight, Request,
     Driving, Leaving, Persist
<1>4. ASSUME NEW r \in Run, LookupMeta(r)
      PROVE  Wanted(q)
  BY <1>4 DEF TypeOK, Standing, StandingAt, Wanted, Inflight, Request,
     Driving, Leaving, LookupMeta
<1>5. ASSUME NEW r \in Run, CreateMeta(r)
      PROVE  Wanted(q)
  BY <1>5 DEF TypeOK, Standing, StandingAt, Wanted, Inflight, Request,
     Driving, Leaving, CreateMeta
<1>6. ASSUME NEW r \in Run, TouchMeta(r)
      PROVE  Wanted(q)
  BY <1>6 DEF TypeOK, Standing, StandingAt, Wanted, Inflight, Request,
     Driving, Leaving, TouchMeta
<1>7. ASSUME NEW r \in Run, Launch(r)
      PROVE  Wanted(q)
  BY <1>7 DEF TypeOK, Standing, StandingAt, Wanted, Inflight, Request,
     Driving, Leaving, Launch
<1>8. ASSUME NEW r \in Run, NeverStart(r)
      PROVE  Wanted(q)
  BY <1>8 DEF TypeOK, Standing, StandingAt, Wanted, Inflight, Request,
     Driving, Leaving, NeverStart
<1>9. ASSUME NEW r \in Run, Start(r)
      PROVE  Wanted(q)
  BY <1>9 DEF TypeOK, Standing, StandingAt, Wanted, Inflight, Request,
     Driving, Leaving, Start
<1>10. ASSUME NEW r \in Run, Mark(r)
      PROVE  Wanted(q)
  BY <1>10 DEF TypeOK, Standing, StandingAt, Wanted, Inflight, Request,
     Driving, Leaving, Mark
<1>11. ASSUME NEW r \in Run, Capture(r)
      PROVE  Wanted(q)
  BY <1>11 DEF TypeOK, Standing, StandingAt, Wanted, Inflight, Request,
     Driving, Leaving, Capture
<1>12. ASSUME NEW r \in Run, DeliverCancel(r)
      PROVE  Wanted(q)
  BY <1>12 DEF TypeOK, Standing, StandingAt, Wanted, Inflight, Request,
     Driving, Leaving, DeliverCancel, SettleAborted
<1>13. ASSUME NEW r \in Run, StoreFinal(r)
      PROVE  Wanted(q)
  BY <1>13 DEF TypeOK, Standing, StandingAt, Wanted, Inflight, Request,
     Driving, Leaving, StoreFinal
<1>14. ASSUME NEW r \in Run, Restore(r)
      PROVE  Wanted(q)
  BY <1>14 DEF TypeOK, Standing, StandingAt, Wanted, Inflight, Request,
     Driving, Leaving, Restore
<1>15. ASSUME NEW r \in Run, Complete(r)
      PROVE  Wanted(q)
  BY <1>15 DEF TypeOK, Standing, StandingAt, Wanted, Inflight, Request,
     Driving, Leaving, Complete
<1>16. ASSUME NEW r \in Run, SyncMeta(r)
      PROVE  Wanted(q)
  BY <1>16 DEF TypeOK, Standing, StandingAt, Wanted, Inflight, Request,
     Driving, Leaving, SyncMeta
<1>17. ASSUME NEW r \in Run, PublishEnd(r)
      PROVE  Wanted(q)
  BY <1>17 DEF TypeOK, Standing, StandingAt, Wanted, Inflight, Request,
     Driving, Leaving, PublishEnd
<1>18. ASSUME NEW r \in Run, Load(r)
      PROVE  Wanted(q)
  BY <1>18 DEF TypeOK, Standing, StandingAt, Wanted, Inflight, Request,
     Driving, Leaving, Load
<1>19. ASSUME NEW r \in Run, GraphStep(r)
      PROVE  Wanted(q)
  BY <1>19 DEF TypeOK, Standing, StandingAt, Wanted, Inflight, Request,
     Driving, Leaving, GraphStep
<1>20. ASSUME NEW r \in Run, Succeed(r)
      PROVE  Wanted(q)
  BY <1>20 DEF TypeOK, Standing, StandingAt, Wanted, Inflight, Request,
     Driving, Leaving, Succeed
<1>21. ASSUME NEW r \in Run, Fail(r)
      PROVE  Wanted(q)
  BY <1>21 DEF TypeOK, Standing, StandingAt, Wanted, Inflight, Request,
     Driving, Leaving, Fail
<1>22. ASSUME NEW r \in Run, Stop(r)
      PROVE  Wanted(q)
  BY <1>22 DEF TypeOK, Standing, StandingAt, Wanted, Inflight, Request,
     Driving, Leaving, Stop, SettleAborted
<1>23. CASE UNCHANGED vars
  BY <1>23 DEF TypeOK, Standing, StandingAt, Wanted, Inflight, Request,
     Driving, Leaving
<1>. QED  BY <1>1, <1>2, <1>3, <1>4, <1>5, <1>6, <1>7, <1>8, <1>9, <1>10,
   <1>11, <1>12, <1>13, <1>14, <1>15, <1>16, <1>17, <1>18, <1>19, <1>20,
   <1>21, <1>22, <1>23 DEF Next, Clients, StartRun, Worker, Graph

(* A new run is the only wanted one; no other step adds one.               *)
LEMMA OneLiveInv ==
  ASSUME TypeOK, Standing, AtMostOneLive, [Next]_vars PROVE AtMostOneLive'
<1> SUFFICES ASSUME NEW p \in Run, NEW q \in Run, Wanted(p)', Wanted(q)'
             PROVE  p = q
  BY DEF AtMostOneLive, Wanted
<1>1. ASSUME NEW r \in Run, NEW strategy \in {"reject", "interrupt", "rollback"},
             CreateOrReject(r, strategy)
      PROVE  p = q
  <2>1. PICK how \in {"interrupt", "rollback"} : Aborted(Inflight, how)
    BY <1>1, CreateFacts
  <2>2. ASSUME NEW x \in Run, Wanted(x)' PROVE x = r
    <3>1. x \notin Inflight
      BY <2>1, <2>2 DEF Aborted, Wanted
    <3>2. CASE x # r
      BY <1>1, <2>2, <3>1, <3>2, CreateFacts DEF Wanted, Inflight
    <3>. QED  BY <3>2
  <2>. QED  BY <2>2
<1>2. CASE ~ \E r \in Run, strategy \in {"reject", "interrupt", "rollback"} :
               CreateOrReject(r, strategy)
  BY <1>2, WantedShrinks DEF AtMostOneLive, Wanted
<1>. QED  BY <1>1, <1>2

(* success is written only to a run nobody has aborted.                    *)
LEMMA SuccessInv ==
  ASSUME TypeOK, Standing, AbortedNeverSucceeds, [Next]_vars
  PROVE  AbortedNeverSucceeds'
<1> USE DEF vars, requestVars, graphVars, recordVars, GoTo
<1> SUFFICES ASSUME NEW q \in Run, status'[q] = "success" PROVE ~abort'[q]
  BY DEF AbortedNeverSucceeds
<1>1. ASSUME NEW r \in Run, NEW strategy \in {"reject", "interrupt", "rollback"},
             CreateOrReject(r, strategy)
      PROVE  ~abort'[q]
  <2>1. PICK how \in {"interrupt", "rollback"} : Aborted(Inflight, how)
    BY <1>1, CreateFacts
  <2>2. q # r /\ q \notin Inflight /\ status[q] = "success"
    BY <1>1, CreateFacts DEF Inflight
  <2>. QED  BY <2>1, <2>2 DEF Aborted, AbortedNeverSucceeds
<1>2. ASSUME NEW r \in Run, NEW how \in {"interrupt", "rollback"}, Cancel(r, how)
      PROVE  ~abort'[q]
  <2>1. q # r /\ status[q] = "success"
    BY <1>2 DEF Cancel, TypeOK
  <2>. QED  BY <1>2, <2>1, CancelFacts DEF Aborted, AbortedNeverSucceeds
<1>3. ASSUME NEW r \in Run, Persist(r)
      PROVE  ~abort'[q]
  BY <1>3 DEF AbortedNeverSucceeds, TypeOK, Standing, StandingAt, Request,
     Driving, Leaving, Persist
<1>4. ASSUME NEW r \in Run, LookupMeta(r)
      PROVE  ~abort'[q]
  BY <1>4 DEF AbortedNeverSucceeds, TypeOK, Standing, StandingAt, Request,
     Driving, Leaving, LookupMeta
<1>5. ASSUME NEW r \in Run, CreateMeta(r)
      PROVE  ~abort'[q]
  BY <1>5 DEF AbortedNeverSucceeds, TypeOK, Standing, StandingAt, Request,
     Driving, Leaving, CreateMeta
<1>6. ASSUME NEW r \in Run, TouchMeta(r)
      PROVE  ~abort'[q]
  BY <1>6 DEF AbortedNeverSucceeds, TypeOK, Standing, StandingAt, Request,
     Driving, Leaving, TouchMeta
<1>7. ASSUME NEW r \in Run, Launch(r)
      PROVE  ~abort'[q]
  BY <1>7 DEF AbortedNeverSucceeds, TypeOK, Standing, StandingAt, Request,
     Driving, Leaving, Launch
<1>8. ASSUME NEW r \in Run, NeverStart(r)
      PROVE  ~abort'[q]
  BY <1>8 DEF AbortedNeverSucceeds, TypeOK, Standing, StandingAt, Request,
     Driving, Leaving, NeverStart
<1>9. ASSUME NEW r \in Run, Start(r)
      PROVE  ~abort'[q]
  BY <1>9 DEF AbortedNeverSucceeds, TypeOK, Standing, StandingAt, Request,
     Driving, Leaving, Start
<1>10. ASSUME NEW r \in Run, Mark(r)
      PROVE  ~abort'[q]
  BY <1>10 DEF AbortedNeverSucceeds, TypeOK, Standing, StandingAt, Request,
     Driving, Leaving, Mark
<1>11. ASSUME NEW r \in Run, Capture(r)
      PROVE  ~abort'[q]
  BY <1>11 DEF AbortedNeverSucceeds, TypeOK, Standing, StandingAt, Request,
     Driving, Leaving, Capture
<1>12. ASSUME NEW r \in Run, DeliverCancel(r)
      PROVE  ~abort'[q]
  BY <1>12 DEF AbortedNeverSucceeds, TypeOK, Standing, StandingAt, Request,
     Driving, Leaving, DeliverCancel, SettleAborted
<1>13. ASSUME NEW r \in Run, StoreFinal(r)
      PROVE  ~abort'[q]
  BY <1>13 DEF AbortedNeverSucceeds, TypeOK, Standing, StandingAt, Request,
     Driving, Leaving, StoreFinal
<1>14. ASSUME NEW r \in Run, Restore(r)
      PROVE  ~abort'[q]
  BY <1>14 DEF AbortedNeverSucceeds, TypeOK, Standing, StandingAt, Request,
     Driving, Leaving, Restore
<1>15. ASSUME NEW r \in Run, Complete(r)
      PROVE  ~abort'[q]
  BY <1>15 DEF AbortedNeverSucceeds, TypeOK, Standing, StandingAt, Request,
     Driving, Leaving, Complete
<1>16. ASSUME NEW r \in Run, SyncMeta(r)
      PROVE  ~abort'[q]
  BY <1>16 DEF AbortedNeverSucceeds, TypeOK, Standing, StandingAt, Request,
     Driving, Leaving, SyncMeta
<1>17. ASSUME NEW r \in Run, PublishEnd(r)
      PROVE  ~abort'[q]
  BY <1>17 DEF AbortedNeverSucceeds, TypeOK, Standing, StandingAt, Request,
     Driving, Leaving, PublishEnd
<1>18. ASSUME NEW r \in Run, Load(r)
      PROVE  ~abort'[q]
  BY <1>18 DEF AbortedNeverSucceeds, TypeOK, Standing, StandingAt, Request,
     Driving, Leaving, Load
<1>19. ASSUME NEW r \in Run, GraphStep(r)
      PROVE  ~abort'[q]
  BY <1>19 DEF AbortedNeverSucceeds, TypeOK, Standing, StandingAt, Request,
     Driving, Leaving, GraphStep
<1>20. ASSUME NEW r \in Run, Succeed(r)
      PROVE  ~abort'[q]
  BY <1>20 DEF AbortedNeverSucceeds, TypeOK, Standing, StandingAt, Request,
     Driving, Leaving, Succeed
<1>21. ASSUME NEW r \in Run, Fail(r)
      PROVE  ~abort'[q]
  BY <1>21 DEF AbortedNeverSucceeds, TypeOK, Standing, StandingAt, Request,
     Driving, Leaving, Fail
<1>22. ASSUME NEW r \in Run, Stop(r)
      PROVE  ~abort'[q]
  BY <1>22 DEF AbortedNeverSucceeds, TypeOK, Standing, StandingAt, Request,
     Driving, Leaving, Stop, SettleAborted
<1>23. CASE UNCHANGED vars
  BY <1>23 DEF AbortedNeverSucceeds, TypeOK, Standing, StandingAt, Request,
     Driving, Leaving
<1>. QED  BY <1>1, <1>2, <1>3, <1>4, <1>5, <1>6, <1>7, <1>8, <1>9, <1>10,
   <1>11, <1>12, <1>13, <1>14, <1>15, <1>16, <1>17, <1>18, <1>19, <1>20,
   <1>21, <1>22, <1>23 DEF Next, Clients, StartRun, Worker, Graph

(* A missing metadata row is made before a run is launched.                *)
LEMMA MetaMissingInv ==
  ASSUME TypeOK, Standing, MetaOwned, [Next]_vars, NEW q \in Run, meta' = "none"
  PROVE  pc'[q] \in {"new", "persist", "lookup", "create"}
<1> USE DEF vars, requestVars, graphVars, recordVars, GoTo
<1>1. ASSUME NEW r \in Run, NEW strategy \in {"reject", "interrupt", "rollback"},
             CreateOrReject(r, strategy)
      PROVE  pc'[q] \in {"new", "persist", "lookup", "create"}
  BY <1>1 DEF TypeOK, Standing, StandingAt, MetaOwned, Leaving, Driving,
     RunStatus, CreateOrReject, AbortRuns, Inflight, TaskAlive
<1>2. ASSUME NEW r \in Run, NEW how \in {"interrupt", "rollback"}, Cancel(r, how)
      PROVE  pc'[q] \in {"new", "persist", "lookup", "create"}
  BY <1>2 DEF TypeOK, Standing, StandingAt, MetaOwned, Leaving, Driving,
     RunStatus, Cancel, AbortRuns, Inflight, TaskAlive
<1>3. ASSUME NEW r \in Run, Persist(r)
      PROVE  pc'[q] \in {"new", "persist", "lookup", "create"}
  BY <1>3 DEF TypeOK, Standing, StandingAt, MetaOwned, Leaving, Driving,
     RunStatus, Persist
<1>4. ASSUME NEW r \in Run, LookupMeta(r)
      PROVE  pc'[q] \in {"new", "persist", "lookup", "create"}
  BY <1>4 DEF TypeOK, Standing, StandingAt, MetaOwned, Leaving, Driving,
     RunStatus, LookupMeta
<1>5. ASSUME NEW r \in Run, CreateMeta(r)
      PROVE  pc'[q] \in {"new", "persist", "lookup", "create"}
  BY <1>5 DEF TypeOK, Standing, StandingAt, MetaOwned, Leaving, Driving,
     RunStatus, CreateMeta
<1>6. ASSUME NEW r \in Run, TouchMeta(r)
      PROVE  pc'[q] \in {"new", "persist", "lookup", "create"}
  BY <1>6 DEF TypeOK, Standing, StandingAt, MetaOwned, Leaving, Driving,
     RunStatus, TouchMeta
<1>7. ASSUME NEW r \in Run, Launch(r)
      PROVE  pc'[q] \in {"new", "persist", "lookup", "create"}
  BY <1>7 DEF TypeOK, Standing, StandingAt, MetaOwned, Leaving, Driving,
     RunStatus, Launch
<1>8. ASSUME NEW r \in Run, NeverStart(r)
      PROVE  pc'[q] \in {"new", "persist", "lookup", "create"}
  BY <1>8 DEF TypeOK, Standing, StandingAt, MetaOwned, Leaving, Driving,
     RunStatus, NeverStart
<1>9. ASSUME NEW r \in Run, Start(r)
      PROVE  pc'[q] \in {"new", "persist", "lookup", "create"}
  BY <1>9 DEF TypeOK, Standing, StandingAt, MetaOwned, Leaving, Driving,
     RunStatus, Start
<1>10. ASSUME NEW r \in Run, Mark(r)
      PROVE  pc'[q] \in {"new", "persist", "lookup", "create"}
  BY <1>10 DEF TypeOK, Standing, StandingAt, MetaOwned, Leaving, Driving,
     RunStatus, Mark
<1>11. ASSUME NEW r \in Run, Capture(r)
      PROVE  pc'[q] \in {"new", "persist", "lookup", "create"}
  BY <1>11 DEF TypeOK, Standing, StandingAt, MetaOwned, Leaving, Driving,
     RunStatus, Capture
<1>12. ASSUME NEW r \in Run, DeliverCancel(r)
      PROVE  pc'[q] \in {"new", "persist", "lookup", "create"}
  BY <1>12 DEF TypeOK, Standing, StandingAt, MetaOwned, Leaving, Driving,
     RunStatus, DeliverCancel, SettleAborted
<1>13. ASSUME NEW r \in Run, StoreFinal(r)
      PROVE  pc'[q] \in {"new", "persist", "lookup", "create"}
  BY <1>13 DEF TypeOK, Standing, StandingAt, MetaOwned, Leaving, Driving,
     RunStatus, StoreFinal
<1>14. ASSUME NEW r \in Run, Restore(r)
      PROVE  pc'[q] \in {"new", "persist", "lookup", "create"}
  BY <1>14 DEF TypeOK, Standing, StandingAt, MetaOwned, Leaving, Driving,
     RunStatus, Restore
<1>15. ASSUME NEW r \in Run, Complete(r)
      PROVE  pc'[q] \in {"new", "persist", "lookup", "create"}
  BY <1>15 DEF TypeOK, Standing, StandingAt, MetaOwned, Leaving, Driving,
     RunStatus, Complete
<1>16. ASSUME NEW r \in Run, SyncMeta(r)
      PROVE  pc'[q] \in {"new", "persist", "lookup", "create"}
  BY <1>16 DEF TypeOK, Standing, StandingAt, MetaOwned, Leaving, Driving,
     RunStatus, SyncMeta
<1>17. ASSUME NEW r \in Run, PublishEnd(r)
      PROVE  pc'[q] \in {"new", "persist", "lookup", "create"}
  BY <1>17 DEF TypeOK, Standing, StandingAt, MetaOwned, Leaving, Driving,
     RunStatus, PublishEnd
<1>18. ASSUME NEW r \in Run, Load(r)
      PROVE  pc'[q] \in {"new", "persist", "lookup", "create"}
  BY <1>18 DEF TypeOK, Standing, StandingAt, MetaOwned, Leaving, Driving,
     RunStatus, Load
<1>19. ASSUME NEW r \in Run, GraphStep(r)
      PROVE  pc'[q] \in {"new", "persist", "lookup", "create"}
  BY <1>19 DEF TypeOK, Standing, StandingAt, MetaOwned, Leaving, Driving,
     RunStatus, GraphStep
<1>20. ASSUME NEW r \in Run, Succeed(r)
      PROVE  pc'[q] \in {"new", "persist", "lookup", "create"}
  BY <1>20 DEF TypeOK, Standing, StandingAt, MetaOwned, Leaving, Driving,
     RunStatus, Succeed
<1>21. ASSUME NEW r \in Run, Fail(r)
      PROVE  pc'[q] \in {"new", "persist", "lookup", "create"}
  BY <1>21 DEF TypeOK, Standing, StandingAt, MetaOwned, Leaving, Driving,
     RunStatus, Fail
<1>22. ASSUME NEW r \in Run, Stop(r)
      PROVE  pc'[q] \in {"new", "persist", "lookup", "create"}
  BY <1>22 DEF TypeOK, Standing, StandingAt, MetaOwned, Leaving, Driving,
     RunStatus, Stop, SettleAborted
<1>23. CASE UNCHANGED vars
  BY <1>23 DEF TypeOK, Standing, StandingAt, MetaOwned, Leaving, Driving,
     RunStatus
<1>. QED  BY <1>1, <1>2, <1>3, <1>4, <1>5, <1>6, <1>7, <1>8, <1>9, <1>10,
   <1>11, <1>12, <1>13, <1>14, <1>15, <1>16, <1>17, <1>18, <1>19, <1>20,
   <1>21, <1>22, <1>23 DEF Next, Clients, StartRun, Worker, Graph

(* Until it writes the row a run is still going to.                        *)
LEMMA WillSyncStays ==
  ASSUME TypeOK, Standing, [Next]_vars, NEW q \in Run, WillSync(q),
         ~ \E r \in Run : SyncMeta(r)
  PROVE  WillSync(q)'
<1> USE DEF vars, requestVars, graphVars, recordVars, GoTo
<1>1. ASSUME NEW r \in Run, NEW strategy \in {"reject", "interrupt", "rollback"},
             CreateOrReject(r, strategy)
      PROVE  WillSync(q)'
  BY <1>1 DEF TypeOK, WillSync, Driving, Leaving, CreateOrReject, AbortRuns,
     Inflight, TaskAlive
<1>2. ASSUME NEW r \in Run, NEW how \in {"interrupt", "rollback"}, Cancel(r, how)
      PROVE  WillSync(q)'
  BY <1>2 DEF TypeOK, WillSync, Driving, Leaving, Cancel, AbortRuns, Inflight,
     TaskAlive
<1>3. ASSUME NEW r \in Run, Persist(r)
      PROVE  WillSync(q)'
  BY <1>3 DEF TypeOK, WillSync, Driving, Leaving, Persist
<1>4. ASSUME NEW r \in Run, LookupMeta(r)
      PROVE  WillSync(q)'
  BY <1>4 DEF TypeOK, WillSync, Driving, Leaving, LookupMeta
<1>5. ASSUME NEW r \in Run, CreateMeta(r)
      PROVE  WillSync(q)'
  BY <1>5 DEF TypeOK, WillSync, Driving, Leaving, CreateMeta
<1>6. ASSUME NEW r \in Run, TouchMeta(r)
      PROVE  WillSync(q)'
  BY <1>6 DEF TypeOK, WillSync, Driving, Leaving, TouchMeta
<1>7. ASSUME NEW r \in Run, Launch(r)
      PROVE  WillSync(q)'
  BY <1>7 DEF TypeOK, WillSync, Driving, Leaving, Launch
<1>8. ASSUME NEW r \in Run, NeverStart(r)
      PROVE  WillSync(q)'
  BY <1>8 DEF TypeOK, WillSync, Driving, Leaving, NeverStart
<1>9. ASSUME NEW r \in Run, Start(r)
      PROVE  WillSync(q)'
  BY <1>9 DEF TypeOK, WillSync, Driving, Leaving, Start
<1>10. ASSUME NEW r \in Run, Mark(r)
      PROVE  WillSync(q)'
  BY <1>10 DEF TypeOK, WillSync, Driving, Leaving, Mark
<1>11. ASSUME NEW r \in Run, Capture(r)
      PROVE  WillSync(q)'
  BY <1>11 DEF TypeOK, WillSync, Driving, Leaving, Capture
<1>12. ASSUME NEW r \in Run, DeliverCancel(r)
      PROVE  WillSync(q)'
  BY <1>12 DEF TypeOK, WillSync, Driving, Leaving, DeliverCancel, SettleAborted
<1>13. ASSUME NEW r \in Run, StoreFinal(r)
      PROVE  WillSync(q)'
  BY <1>13 DEF TypeOK, WillSync, Driving, Leaving, StoreFinal
<1>14. ASSUME NEW r \in Run, Restore(r)
      PROVE  WillSync(q)'
  BY <1>14 DEF TypeOK, WillSync, Driving, Leaving, Restore
<1>15. ASSUME NEW r \in Run, Complete(r)
      PROVE  WillSync(q)'
  BY <1>15 DEF TypeOK, WillSync, Driving, Leaving, Complete
<1>16. ASSUME NEW r \in Run, SyncMeta(r)
      PROVE  WillSync(q)'
  BY <1>16
<1>17. ASSUME NEW r \in Run, PublishEnd(r)
      PROVE  WillSync(q)'
  BY <1>17 DEF TypeOK, WillSync, Driving, Leaving, PublishEnd
<1>18. ASSUME NEW r \in Run, Load(r)
      PROVE  WillSync(q)'
  BY <1>18 DEF TypeOK, WillSync, Driving, Leaving, Load
<1>19. ASSUME NEW r \in Run, GraphStep(r)
      PROVE  WillSync(q)'
  BY <1>19 DEF TypeOK, WillSync, Driving, Leaving, GraphStep
<1>20. ASSUME NEW r \in Run, Succeed(r)
      PROVE  WillSync(q)'
  BY <1>20 DEF TypeOK, WillSync, Driving, Leaving, Succeed
<1>21. ASSUME NEW r \in Run, Fail(r)
      PROVE  WillSync(q)'
  BY <1>21 DEF TypeOK, WillSync, Driving, Leaving, Fail
<1>22. ASSUME NEW r \in Run, Stop(r)
      PROVE  WillSync(q)'
  BY <1>22 DEF TypeOK, WillSync, Driving, Leaving, Stop, SettleAborted
<1>23. CASE UNCHANGED vars
  BY <1>23 DEF TypeOK, WillSync, Driving, Leaving
<1>. QED  BY <1>1, <1>2, <1>3, <1>4, <1>5, <1>6, <1>7, <1>8, <1>9, <1>10,
   <1>11, <1>12, <1>13, <1>14, <1>15, <1>16, <1>17, <1>18, <1>19, <1>20,
   <1>21, <1>22, <1>23 DEF Next, Clients, StartRun, Worker, Graph

(* Whoever marks the row running is still going to write it.               *)
LEMMA MetaRunningInv ==
  ASSUME TypeOK, Standing, MetaOwned, [Next]_vars, meta' = "running"
  PROVE  \E r \in Run : WillSync(r)'
<1>1. ~ \E r \in Run : SyncMeta(r)
  BY DEF SyncMeta, TypeOK, Standing, StandingAt, Leaving
<1>2. CASE meta = "running"
  <2>1. PICK q \in Run : WillSync(q)
    BY <1>2 DEF MetaOwned
  <2>. QED  BY <1>1, <2>1, WillSyncStays
<1>3. CASE meta # "running"
  <2>1. PICK r \in Run : TouchMeta(r)
    BY <1>1, <1>3 DEF Next, Clients, StartRun, Worker, Graph, CreateOrReject,
       Cancel, Persist, LookupMeta, CreateMeta, Launch, NeverStart, Start, Mark,
       Capture, DeliverCancel, StoreFinal, Restore, Complete, PublishEnd, Load,
       GraphStep, Succeed, Fail, Stop, vars, requestVars, graphVars, recordVars
  <2>. QED  BY <2>1 DEF TouchMeta, GoTo, WillSync, TypeOK
<1>. QED  BY <1>2, <1>3

(* Every step keeps the two halves of MetaOwned.                           *)
LEMMA MetaInv ==
  ASSUME TypeOK, Standing, MetaOwned, [Next]_vars PROVE MetaOwned'
<1>1. ASSUME meta' = "none", NEW q \in Run
      PROVE  pc'[q] \in {"new", "persist", "lookup", "create"}
  BY <1>1, MetaMissingInv
<1>2. ASSUME meta' = "running" PROVE \E r \in Run : WillSync(r)'
  BY <1>2, MetaRunningInv
<1>. QED  BY <1>1, <1>2 DEF MetaOwned


(* Nobody clears an abort event.                                           *)
LEMMA AbortStays ==
  ASSUME TypeOK, [Next]_vars, NEW q \in Run, abort[q] PROVE abort'[q]
<1> USE DEF vars, requestVars, graphVars, recordVars, GoTo
<1>1. ASSUME NEW r \in Run, NEW strategy \in {"reject", "interrupt", "rollback"},
             CreateOrReject(r, strategy)
      PROVE  abort'[q]
  BY <1>1, CreateFacts DEF Aborted
<1>2. ASSUME NEW r \in Run, NEW how \in {"interrupt", "rollback"}, Cancel(r, how)
      PROVE  abort'[q]
  BY <1>2, CancelFacts DEF Aborted
<1>3. ASSUME NEW r \in Run, Persist(r)
      PROVE  abort'[q]
  BY <1>3 DEF Persist
<1>4. ASSUME NEW r \in Run, LookupMeta(r)
      PROVE  abort'[q]
  BY <1>4 DEF LookupMeta
<1>5. ASSUME NEW r \in Run, CreateMeta(r)
      PROVE  abort'[q]
  BY <1>5 DEF CreateMeta
<1>6. ASSUME NEW r \in Run, TouchMeta(r)
      PROVE  abort'[q]
  BY <1>6 DEF TouchMeta
<1>7. ASSUME NEW r \in Run, Launch(r)
      PROVE  abort'[q]
  BY <1>7 DEF Launch
<1>8. ASSUME NEW r \in Run, NeverStart(r)
      PROVE  abort'[q]
  BY <1>8 DEF NeverStart
<1>9. ASSUME NEW r \in Run, Start(r)
      PROVE  abort'[q]
  BY <1>9 DEF Start
<1>10. ASSUME NEW r \in Run, Mark(r)
      PROVE  abort'[q]
  BY <1>10 DEF Mark
<1>11. ASSUME NEW r \in Run, Capture(r)
      PROVE  abort'[q]
  BY <1>11 DEF Capture
<1>12. ASSUME NEW r \in Run, DeliverCancel(r)
      PROVE  abort'[q]
  BY <1>12 DEF DeliverCancel
<1>13. ASSUME NEW r \in Run, StoreFinal(r)
      PROVE  abort'[q]
  BY <1>13 DEF StoreFinal
<1>14. ASSUME NEW r \in Run, Restore(r)
      PROVE  abort'[q]
  BY <1>14 DEF Restore
<1>15. ASSUME NEW r \in Run, Complete(r)
      PROVE  abort'[q]
  BY <1>15 DEF Complete
<1>16. ASSUME NEW r \in Run, SyncMeta(r)
      PROVE  abort'[q]
  BY <1>16 DEF SyncMeta
<1>17. ASSUME NEW r \in Run, PublishEnd(r)
      PROVE  abort'[q]
  BY <1>17 DEF PublishEnd
<1>18. ASSUME NEW r \in Run, Load(r)
      PROVE  abort'[q]
  BY <1>18 DEF Load
<1>19. ASSUME NEW r \in Run, GraphStep(r)
      PROVE  abort'[q]
  BY <1>19 DEF GraphStep
<1>20. ASSUME NEW r \in Run, Succeed(r)
      PROVE  abort'[q]
  BY <1>20 DEF Succeed
<1>21. ASSUME NEW r \in Run, Fail(r)
      PROVE  abort'[q]
  BY <1>21 DEF Fail
<1>22. ASSUME NEW r \in Run, Stop(r)
      PROVE  abort'[q]
  BY <1>22 DEF Stop
<1>23. CASE UNCHANGED vars
  BY <1>23
<1>. QED  BY <1>1, <1>2, <1>3, <1>4, <1>5, <1>6, <1>7, <1>8, <1>9, <1>10,
   <1>11, <1>12, <1>13, <1>14, <1>15, <1>16, <1>17, <1>18, <1>19, <1>20,
   <1>21, <1>22, <1>23 DEF Next, Clients, StartRun, Worker, Graph

(* Two graphs at work would both be wanted, if nobody was aborted.         *)
LEMMA OneGraph ==
  ASSUME Standing, AtMostOneLive, \A q \in Run : ~abort[q],
         NEW p \in Run, NEW q \in Run, pc[p] = "streaming", pc[q] = "streaming"
  PROVE  p = q
  BY DEF Standing, StandingAt, AtMostOneLive, Inflight, Driving

(* Without aborts, only the graph that holds the checkpoint writes it.     *)
LEMMA GraphInv ==
  ASSUME TypeOK, Standing, AtMostOneLive, GraphCurrent, [Next]_vars
  PROVE  GraphCurrent'
<1> USE DEF vars, requestVars, graphVars, recordVars, GoTo
<1> SUFFICES ASSUME \A q \in Run : ~abort'[q], NEW q \in Run
             PROVE  /\ pc'[q] = "streaming" => base'[q] = ckpt'
                    /\ status'[q] = "success" => q \in ckpt'
  BY DEF GraphCurrent
<1>0. \A p \in Run : ~abort[p]
  BY AbortStays
<1>a. /\ \A p \in Run : pc[p] = "streaming" => base[p] = ckpt
      /\ \A p \in Run : status[p] = "success" => p \in ckpt
  BY <1>0 DEF GraphCurrent
<1>1. ASSUME NEW r \in Run, NEW strategy \in {"reject", "interrupt", "rollback"},
             CreateOrReject(r, strategy)
      PROVE  /\ pc'[q] = "streaming" => base'[q] = ckpt'
             /\ status'[q] = "success" => q \in ckpt'
  <2>1. UNCHANGED <<base, ckpt>> /\ pc' = [pc EXCEPT ![r] = "persist"]
    BY <1>1 DEF CreateOrReject
  <2>2. status'[q] = "success" => status[q] = "success"
    BY <1>1, CreateFacts DEF Inflight
  <2>. QED  BY <1>a, <2>1, <2>2 DEF TypeOK
<1>2. ASSUME NEW r \in Run, NEW how \in {"interrupt", "rollback"}, Cancel(r, how)
      PROVE  /\ pc'[q] = "streaming" => base'[q] = ckpt'
             /\ status'[q] = "success" => q \in ckpt'
  BY <1>2, CancelFacts DEF Aborted
<1>3. ASSUME NEW r \in Run, Persist(r)
      PROVE  /\ pc'[q] = "streaming" => base'[q] = ckpt'
             /\ status'[q] = "success" => q \in ckpt'
  BY <1>3, <1>0, <1>a DEF TypeOK, Persist
<1>4. ASSUME NEW r \in Run, LookupMeta(r)
      PROVE  /\ pc'[q] = "streaming" => base'[q] = ckpt'
             /\ status'[q] = "success" => q \in ckpt'
  BY <1>4, <1>0, <1>a DEF TypeOK, LookupMeta
<1>5. ASSUME NEW r \in Run, CreateMeta(r)
      PROVE  /\ pc'[q] = "streaming" => base'[q] = ckpt'
             /\ status'[q] = "success" => q \in ckpt'
  BY <1>5, <1>0, <1>a DEF TypeOK, CreateMeta
<1>6. ASSUME NEW r \in Run, TouchMeta(r)
      PROVE  /\ pc'[q] = "streaming" => base'[q] = ckpt'
             /\ status'[q] = "success" => q \in ckpt'
  BY <1>6, <1>0, <1>a DEF TypeOK, TouchMeta
<1>7. ASSUME NEW r \in Run, Launch(r)
      PROVE  /\ pc'[q] = "streaming" => base'[q] = ckpt'
             /\ status'[q] = "success" => q \in ckpt'
  BY <1>7, <1>0, <1>a DEF TypeOK, Launch
<1>8. ASSUME NEW r \in Run, NeverStart(r)
      PROVE  /\ pc'[q] = "streaming" => base'[q] = ckpt'
             /\ status'[q] = "success" => q \in ckpt'
  BY <1>8, <1>0, <1>a DEF TypeOK, NeverStart
<1>9. ASSUME NEW r \in Run, Start(r)
      PROVE  /\ pc'[q] = "streaming" => base'[q] = ckpt'
             /\ status'[q] = "success" => q \in ckpt'
  BY <1>9, <1>0, <1>a DEF TypeOK, Start
<1>10. ASSUME NEW r \in Run, Mark(r)
      PROVE  /\ pc'[q] = "streaming" => base'[q] = ckpt'
             /\ status'[q] = "success" => q \in ckpt'
  BY <1>10, <1>0, <1>a DEF TypeOK, Mark
<1>11. ASSUME NEW r \in Run, Capture(r)
      PROVE  /\ pc'[q] = "streaming" => base'[q] = ckpt'
             /\ status'[q] = "success" => q \in ckpt'
  BY <1>11, <1>0, <1>a DEF TypeOK, Capture
<1>12. ASSUME NEW r \in Run, DeliverCancel(r)
      PROVE  /\ pc'[q] = "streaming" => base'[q] = ckpt'
             /\ status'[q] = "success" => q \in ckpt'
  BY <1>12, <1>0 DEF DeliverCancel, Standing, StandingAt
<1>13. ASSUME NEW r \in Run, StoreFinal(r)
      PROVE  /\ pc'[q] = "streaming" => base'[q] = ckpt'
             /\ status'[q] = "success" => q \in ckpt'
  BY <1>13, <1>0, <1>a DEF TypeOK, StoreFinal
<1>14. ASSUME NEW r \in Run, Restore(r)
      PROVE  /\ pc'[q] = "streaming" => base'[q] = ckpt'
             /\ status'[q] = "success" => q \in ckpt'
  BY <1>14, <1>0 DEF Restore, Standing, StandingAt
<1>15. ASSUME NEW r \in Run, Complete(r)
      PROVE  /\ pc'[q] = "streaming" => base'[q] = ckpt'
             /\ status'[q] = "success" => q \in ckpt'
  BY <1>15, <1>0, <1>a DEF TypeOK, Complete
<1>16. ASSUME NEW r \in Run, SyncMeta(r)
      PROVE  /\ pc'[q] = "streaming" => base'[q] = ckpt'
             /\ status'[q] = "success" => q \in ckpt'
  BY <1>16, <1>0, <1>a DEF TypeOK, SyncMeta
<1>17. ASSUME NEW r \in Run, PublishEnd(r)
      PROVE  /\ pc'[q] = "streaming" => base'[q] = ckpt'
             /\ status'[q] = "success" => q \in ckpt'
  BY <1>17, <1>0, <1>a DEF TypeOK, PublishEnd
<1>18. ASSUME NEW r \in Run, Load(r)
      PROVE  /\ pc'[q] = "streaming" => base'[q] = ckpt'
             /\ status'[q] = "success" => q \in ckpt'
  BY <1>18, <1>0, <1>a DEF TypeOK, Load
<1>19. ASSUME NEW r \in Run, GraphStep(r)
      PROVE  /\ pc'[q] = "streaming" => base'[q] = ckpt'
             /\ status'[q] = "success" => q \in ckpt'
  <2>1. base[r] = ckpt /\ ckpt' = base[r] \cup {r} /\ UNCHANGED <<pc, status>>
    BY <1>19, <1>a DEF GraphStep
  <2>2. pc[q] = "streaming" => q = r
    BY <1>19, <1>0, OneGraph DEF GraphStep
  <2>3. base'[r] = base[r] \cup {r}
    BY <1>19 DEF GraphStep, TypeOK
  <2>. QED  BY <1>a, <2>1, <2>2, <2>3
<1>20. ASSUME NEW r \in Run, Succeed(r)
      PROVE  /\ pc'[q] = "streaming" => base'[q] = ckpt'
             /\ status'[q] = "success" => q \in ckpt'
  BY <1>20, <1>0, <1>a DEF TypeOK, Succeed
<1>21. ASSUME NEW r \in Run, Fail(r)
      PROVE  /\ pc'[q] = "streaming" => base'[q] = ckpt'
             /\ status'[q] = "success" => q \in ckpt'
  BY <1>21, <1>0, <1>a DEF TypeOK, Fail
<1>22. ASSUME NEW r \in Run, Stop(r)
      PROVE  /\ pc'[q] = "streaming" => base'[q] = ckpt'
             /\ status'[q] = "success" => q \in ckpt'
  BY <1>22, <1>0 DEF Stop
<1>23. CASE UNCHANGED vars
  BY <1>23, <1>0, <1>a DEF TypeOK
<1>. QED  BY <1>1, <1>2, <1>3, <1>4, <1>5, <1>6, <1>7, <1>8, <1>9, <1>10,
   <1>11, <1>12, <1>13, <1>14, <1>15, <1>16, <1>17, <1>18, <1>19, <1>20,
   <1>21, <1>22, <1>23 DEF Next, Clients, StartRun, Worker, Graph

(* A blind rollback stays one: its run is over.                            *)
LEMMA BlindStays ==
  ASSUME TypeOK, Standing, [Next]_vars, NEW q \in Run, RolledBackBlind(q)
  PROVE  RolledBackBlind(q)'
<1> USE DEF vars, requestVars, graphVars, recordVars, GoTo
<1>1. ASSUME NEW r \in Run, NEW strategy \in {"reject", "interrupt", "rollback"},
             CreateOrReject(r, strategy)
      PROVE  RolledBackBlind(q)'
  <2>1. PICK how \in {"interrupt", "rollback"} : Aborted(Inflight, how)
    BY <1>1, CreateFacts
  <2>2. q # r /\ q \notin Inflight
    BY <1>1 DEF RolledBackBlind, CreateOrReject, Standing, StandingAt,
       Inflight, Leaving
  <2>3. abort'[q] = abort[q] /\ action'[q] = action[q]
    BY <2>1, <2>2 DEF Aborted
  <2>. QED  BY <1>1, <2>2, <2>3 DEF CreateOrReject, RolledBackBlind, TypeOK
<1>2. ASSUME NEW r \in Run, NEW how \in {"interrupt", "rollback"}, Cancel(r, how)
      PROVE  RolledBackBlind(q)'
  <2>1. Aborted({r}, how) /\ r \in Inflight
    BY <1>2, CancelFacts
  <2>2. q # r
    BY <2>1 DEF RolledBackBlind, Standing, StandingAt, Inflight, Leaving
  <2>3. abort'[q] = abort[q] /\ action'[q] = action[q]
    BY <2>1, <2>2 DEF Aborted
  <2>. QED  BY <1>2, <2>3 DEF Cancel, RolledBackBlind
<1>3. ASSUME NEW r \in Run, Persist(r)
      PROVE  RolledBackBlind(q)'
  BY <1>3 DEF TypeOK, RolledBackBlind, Driving, Persist
<1>4. ASSUME NEW r \in Run, LookupMeta(r)
      PROVE  RolledBackBlind(q)'
  BY <1>4 DEF TypeOK, RolledBackBlind, Driving, LookupMeta
<1>5. ASSUME NEW r \in Run, CreateMeta(r)
      PROVE  RolledBackBlind(q)'
  BY <1>5 DEF TypeOK, RolledBackBlind, Driving, CreateMeta
<1>6. ASSUME NEW r \in Run, TouchMeta(r)
      PROVE  RolledBackBlind(q)'
  BY <1>6 DEF TypeOK, RolledBackBlind, Driving, TouchMeta
<1>7. ASSUME NEW r \in Run, Launch(r)
      PROVE  RolledBackBlind(q)'
  BY <1>7 DEF TypeOK, RolledBackBlind, Driving, Launch
<1>8. ASSUME NEW r \in Run, NeverStart(r)
      PROVE  RolledBackBlind(q)'
  BY <1>8 DEF TypeOK, RolledBackBlind, Driving, NeverStart
<1>9. ASSUME NEW r \in Run, Start(r)
      PROVE  RolledBackBlind(q)'
  BY <1>9 DEF TypeOK, RolledBackBlind, Driving, Start
<1>10. ASSUME NEW r \in Run, Mark(r)
      PROVE  RolledBackBlind(q)'
  BY <1>10 DEF TypeOK, RolledBackBlind, Driving, Mark
<1>11. ASSUME NEW r \in Run, Capture(r)
      PROVE  RolledBackBlind(q)'
  BY <1>11 DEF TypeOK, RolledBackBlind, Driving, Capture
<1>12. ASSUME NEW r \in Run, DeliverCancel(r)
      PROVE  RolledBackBlind(q)'
  BY <1>12 DEF DeliverCancel, SettleAborted, TypeOK, RolledBackBlind, Driving
<1>13. ASSUME NEW r \in Run, StoreFinal(r)
      PROVE  RolledBackBlind(q)'
  BY <1>13 DEF TypeOK, RolledBackBlind, Driving, StoreFinal
<1>14. ASSUME NEW r \in Run, Restore(r)
      PROVE  RolledBackBlind(q)'
  BY <1>14 DEF TypeOK, RolledBackBlind, Driving, Restore
<1>15. ASSUME NEW r \in Run, Complete(r)
      PROVE  RolledBackBlind(q)'
  BY <1>15 DEF TypeOK, RolledBackBlind, Driving, Complete
<1>16. ASSUME NEW r \in Run, SyncMeta(r)
      PROVE  RolledBackBlind(q)'
  BY <1>16 DEF TypeOK, RolledBackBlind, Driving, SyncMeta
<1>17. ASSUME NEW r \in Run, PublishEnd(r)
      PROVE  RolledBackBlind(q)'
  BY <1>17 DEF TypeOK, RolledBackBlind, Driving, PublishEnd
<1>18. ASSUME NEW r \in Run, Load(r)
      PROVE  RolledBackBlind(q)'
  BY <1>18 DEF TypeOK, RolledBackBlind, Driving, Load
<1>19. ASSUME NEW r \in Run, GraphStep(r)
      PROVE  RolledBackBlind(q)'
  BY <1>19 DEF TypeOK, RolledBackBlind, Driving, GraphStep
<1>20. ASSUME NEW r \in Run, Succeed(r)
      PROVE  RolledBackBlind(q)'
  BY <1>20 DEF TypeOK, RolledBackBlind, Driving, Succeed
<1>21. ASSUME NEW r \in Run, Fail(r)
      PROVE  RolledBackBlind(q)'
  BY <1>21 DEF TypeOK, RolledBackBlind, Driving, Fail
<1>22. ASSUME NEW r \in Run, Stop(r)
      PROVE  RolledBackBlind(q)'
  BY <1>22 DEF TypeOK, RolledBackBlind, Driving, Stop, SettleAborted
<1>23. CASE UNCHANGED vars
  BY <1>23 DEF TypeOK, RolledBackBlind, Driving
<1>. QED  BY <1>1, <1>2, <1>3, <1>4, <1>5, <1>6, <1>7, <1>8, <1>9, <1>10,
   <1>11, <1>12, <1>13, <1>14, <1>15, <1>16, <1>17, <1>18, <1>19, <1>20,
   <1>21, <1>22, <1>23 DEF Next, Clients, StartRun, Worker, Graph

(* Every step keeps HistoryHeld.                                           *)
LEMMA HistoryInv ==
  ASSUME TypeOK, Standing, HistoryHeld, [Next]_vars PROVE HistoryHeld'
<1> USE DEF vars, requestVars, graphVars, recordVars, GoTo
<1>a. CASE \E q \in Run : RolledBackBlind(q)
  BY <1>a, BlindStays DEF HistoryHeld
<1> SUFFICES ASSUME /\ History \subseteq ckpt
                    /\ \A q \in Run :
                         /\ pc[q] = "streaming" => History \subseteq base[q]
                         /\ snap[q] # {} => History \subseteq snap[q]
             PROVE  HistoryHeld'
  BY <1>a DEF HistoryHeld
<1>1. ASSUME NEW r \in Run, NEW strategy \in {"reject", "interrupt", "rollback"},
             CreateOrReject(r, strategy)
      PROVE  HistoryHeld'
  BY <1>1 DEF CreateOrReject, TypeOK, HistoryHeld
<1>2. ASSUME NEW r \in Run, NEW how \in {"interrupt", "rollback"}, Cancel(r, how)
      PROVE  HistoryHeld'
  BY <1>2 DEF Cancel, TypeOK, HistoryHeld
<1>3. ASSUME NEW r \in Run, Persist(r)
      PROVE  HistoryHeld'
  BY <1>3 DEF TypeOK, HistoryHeld, Persist
<1>4. ASSUME NEW r \in Run, LookupMeta(r)
      PROVE  HistoryHeld'
  BY <1>4 DEF TypeOK, HistoryHeld, LookupMeta
<1>5. ASSUME NEW r \in Run, CreateMeta(r)
      PROVE  HistoryHeld'
  BY <1>5 DEF TypeOK, HistoryHeld, CreateMeta
<1>6. ASSUME NEW r \in Run, TouchMeta(r)
      PROVE  HistoryHeld'
  BY <1>6 DEF TypeOK, HistoryHeld, TouchMeta
<1>7. ASSUME NEW r \in Run, Launch(r)
      PROVE  HistoryHeld'
  BY <1>7 DEF TypeOK, HistoryHeld, Launch
<1>8. ASSUME NEW r \in Run, NeverStart(r)
      PROVE  HistoryHeld'
  BY <1>8 DEF TypeOK, HistoryHeld, NeverStart
<1>9. ASSUME NEW r \in Run, Start(r)
      PROVE  HistoryHeld'
  BY <1>9 DEF TypeOK, HistoryHeld, Start
<1>10. ASSUME NEW r \in Run, Mark(r)
      PROVE  HistoryHeld'
  BY <1>10 DEF TypeOK, HistoryHeld, Mark
<1>11. ASSUME NEW r \in Run, Capture(r)
      PROVE  HistoryHeld'
  BY <1>11 DEF TypeOK, HistoryHeld, Capture
<1>12. ASSUME NEW r \in Run, DeliverCancel(r)
      PROVE  HistoryHeld'
  BY <1>12 DEF TypeOK, HistoryHeld, DeliverCancel, SettleAborted
<1>13. ASSUME NEW r \in Run, StoreFinal(r)
      PROVE  HistoryHeld'
  BY <1>13 DEF TypeOK, HistoryHeld, StoreFinal
<1>14. ASSUME NEW r \in Run, Restore(r)
      PROVE  HistoryHeld'
  <2>1. CASE captureFailed[r] \/ snap[r] # {}
    BY <1>14, <2>1 DEF Restore, TypeOK, HistoryHeld
  <2>2. CASE ~captureFailed[r] /\ snap[r] = {}
    <3>1. RolledBackBlind(r)'
      BY <1>14, <2>2 DEF Restore, Standing, StandingAt, RolledBackBlind, TypeOK
    <3>. QED  BY <3>1 DEF HistoryHeld
  <2>. QED  BY <2>1, <2>2
<1>15. ASSUME NEW r \in Run, Complete(r)
      PROVE  HistoryHeld'
  BY <1>15 DEF TypeOK, HistoryHeld, Complete
<1>16. ASSUME NEW r \in Run, SyncMeta(r)
      PROVE  HistoryHeld'
  BY <1>16 DEF TypeOK, HistoryHeld, SyncMeta
<1>17. ASSUME NEW r \in Run, PublishEnd(r)
      PROVE  HistoryHeld'
  BY <1>17 DEF TypeOK, HistoryHeld, PublishEnd
<1>18. ASSUME NEW r \in Run, Load(r)
      PROVE  HistoryHeld'
  BY <1>18 DEF TypeOK, HistoryHeld, Load
<1>19. ASSUME NEW r \in Run, GraphStep(r)
      PROVE  HistoryHeld'
  BY <1>19 DEF TypeOK, HistoryHeld, GraphStep
<1>20. ASSUME NEW r \in Run, Succeed(r)
      PROVE  HistoryHeld'
  BY <1>20 DEF TypeOK, HistoryHeld, Succeed
<1>21. ASSUME NEW r \in Run, Fail(r)
      PROVE  HistoryHeld'
  BY <1>21 DEF TypeOK, HistoryHeld, Fail
<1>22. ASSUME NEW r \in Run, Stop(r)
      PROVE  HistoryHeld'
  BY <1>22 DEF TypeOK, HistoryHeld, Stop, SettleAborted
<1>23. CASE UNCHANGED vars
  BY <1>23 DEF TypeOK, HistoryHeld
<1>. QED  BY <1>1, <1>2, <1>3, <1>4, <1>5, <1>6, <1>7, <1>8, <1>9, <1>10,
   <1>11, <1>12, <1>13, <1>14, <1>15, <1>16, <1>17, <1>18, <1>19, <1>20,
   <1>21, <1>22, <1>23 DEF Next, Clients, StartRun, Worker, Graph

-----------------------------------------------------------------------------
(* The initial states satisfy the inductive invariant.                     *)
LEMMA InitInv == Init => IndInv
<1> SUFFICES ASSUME Init PROVE IndInv
  OBVIOUS
<1>1. TypeOK
  BY DEF Init, TypeOK, Contribution, Place, Outcome
<1>2. Standing
  BY DEF Init, Standing, StandingAt, Request, Driving, Leaving
<1>3. AtMostOneLive /\ AbortedNeverSucceeds
  BY DEF Init, AtMostOneLive, AbortedNeverSucceeds, Inflight
<1>4. MetaOwned /\ GraphCurrent /\ HistoryHeld
  BY DEF Init, MetaOwned, GraphCurrent, HistoryHeld
<1>. QED  BY <1>1, <1>2, <1>3, <1>4 DEF IndInv

(* And so does every state a step or a stutter leads to.                   *)
LEMMA StepInv == IndInv /\ [Next]_vars => IndInv'
  BY TypeInv, StandingInv, OneLiveInv, SuccessInv, MetaInv, GraphInv,
     HistoryInv
     DEF IndInv

(* The state invariants of a thread's runs hold in every reachable state,  *)
(* for any number of runs and any prior contents of the checkpoint.        *)
THEOREM Invariance == Spec => []IndInv
  BY InitInv, StepInv, PTL DEF Spec

(* Every variable keeps its type: no run gets a status, a place or a       *)
(* metadata value the code does not write.                                 *)
THEOREM TypeCorrect == Spec => []TypeOK
<1>1. IndInv => TypeOK
  BY DEF IndInv
<1>. QED  BY <1>1, Invariance, PTL

(* create_or_reject leaves one wanted run at most: those in flight when it *)
(* registers a new one are none or all aborted, and no later status write, *)
(* set_status(running) included, makes an aborted run wanted again.        *)
THEOREM OneLiveCorrect == Spec => []AtMostOneLive
<1>1. IndInv => AtMostOneLive
  BY DEF IndInv
<1>. QED  BY <1>1, Invariance, PTL

(* The last look at the abort event and the final status are one step, and *)
(* a run with a final status is out of cancel's reach.                     *)
THEOREM SuccessCorrect == Spec => []AbortedNeverSucceeds
<1>1. IndInv => AbortedNeverSucceeds
  BY DEF IndInv
<1>. QED  BY <1>1, Invariance, PTL

(* When the end of its stream is published a run has a final status, and   *)
(* the run store has the same one.                                         *)
THEOREM EndedCorrect == Spec => []EndedAgrees
<1>1. IndInv => EndedAgrees
  BY DEF IndInv, Standing, StandingAt, EndedAgrees, Leaving
<1>. QED  BY <1>1, Invariance, PTL

(* The thread's row does not say running once all its runs are over.       *)
THEOREM MetaCorrect == Spec => []MetaQuiesces
<1>1. IndInv => MetaQuiesces
  <2> SUFFICES ASSUME IndInv, \A r \in Run : pc[r] \in {"new", "done"},
                      NEW q \in Run, pc[q] = "done"
               PROVE  meta \in Outcome
    BY DEF MetaQuiesces
  <2>1. meta # "running"
    BY DEF IndInv, MetaOwned, WillSync, Driving, Leaving
  <2>2. meta # "none"
    BY DEF IndInv, MetaOwned
  <2>. QED  BY <2>1, <2>2 DEF IndInv, TypeOK
<1>. QED  BY <1>1, Invariance, PTL

(* While nobody aborts a run, runs do not overlap and none overwrites what *)
(* a successful one left in the checkpoint.                                *)
THEOREM SerialCorrect == Spec => []SerialUnlessAborted
<1>1. IndInv => SerialUnlessAborted
  BY DEF IndInv, GraphCurrent, SerialUnlessAborted
<1>. QED  BY <1>1, Invariance, PTL

(* The thread's earlier contents go only with a rollback that ran without  *)
(* a snapshot although no capture had failed.                              *)
THEOREM HistoryCorrect == Spec => []HistoryKept
<1>1. IndInv => HistoryKept
  BY DEF IndInv, HistoryHeld, HistoryKept
<1>. QED  BY <1>1, Invariance, PTL

(* A run that is over keeps its status through one step.                   *)
LEMMA FinalStays ==
  ASSUME TypeOK, Standing, [Next]_vars, NEW q \in Run,
         status[q] \in {"success", "error"} \/ ended[q]
  PROVE  status'[q] = status[q]
<1> USE DEF vars, requestVars, graphVars, recordVars, GoTo
<1>0. /\ pc[q] \in Leaving \cup {"done"}
      /\ q \notin Inflight
      /\ status[q] \in {"success", "error", "interrupted"}
  BY DEF Standing, StandingAt, TypeOK, Place, Request, Driving, Leaving,
     Inflight
<1>1. ASSUME NEW r \in Run, NEW strategy \in {"reject", "interrupt", "rollback"},
             CreateOrReject(r, strategy)
      PROVE  status'[q] = status[q]
  BY <1>1, <1>0, CreateFacts DEF CreateOrReject, Leaving
<1>2. ASSUME NEW r \in Run, NEW how \in {"interrupt", "rollback"}, Cancel(r, how)
      PROVE  status'[q] = status[q]
  BY <1>2, <1>0, CancelFacts DEF Cancel, TypeOK
<1>3. ASSUME NEW r \in Run, Persist(r)
      PROVE  status'[q] = status[q]
  BY <1>3, <1>0 DEF TypeOK, Driving, Leaving, Persist
<1>4. ASSUME NEW r \in Run, LookupMeta(r)
      PROVE  status'[q] = status[q]
  BY <1>4, <1>0 DEF TypeOK, Driving, Leaving, LookupMeta
<1>5. ASSUME NEW r \in Run, CreateMeta(r)
      PROVE  status'[q] = status[q]
  BY <1>5, <1>0 DEF TypeOK, Driving, Leaving, CreateMeta
<1>6. ASSUME NEW r \in Run, TouchMeta(r)
      PROVE  status'[q] = status[q]
  BY <1>6, <1>0 DEF TypeOK, Driving, Leaving, TouchMeta
<1>7. ASSUME NEW r \in Run, Launch(r)
      PROVE  status'[q] = status[q]
  BY <1>7, <1>0 DEF TypeOK, Driving, Leaving, Launch
<1>8. ASSUME NEW r \in Run, NeverStart(r)
      PROVE  status'[q] = status[q]
  BY <1>8, <1>0 DEF TypeOK, Driving, Leaving, NeverStart
<1>9. ASSUME NEW r \in Run, Start(r)
      PROVE  status'[q] = status[q]
  BY <1>9, <1>0 DEF TypeOK, Driving, Leaving, Start
<1>10. ASSUME NEW r \in Run, Mark(r)
      PROVE  status'[q] = status[q]
  BY <1>10, <1>0 DEF TypeOK, Driving, Leaving, Mark
<1>11. ASSUME NEW r \in Run, Capture(r)
      PROVE  status'[q] = status[q]
  BY <1>11, <1>0 DEF TypeOK, Driving, Leaving, Capture
<1>12. ASSUME NEW r \in Run, DeliverCancel(r)
      PROVE  status'[q] = status[q]
  BY <1>12, <1>0 DEF TypeOK, Driving, Leaving, DeliverCancel, SettleAborted
<1>13. ASSUME NEW r \in Run, StoreFinal(r)
      PROVE  status'[q] = status[q]
  BY <1>13, <1>0 DEF TypeOK, Driving, Leaving, StoreFinal
<1>14. ASSUME NEW r \in Run, Restore(r)
      PROVE  status'[q] = status[q]
  BY <1>14, <1>0 DEF TypeOK, Driving, Leaving, Restore
<1>15. ASSUME NEW r \in Run, Complete(r)
      PROVE  status'[q] = status[q]
  BY <1>15, <1>0 DEF TypeOK, Driving, Leaving, Complete
<1>16. ASSUME NEW r \in Run, SyncMeta(r)
      PROVE  status'[q] = status[q]
  BY <1>16, <1>0 DEF TypeOK, Driving, Leaving, SyncMeta
<1>17. ASSUME NEW r \in Run, PublishEnd(r)
      PROVE  status'[q] = status[q]
  BY <1>17, <1>0 DEF TypeOK, Driving, Leaving, PublishEnd
<1>18. ASSUME NEW r \in Run, Load(r)
      PROVE  status'[q] = status[q]
  BY <1>18, <1>0 DEF TypeOK, Driving, Leaving, Load
<1>19. ASSUME NEW r \in Run, GraphStep(r)
      PROVE  status'[q] = status[q]
  BY <1>19, <1>0 DEF TypeOK, Driving, Leaving, GraphStep
<1>20. ASSUME NEW r \in Run, Succeed(r)
      PROVE  status'[q] = status[q]
  BY <1>20, <1>0 DEF TypeOK, Driving, Leaving, Succeed
<1>21. ASSUME NEW r \in Run, Fail(r)
      PROVE  status'[q] = status[q]
  BY <1>21, <1>0 DEF TypeOK, Driving, Leaving, Fail
<1>22. ASSUME NEW r \in Run, Stop(r)
      PROVE  status'[q] = status[q]
  BY <1>22, <1>0 DEF TypeOK, Driving, Leaving, Stop, SettleAborted
<1>23. CASE UNCHANGED vars
  BY <1>23, <1>0 DEF TypeOK, Driving, Leaving
<1>. QED  BY <1>1, <1>2, <1>3, <1>4, <1>5, <1>6, <1>7, <1>8, <1>9, <1>10,
   <1>11, <1>12, <1>13, <1>14, <1>15, <1>16, <1>17, <1>18, <1>19, <1>20,
   <1>21, <1>22, <1>23 DEF Next, Clients, StartRun, Worker, Graph

(* A final status is never overwritten: not by a late cancel, not by a new *)
(* run that interrupts the thread, not by the task itself.                 *)
THEOREM SettledCorrect == Spec => SettledIsFinal
<1>1. ASSUME IndInv, [Next]_vars PROVE FinalKept
  BY <1>1, FinalStays DEF IndInv, FinalKept
<1>2. IndInv /\ [Next]_vars => [FinalKept]_vars
  BY <1>1
<1>. QED  BY <1>2, Invariance, PTL DEF Spec, SettledIsFinal

=============================================================================
