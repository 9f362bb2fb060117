------------------------- MODULE PluginManagerProofs -------------------------
(***************************************************************************)
(* The plugin manager keeps its inductive invariant for every catalog,     *)
(* every number of requests and every choice of the plugins' own code.     *)
(***************************************************************************)
EXTENDS PluginManager, SequenceTheorems, TLAPS

USE DEF Tasks, pluginVars, lockVars, taskVars, hostVars, serverVars

\* Taking one element out of a sequence leaves a sequence: the queue stays typed.
LEMMA RemoveAtType ==
    ASSUME NEW S, NEW s \in Seq(S), NEW i \in DOMAIN s
    PROVE  RemoveAt(s, i) \in Seq(S)
<1>1. /\ Len(s) \in Nat /\ DOMAIN s = 1..Len(s) /\ i \in 1..Len(s)
  BY LenProperties
<1>2. SubSeq(s, 1, i - 1) \in Seq(S)
  BY <1>1, SubSeqProperties
<1>3. SubSeq(s, i + 1, Len(s)) \in Seq(S)
  BY <1>1, SubSeqProperties
<1> QED  BY <1>2, <1>3, ConcatProperties DEF RemoveAt

\* The startup order has a length, and plugins at its positions.
LEMMA OrderTyped ==
    /\ Len(Order) \in Nat
    /\ \A i \in 1..Len(Order) : Order[i] \in Plugins
  BY OrderAssumption, LenProperties, ElementOfSeq

\* The types hold initially.
LEMMA InitTyped == Init => TypeOK
<1> SUFFICES ASSUME Init PROVE TypeOK
  OBVIOUS
<1> USE DEF Init
<1>1. cursor \in 0..(Len(Order) + 1)
  BY OrderTyped
<1>2. state \in [Plugins -> States] /\ loaded \subseteq Plugins
  BY DEF States
<1>3. pc \in [Tasks -> Places]
  BY DEF Places
<1>4. queue \in Seq(Tasks)
  BY EmptySeq
<1>5. /\ op \in [Requests -> Ops]
      /\ why \in [Tasks -> Whys]
      /\ reply \in [Tasks -> Replies]
  BY DEF Ops, Whys, Replies
<1>6. /\ target \in [Tasks -> Plugins \cup {Nobody}]
      /\ services \in [Capabilities -> Plugins \cup {Nobody}]
      /\ captured \in [Plugins -> SUBSET (Plugins \X Nat)]
      /\ incarnation \in [Plugins -> Nat]
  OBVIOUS
<1> QED
  BY <1>1, <1>2, <1>3, <1>4, <1>5, <1>6 DEF TypeOK

\* Whatever ends the work on a plugin leaves the tasks and the host typed.
LEMMA ConcludeTyped ==
    ASSUME InductiveInvariant, NEW t \in Tasks, NEW r \in Replies,
           Operating(t), Conclude(t, r)
    PROVE  /\ pc' \in [Tasks -> Places]
           /\ why' \in [Tasks -> Whys]
           /\ reply' \in [Tasks -> Replies]
           /\ lock' \in Tasks \cup {Nobody}
           /\ queue' = queue
           /\ phase' \in {"starting", "ready", "stopping"}
           /\ cursor' \in 0..(Len(Order) + 1)
<1> USE DEF InductiveInvariant, TypeOK, Places, Whys, Replies
<1>1. CASE Answer(t, r)
  BY <1>1 DEF Answer
<1>2. CASE NextToStart(t, r)
  <2>1. cursor \in 1..Len(Order)
    BY <1>2 DEF NextToStart, Sweeping
  <2> QED  BY <1>2, <2>1, OrderTyped DEF NextToStart
<1>3. CASE AbandonStartup(t, r)
  BY <1>3, OrderTyped DEF AbandonStartup
<1>4. CASE NextToStop(t, r)
  <2>1. cursor \in 1..Len(Order)
    BY <1>4 DEF NextToStop, Sweeping, Locking, Operating, Synchronous, StartHooks, StopHooks
  <2> QED  BY <1>4, <2>1, OrderTyped DEF NextToStop
<1>5. CASE AbandonShutdown(t, r)
  BY <1>5 DEF AbandonShutdown
<1> QED
  BY <1>1, <1>2, <1>3, <1>4, <1>5 DEF Conclude

\* cleanup() keeps the types of what it releases.
LEMMA CleanupTyped ==
    ASSUME TypeOK, NEW p \in Plugins, Cleanup(p)
    PROVE  /\ attached' \subseteq Plugins
           /\ services' \in [Capabilities -> Plugins \cup {Nobody}]
           /\ subscribers' \subseteq Plugins
           /\ captured' \in [Plugins -> SUBSET (Plugins \X Nat)]
  BY DEF TypeOK, Cleanup

\* The end of a stop keeps the types, whatever its result.
LEMMA FinishStopTyped ==
    ASSUME InductiveInvariant, NEW t \in Tasks, NEW ok \in BOOLEAN,
           pc[t] \in StopHooks, FinishStop(t, ok), UNCHANGED serverVars
    PROVE  TypeOK'
<1> USE DEF InductiveInvariant
<1>1. target[t] \in Plugins
  BY DEF Progress, ProgressOf, Engaged, TypeOK
<1>2. Cleanup(target[t])
  BY DEF FinishStop
<1>3. ReplyAfterStop(why[t], ok) \in Replies
  BY DEF ReplyAfterStop, Replies
<1>4. state' \in [Plugins -> States]
  BY <1>1 DEF FinishStop, StateAfterStop, States, TypeOK
<1>5. CASE why[t] = "restart" /\ ok
  <2>1. /\ pc' \in [Tasks -> Places]
        /\ why' \in [Tasks -> Whys]
        /\ UNCHANGED <<reply, lockVars, hostVars>>
    BY <1>5 DEF FinishStop, Goto, TypeOK, Places, InFlight, Synchronous, Whys
  <2> QED  BY <1>1, <1>2, <1>4, <2>1, CleanupTyped DEF FinishStop, TypeOK
<1>6. CASE ~(why[t] = "restart" /\ ok)
  <2>1. Conclude(t, ReplyAfterStop(why[t], ok))
    BY <1>6 DEF FinishStop
  <2>2. Operating(t)
    BY DEF Operating
  <2> QED  BY <1>1, <1>2, <1>3, <1>4, <2>1, <2>2, CleanupTyped, ConcludeTyped DEF FinishStop, TypeOK
<1> QED  BY <1>5, <1>6

\* So does every step of a task, whichever operation it is in.
LEMMA TaskStepTyped ==
    ASSUME InductiveInvariant, NEW t \in Tasks, RunsOn(t) \/ PluginRuns(t)
    PROVE  TypeOK'
<1> USE DEF InductiveInvariant, TypeOK, Places, InFlight, StartHooks, StopHooks, Synchronous,
            States, Whys, Replies, Ops
<1>1. CASE Unavailable(t)
  BY <1>1 DEF Unavailable, Answer
<1>2. CASE RefuseDependents(t)
  BY <1>2 DEF RefuseDependents, Answer
<1>3. CASE StopBegins(t)
  BY <1>3 DEF StopBegins, BeginStop, Goto, NeedsStop
<1>4. CASE StopsAtOnce(t)
  <2>1. state' \in [Plugins -> States]
    BY <1>4 DEF StopsAtOnce
  <2>2. /\ pc' \in [Tasks -> Places]
        /\ why' \in [Tasks -> Whys]
        /\ reply' \in [Tasks -> Replies]
        /\ lock' \in Tasks \cup {Nobody}
        /\ UNCHANGED <<queue, hostVars>>
    <3>1. CASE op[t] = "restart"
      <4>1. pc' = [pc EXCEPT ![t] = "starting"] /\ UNCHANGED <<why, reply, lockVars, hostVars>>
        BY <1>4, <3>1 DEF StopsAtOnce, Goto
      <4> QED  BY <4>1
    <3>2. CASE op[t] # "restart"
      <4>1. Answer(t, "200")
        BY <1>4, <3>2 DEF StopsAtOnce
      <4> QED  BY <4>1 DEF Answer
    <3> QED  BY <3>1, <3>2
  <2> QED  BY <1>4, <2>1, <2>2 DEF StopsAtOnce
<1>5. CASE StartsDirectly(t)
  BY <1>5 DEF StartsDirectly, Goto
<1>6. CASE AlreadyRunning(t)
  BY <1>6 DEF AlreadyRunning, Answer
<1>7. CASE DependencyMissing(t)
  <2>1. state' \in [Plugins -> States]
    BY <1>7 DEF DependencyMissing
  <2>2. Operating(t) /\ Conclude(t, "409")
    BY <1>7 DEF DependencyMissing, Operating
  <2> QED  BY <1>7, <2>1, <2>2, ConcludeTyped DEF DependencyMissing
<1>8. CASE SettingsInvalid(t)
  <2>1. state' \in [Plugins -> States]
    BY <1>8 DEF SettingsInvalid
  <2>2. Operating(t) /\ Conclude(t, "409")
    BY <1>8 DEF SettingsInvalid, Operating
  <2> QED  BY <1>8, <2>1, <2>2, ConcludeTyped DEF SettingsInvalid
<1>9. CASE Attach(t)
  BY <1>9 DEF Attach, Goto, Progress, ProgressOf
<1>10. CASE \E c \in Capabilities : RegisterService(t, c)
  BY <1>10 DEF RegisterService, At, Progress, ProgressOf, Engaged
<1>11. CASE \E c \in Capabilities : GetService(t, c)
  <2>1. PICK c \in Capabilities : GetService(t, c)
    BY <1>11
  <2>2. target[t] \in Plugins
    BY <2>1 DEF GetService, At, Progress, ProgressOf, Engaged
  <2>3. services[c] \in Plugins
    BY <2>1, <2>2, DepsAssumption DEF GetService
  <2>4. <<services[c], incarnation[services[c]]>> \in Plugins \X Nat
    BY <2>3
  <2>5. captured' \in [Plugins -> SUBSET (Plugins \X Nat)]
    BY <2>1, <2>2, <2>4 DEF GetService
  <2> QED  BY <2>1, <2>5 DEF GetService
<1>12. CASE Subscribe(t)
  BY <1>12 DEF Subscribe, At, Progress, ProgressOf, Engaged
<1>13. CASE InitReturns(t)
  BY <1>13 DEF InitReturns, Goto
<1>14. CASE InitPublished(t)
  BY <1>14 DEF InitPublished, Goto
<1>15. CASE CapabilityMissing(t)
  BY <1>15 DEF CapabilityMissing, BeginStop, Goto
<1>16. CASE StartReturns(t)
  BY <1>16 DEF StartReturns, Goto
<1>17. CASE StartPublished(t)
  <2>1. Operating(t) /\ Conclude(t, "200")
    BY <1>17 DEF StartPublished, At, Operating
  <2> QED  BY <1>17, <2>1, ConcludeTyped DEF StartPublished
<1>18. CASE HookFails(t)
  BY <1>18 DEF HookFails, BeginStop, Goto
<1>19. CASE StopReturns(t)
  BY <1>19 DEF StopReturns, Goto
<1>20. CASE StopFails(t)
  BY <1>20, FinishStopTyped DEF StopFails, At
<1>21. CASE StopPublished(t)
  BY <1>21, FinishStopTyped DEF StopPublished, At
<1> QED
  BY <1>1, <1>2, <1>3, <1>4, <1>5, <1>6, <1>7, <1>8, <1>9, <1>10, <1>11, <1>12, <1>13,
     <1>14, <1>15, <1>16, <1>17, <1>18, <1>19, <1>20, <1>21 DEF RunsOn, PluginRuns

\* A deadline or a cancellation leaves every variable in its range.
LEMMA InterruptTyped ==
    ASSUME InductiveInvariant, NEW t \in Tasks, TimesOut(t) \/ IsCancelled(t)
    PROVE  TypeOK'
<1> USE DEF InductiveInvariant
<1>1. /\ doomed' \subseteq Requests
      /\ overdue' \in BOOLEAN
  BY DEF TypeOK, TimesOut, TimeoutWaiting, TimeoutStart, TimeoutStop, IsCancelled,
         CancelWaiting, CancelStart, CancelStop, Cancellation
<1>2. CASE \E r \in Replies : LeaveQueue(t, r)
  <2>1. PICK r \in Replies : LeaveQueue(t, r)
    BY <1>2
  <2>2. PICK i \in DOMAIN queue : queue' = RemoveAt(queue, i)
    BY <2>1 DEF LeaveQueue
  <2>3. queue' \in Seq(Tasks)
    BY <2>2, RemoveAtType DEF TypeOK
  <2>4. pc' \in [Tasks -> Places] /\ reply' \in [Tasks -> Replies]
    BY <2>1 DEF LeaveQueue, Goto, TypeOK, Places
  <2> QED  BY <1>1, <2>1, <2>3, <2>4 DEF LeaveQueue, TypeOK
<1>3. CASE \E w \in {"timed_out", "cancelled"} : InterruptStart(t, w)
  <2>1. PICK w \in {"timed_out", "cancelled"} : InterruptStart(t, w)
    BY <1>3
  <2>2. /\ pc' \in [Tasks -> Places]
        /\ why' \in [Tasks -> Whys]
    BY <2>1 DEF InterruptStart, BeginStop, Goto, TypeOK, Places, InFlight, StopHooks, Whys
  <2>3. state' \in [Plugins -> States]
    BY <2>1 DEF InterruptStart, TypeOK, States
  <2> QED  BY <1>1, <2>1, <2>2, <2>3 DEF InterruptStart, TypeOK
<1>4. CASE InterruptStop(t) /\ \E r \in Replies : Conclude(t, r)
  <2>1. PICK r \in Replies : Conclude(t, r)
    BY <1>4
  <2>2. Operating(t) /\ target[t] \in Plugins
    BY <1>4 DEF InterruptStop, Operating, Progress, ProgressOf, Engaged, TypeOK
  <2>3. state' \in [Plugins -> States]
    BY <1>4, <2>2 DEF InterruptStop, TypeOK, States
  <2>4. Cleanup(target[t])
    BY <1>4 DEF InterruptStop
  <2> QED  BY <1>1, <1>4, <2>1, <2>2, <2>3, <2>4, ConcludeTyped, CleanupTyped DEF InterruptStop, TypeOK
<1> QED
  BY <1>2, <1>3, <1>4 DEF TimesOut, TimeoutWaiting, TimeoutStart, TimeoutStop, IsCancelled,
     CancelWaiting, CancelStart, CancelStop, Replies

\* Submission, the lock and the lifespan leave every variable in its range.
LEMMA HostStepTyped ==
    ASSUME InductiveInvariant,
           \/ \E t \in Requests, o \in Ops, p \in Plugins \cup {Nobody} : Submit(t, o, p)
           \/ \E t \in Tasks : Acquire(t)
           \/ LifespanStep
           \/ BeginShutdown
    PROVE  TypeOK'
<1> USE DEF InductiveInvariant, TypeOK, Places, InFlight, Synchronous, StopHooks
<1>1. CASE \E t \in Requests, o \in Ops, p \in Plugins \cup {Nobody} : Submit(t, o, p)
  <2>1. PICK t \in Requests, o \in Ops, p \in Plugins \cup {Nobody} : Submit(t, o, p)
    BY <1>1
  <2>2. queue' \in Seq(Tasks)
    <3>1. queue' = queue \/ queue' = Append(queue, t)
      BY <2>1 DEF Submit
    <3>2. t \in Tasks
      BY DEF Tasks
    <3>3. Append(queue, t) \in Seq(Tasks)
      BY <3>2, AppendProperties
    <3> QED  BY <3>1, <3>3
  <2>3. pc' \in [Tasks -> Places] /\ lock' \in Tasks \cup {Nobody}
    BY <2>1 DEF Submit, Goto
  <2> HIDE DEF Places
  <2> QED  BY <2>1, <2>2, <2>3 DEF Submit
<1>2. CASE \E t \in Tasks : Acquire(t)
  <2>1. PICK t \in Tasks : Acquire(t)
    BY <1>2
  <2>2. queue' \in Seq(Tasks)
    BY <2>1, HeadTailProperties DEF Acquire
  <2> QED  BY <2>1, <2>2 DEF Acquire, Goto
<1>3. CASE StartNext
  BY <1>3, OrderTyped DEF StartNext, Goto
<1>4. CASE MarkReady
  BY <1>4 DEF MarkReady, Goto
<1>5. CASE StopNext
  BY <1>5, OrderTyped DEF StopNext, BeginStop, Goto, Whys
<1>6. CASE StopsNothing
  <2>1. state' \in [Plugins -> States]
    BY <1>6 DEF StopsNothing, States
  <2> QED  BY <1>6, <2>1, OrderTyped DEF StopsNothing
<1>7. CASE AllStopped
  BY <1>7 DEF AllStopped, Goto, Replies
<1>8. CASE BeginShutdown
  <2>1. queue' \in Seq(Tasks)
    <3>1. queue' = queue \/ queue' = Append(queue, Lifespan)
      BY <1>8 DEF BeginShutdown, lockVars
    <3>2. Append(queue, Lifespan) \in Seq(Tasks)
      BY AppendProperties
    <3> QED  BY <3>1, <3>2
  <2>2. pc' \in [Tasks -> Places] /\ lock' \in Tasks \cup {Nobody}
    BY <1>8 DEF BeginShutdown, Goto, lockVars
  <2>3. cursor' \in 0..(Len(Order) + 1)
    BY <1>8, OrderTyped DEF BeginShutdown
  <2> HIDE DEF Places
  <2> QED  BY <1>8, <2>1, <2>2, <2>3 DEF BeginShutdown
<1> QED
  BY <1>1, <1>2, <1>3, <1>4, <1>5, <1>6, <1>7, <1>8 DEF LifespanStep

-----------------------------------------------------------------------------
(* One operation at a time.                                                *)

\* At most one task carries out an operation.
LEMMA Solo ==
    ASSUME InductiveInvariant, NEW t \in Tasks, NEW u \in Tasks, Operating(t), Operating(u)
    PROVE  t = u
<1> USE DEF InductiveInvariant, Locking, Operating
<1>1. CASE t \in Requests /\ u \in Requests
  BY <1>1
<1>2. ASSUME NEW r \in Requests, Operating(r), Operating(Lifespan) PROVE FALSE
  <2>1. lock = r /\ phase # "starting"
    BY <1>2 DEF Synchronous, StartHooks, StopHooks
  <2>2. phase = "stopping"
    BY <1>2, <2>1 DEF Synchronous, StartHooks, StopHooks, TypeOK
  <2>3. lock = Lifespan
    BY <1>2, <2>2 DEF Synchronous, StartHooks, StopHooks
  <2> QED  BY <2>1, <2>3, NamesAssumption
<1> QED  BY <1>1, <1>2

\* t goes on with its operation at the place x.
LEMMA GoesOn ==
    ASSUME InductiveInvariant, NEW t \in Tasks, Operating(t),
           NEW x \in {"starting"} \cup StartHooks \cup StopHooks,
           pc' = [pc EXCEPT ![t] = x],
           UNCHANGED <<lock, phase, cursor, target>>,
           t = Lifespan /\ phase = "stopping" => x \in StopHooks,
           attached' \subseteq attached \/ pc[t] = "starting"
    PROVE  /\ Locking' /\ Sweeping'
           /\ \A u \in Tasks : u # t => ~Operating(u)' /\ ~Engaged(u)'
<1>1. ASSUME NEW u \in Tasks, u # t PROVE ~Operating(u)' /\ ~Engaged(u)'
  BY <1>1, Solo DEF Operating, Engaged, InductiveInvariant, TypeOK
<1>2. CASE t = Lifespan
  <2>1. phase # "ready" /\ pc'[Lifespan] = x
    BY <1>2, NamesAssumption DEF InductiveInvariant, TypeOK, Locking, Operating, Synchronous, StartHooks, StopHooks
  <2>2. \A u \in Requests : pc'[u] = pc[u]
    BY <1>2, NamesAssumption DEF InductiveInvariant, TypeOK
  <2>3. phase = "stopping" => pc[Lifespan] \in StopHooks
    BY <1>2 DEF InductiveInvariant, Locking, Operating, Synchronous, StartHooks, StopHooks
  <2>4. Locking'
    BY <1>2, <2>1, <2>2, <2>3, NamesAssumption DEF InductiveInvariant, Locking, Operating
  <2>5. Sweeping'
    BY <1>2, <2>1, <2>3, NamesAssumption DEF InductiveInvariant, Sweeping, Operating, StopHooks
  <2> QED  BY <1>1, <2>4, <2>5
<1>3. CASE t \in Requests
  <2>1. lock = t /\ phase # "starting" /\ ~Operating(Lifespan)
    BY <1>3, Solo, NamesAssumption DEF InductiveInvariant, Locking, Operating, Synchronous, StartHooks, StopHooks
  <2>2. \A u \in Tasks : u # t => pc'[u] = pc[u]
    BY <1>3, NamesAssumption DEF InductiveInvariant, TypeOK
  <2>3. pc'[t] = x /\ Lifespan # t
    BY <1>3, NamesAssumption DEF InductiveInvariant, TypeOK
  <2>4. ~(phase = "stopping" /\ pc[Lifespan] \in {"stop_all"} \cup StopHooks)
    BY <2>1, <2>3 DEF InductiveInvariant, Locking
  <2>5. Locking'
    BY <1>3, <2>1, <2>2, <2>3, <2>4, NamesAssumption
    DEF InductiveInvariant, Locking, Operating, InFlight, Synchronous
  <2>6. Sweeping'
    BY <1>3, <2>1, <2>2, <2>3, <2>4 DEF InductiveInvariant, Sweeping, Operating
  <2> QED  BY <1>1, <2>5, <2>6
<1> QED  BY <1>2, <1>3

\* t is done with its target, which it has released if it stops everything.
LEMMA Ends ==
    ASSUME InductiveInvariant, NEW t \in Tasks, NEW r, Operating(t), Conclude(t, r),
           attached' \subseteq attached,
           phase = "stopping" /\ t = Lifespan => target[t] \notin attached'
    PROVE  /\ Locking' /\ Sweeping'
           /\ \A u \in Tasks : ~Operating(u)' /\ ~Engaged(u)'
<1>1. \A u \in Tasks : u # t => ~Operating(u)
  BY Solo
<1> USE DEF InductiveInvariant, TypeOK
<1>2. CASE Answer(t, r)
  <2>1. /\ t \in Requests /\ t # Lifespan
        /\ pc' = [pc EXCEPT ![t] = "done"]
        /\ lock' = Nobody
        /\ UNCHANGED <<phase, cursor>>
    BY <1>2, NamesAssumption DEF Answer
  <2>2. lock = t /\ phase # "starting"
    BY <2>1 DEF Locking, Operating, Synchronous, StartHooks, StopHooks
  <2>3. ~(phase = "stopping" /\ pc[Lifespan] \in {"stop_all"} \cup StopHooks)
    BY <2>1, <2>2 DEF Locking
  <2>4. \A u \in Tasks : ~Operating(u)' /\ ~Engaged(u)'
    BY <1>1, <2>1 DEF Operating, Engaged, Synchronous, StartHooks, StopHooks
  <2>5. Locking'
    BY <2>1, <2>2, <2>3, <2>4 DEF Locking
  <2>6. Sweeping'
    BY <2>1, <2>2, <2>3, <2>4 DEF Sweeping
  <2> QED  BY <2>4, <2>5, <2>6
<1>3. CASE t = Lifespan /\ ~Answer(t, r)
  <2>1. \A u \in Requests : pc'[u] = pc[u] /\ u # Lifespan
    BY <1>3, NamesAssumption DEF Conclude, NextToStart, AbandonStartup, NextToStop, AbandonShutdown
  <2>2. pc'[Lifespan] \in {"start_all", "stop_all", "exited"}
    BY <1>3 DEF Conclude, NextToStart, AbandonStartup, NextToStop, AbandonShutdown
  <2>3. \A u \in Tasks : ~Operating(u)' /\ ~Engaged(u)'
    BY <1>1, <1>3, <2>1, <2>2 DEF Operating, Engaged, Synchronous, StartHooks, StopHooks
  <2>4. CASE NextToStart(t, r)
    <3>1. pc'[Lifespan] = "start_all" /\ UNCHANGED <<lock, phase>> /\ phase = "starting"
      BY <1>3, <2>4 DEF NextToStart
    <3>2. Locking'
      BY <2>1, <2>3, <3>1 DEF Locking
    <3>3. Sweeping'
      BY <2>3, <3>1 DEF Sweeping
    <3> QED  BY <2>3, <3>2, <3>3
  <2>5. CASE AbandonStartup(t, r)
    <3>1. /\ pc'[Lifespan] = "stop_all" /\ lock' = Lifespan
          /\ phase = "starting" /\ phase' = "stopping" /\ cursor' = Len(Order)
      BY <1>3, <2>5 DEF AbandonStartup
    <3>2. Locking'
      BY <2>1, <2>3, <3>1 DEF Locking
    <3>3. Sweeping'
      BY <2>3, <3>1, OrderTyped DEF Sweeping, StopHooks
    <3> QED  BY <2>3, <3>2, <3>3
  <2>6. CASE NextToStop(t, r)
    <3>1. /\ pc'[Lifespan] = "stop_all" /\ UNCHANGED <<lock, phase>>
          /\ phase = "stopping" /\ cursor' = cursor - 1
      BY <1>3, <2>6 DEF NextToStop
    <3>2. pc[Lifespan] \in StopHooks /\ lock = Lifespan
      BY <1>3, <3>1 DEF Locking, Operating, Synchronous, StartHooks, StopHooks
    <3>3. cursor \in 1..Len(Order) /\ target[Lifespan] = Order[cursor]
      BY <3>1, <3>2 DEF Sweeping
    <3>4. \A i \in 1..Len(Order) : i > cursor - 1 => Order[i] \notin attached'
      BY <1>3, <3>1, <3>2, <3>3, OrderTyped DEF Sweeping
    <3>5. Locking'
      BY <2>1, <2>3, <3>1, <3>2 DEF Locking
    <3>6. Sweeping'
      BY <2>3, <3>1, <3>4 DEF Sweeping, StopHooks
    <3> QED  BY <2>3, <3>5, <3>6
  <2>7. CASE AbandonShutdown(t, r)
    <3>1. pc'[Lifespan] = "exited" /\ phase' = "stopping"
      BY <1>3, <2>7 DEF AbandonShutdown
    <3>2. Locking'
      BY <2>1, <2>3, <3>1 DEF Locking, StopHooks
    <3>3. Sweeping'
      BY <2>3, <3>1 DEF Sweeping, StopHooks
    <3> QED  BY <2>3, <3>2, <3>3
  <2> QED  BY <1>3, <2>4, <2>5, <2>6, <2>7 DEF Conclude
<1>4. Answer(t, r) \/ t = Lifespan
  BY DEF Conclude, NextToStart, AbandonStartup, NextToStop, AbandonShutdown
<1> QED  BY <1>2, <1>3, <1>4

\* The step of t changes nothing but the plugin in its hand, which does not lose
\* its running state under a consumer and is either kept in hand or settled.
LEMMA OnlyTheTarget ==
    ASSUME InductiveInvariant, NEW t \in Tasks, Operating(t),
           target[t] \in loaded,
           \A p \in Plugins : p # target[t] =>
               /\ state'[p] = state[p]
               /\ p \in attached' <=> p \in attached,
           attached' \subseteq Plugins,
           UNCHANGED <<target, loaded>>,
           \A u \in Tasks : u # t => ~Engaged(u)',
           \/ Engaged(t)'
           \/ /\ target[t] \in attached' <=> state'[target[t]] = "running"
              /\ state'[target[t]] # "initialized",
           state'[target[t]] = "running" => target[t] \in attached',
           target[t] \in attached' =>
               \A d \in Deps[target[t]] : d # target[t] /\ state[d] = "running",
           state[target[t]] = "running" /\ state'[target[t]] # "running" =>
               \A q \in attached : target[t] \notin Deps[q]
    PROVE  Settled' /\ Standing'
<1> USE DEF InductiveInvariant
<1>1. \A u \in Tasks : u # t => ~Engaged(u)
  BY Solo DEF Operating, Engaged
<1>2. loaded \subseteq Plugins /\ attached \subseteq Plugins
  BY DEF TypeOK
<1>3. ASSUME NEW p \in Plugins, \A u \in Tasks : Engaged(u)' => target'[u] # p
      PROVE  /\ p \in attached' <=> state'[p] = "running"
             /\ state'[p] # "initialized"
  <2>1. CASE p = target[t]
    BY <1>3, <2>1
  <2>2. CASE p # target[t]
    <3>1. \A u \in Tasks : Engaged(u) => target[u] # p
      BY <1>1, <2>2
    <3> QED  BY <2>2, <3>1 DEF Settled
  <2> QED  BY <2>1, <2>2
<1>4. Settled'
  BY <1>3 DEF Settled
<1>5. attached' \subseteq loaded'
  BY <1>2 DEF Standing
<1>6. \A p \in Plugins : state'[p] = "running" => p \in attached'
  BY DEF Standing
<1>7. ASSUME NEW p \in attached', NEW d \in Deps[p] PROVE state'[d] = "running"
  <2>1. d \in Plugins /\ p \in Plugins
    BY <1>2, DepsAssumption
  <2>2. CASE p = target[t]
    BY <1>7, <2>1, <2>2
  <2>3. CASE p # target[t]
    <3>1. p \in attached /\ state[d] = "running"
      BY <2>1, <2>3 DEF Standing
    <3> QED  BY <1>7, <2>1, <3>1
  <2> QED  BY <2>2, <2>3
<1> QED  BY <1>4, <1>5, <1>6, <1>7 DEF Standing

\* Nobody has progress to show but t.
LEMMA OnlyItsProgress ==
    ASSUME NEW t \in Tasks, TypeOK', ProgressOf(t)',
           \A u \in Tasks : u # t => ~Operating(u)'
    PROVE  Progress'
<1> SUFFICES ASSUME NEW u \in Tasks PROVE ProgressOf(u)'
  BY DEF Progress
<1> QED
  BY DEF ProgressOf, Operating, Engaged, Synchronous, StartHooks, StopHooks

\* What is known of t and the plugin in its hand before the step.
LEMMA InHand ==
    ASSUME InductiveInvariant, NEW t \in Tasks, Operating(t),
           pc[t] = "granted" => target[t] \in loaded
    PROVE  /\ ProgressOf(t)
           /\ target[t] \in loaded /\ target[t] \in Plugins
           /\ Engaged(t) => target[t] \in attached
           /\ ~Engaged(t) => /\ \A p \in Plugins : p \in attached <=> state[p] = "running"
                             /\ state[target[t]] # "initialized"
           /\ target[t] \in attached =>
                 \A d \in Deps[target[t]] : state[d] = "running"
           /\ Engaged(t) => \A d \in Deps[target[t]] : d # target[t]
<1> USE DEF InductiveInvariant
<1>1. ProgressOf(t) /\ target[t] \in loaded /\ target[t] \in Plugins
  BY DEF Progress, ProgressOf, TypeOK, Operating, Engaged, Synchronous
<1>2. Engaged(t) => target[t] \in attached
  BY <1>1 DEF ProgressOf
<1>3. target[t] \in attached => \A d \in Deps[target[t]] : state[d] = "running"
  BY DEF Standing
<1>4. ASSUME ~Engaged(t)
      PROVE  /\ \A p \in Plugins : p \in attached <=> state[p] = "running"
             /\ state[target[t]] # "initialized"
  <2>1. \A u \in Tasks : ~Engaged(u)
    BY <1>4, Solo DEF Operating, Engaged
  <2> QED  BY <1>1, <2>1 DEF Settled
<1>5. ASSUME Engaged(t), target[t] \in Deps[target[t]] PROVE FALSE
  <2>1. state[target[t]] = "running" /\ \E q \in attached : target[t] \in Deps[q]
    BY <1>2, <1>3, <1>5
  <2>2. pc[t] \in {"init_hook", "init_publish", "start_hook", "start_publish"} \cup StopHooks
    BY <1>5 DEF Engaged, StartHooks
  <2>3. pc[t] \in StopHooks => Stopping(t)
    BY <1>1 DEF ProgressOf
  <2> QED  BY <1>1, <2>1, <2>2, <2>3 DEF ProgressOf, Stopping
<1> QED  BY <1>1, <1>2, <1>3, <1>4, <1>5

\* A step that leaves its task in the middle of the operation.
LEMMA GoingOnKeeps ==
    ASSUME InductiveInvariant, NEW t \in Tasks, Operating(t), TypeOK',
           pc[t] = "granted" => target[t] \in loaded,
           NEW x \in {"starting"} \cup StartHooks \cup StopHooks,
           pc' = [pc EXCEPT ![t] = x],
           UNCHANGED <<lock, phase, cursor, target, loaded>>,
           t = Lifespan /\ phase = "stopping" => x \in StopHooks,
           \A p \in Plugins : p # target[t] => state'[p] = state[p],
           \/ attached' = attached
           \/ attached' = attached \ {target[t]}
           \/ pc[t] = "starting" /\ attached' = attached \cup {target[t]},
           ProgressOf(t)',
           x = "starting" =>
               /\ target[t] \in attached' <=> state'[target[t]] = "running"
               /\ state'[target[t]] # "initialized",
           state'[target[t]] = "running" => target[t] \in attached',
           target[t] \in attached' =>
               \A d \in Deps[target[t]] : d # target[t] /\ state[d] = "running",
           state[target[t]] = "running" /\ state'[target[t]] # "running" =>
               \A q \in attached : target[t] \notin Deps[q]
    PROVE  InductiveInvariant'
<1>1. /\ Locking' /\ Sweeping'
      /\ \A u \in Tasks : u # t => ~Operating(u)' /\ ~Engaged(u)'
  BY GoesOn
<1>2. Progress'
  BY <1>1, OnlyItsProgress
<1>3. target[t] \in loaded
  BY InHand
<1>4. attached' \subseteq Plugins
  BY DEF TypeOK
<1>5. x # "starting" => Engaged(t)'
  BY DEF Engaged, InductiveInvariant, TypeOK
<1>6. Settled' /\ Standing'
  BY <1>1, <1>3, <1>4, <1>5, OnlyTheTarget
<1> QED  BY <1>1, <1>2, <1>6 DEF InductiveInvariant

\* A step that ends the work of its task on the plugin in its hand.
LEMMA EndingKeeps ==
    ASSUME InductiveInvariant, NEW t \in Tasks, NEW r, Operating(t), TypeOK',
           pc[t] = "granted" => target[t] \in loaded,
           Conclude(t, r),
           UNCHANGED <<target, loaded>>,
           \A p \in Plugins : p # target[t] => state'[p] = state[p],
           attached' = attached \/ attached' = attached \ {target[t]},
           pc[t] \in StopHooks => target[t] \notin attached',
           target[t] \in attached' <=> state'[target[t]] = "running",
           state'[target[t]] # "initialized",
           target[t] \in attached' =>
               \A d \in Deps[target[t]] : d # target[t] /\ state[d] = "running",
           state[target[t]] = "running" /\ state'[target[t]] # "running" =>
               \A q \in attached : target[t] \notin Deps[q]
    PROVE  InductiveInvariant'
<1>1. phase = "stopping" /\ t = Lifespan => target[t] \notin attached'
  BY DEF InductiveInvariant, Locking, Operating, Synchronous, StartHooks, StopHooks
<1>2. attached' \subseteq attached
  OBVIOUS
<1>3. /\ Locking' /\ Sweeping'
      /\ \A u \in Tasks : ~Operating(u)' /\ ~Engaged(u)'
  BY <1>1, <1>2, Ends
<1>4. ProgressOf(t)'
  BY <1>3 DEF ProgressOf, Operating, Engaged, Synchronous, StartHooks, StopHooks
<1>5. Progress'
  BY <1>3, <1>4, OnlyItsProgress
<1>6. target[t] \in loaded /\ attached' \subseteq Plugins
  BY InHand DEF TypeOK
<1>7. Settled' /\ Standing'
  BY <1>3, <1>6, OnlyTheTarget
<1> QED  BY <1>3, <1>5, <1>7 DEF InductiveInvariant
-----------------------------------------------------------------------------
(* The steps of a task, one by one.                                        *)

\* The steps of an operation that has just been granted the lock preserve the invariant.
LEMMA GrantedSteps ==
    ASSUME InductiveInvariant, NEW t \in Tasks, TypeOK',
           \/ Unavailable(t) \/ RefuseDependents(t)
           \/ StopBegins(t) \/ StopsAtOnce(t) \/ StartsDirectly(t)
    PROVE  InductiveInvariant'
<1>1. /\ pc[t] = "granted" /\ Operating(t) /\ ~Engaged(t)
      /\ UNCHANGED <<target, loaded>>
  BY DEF Unavailable, RefuseDependents, StopBegins, StopsAtOnce, StartsDirectly, NeedsStop,
         Operating, Engaged, Synchronous, StartHooks, StopHooks
<1>2. t # Lifespan
  BY <1>1 DEF InductiveInvariant, Locking, TypeOK, StartHooks, StopHooks
<1>3. CASE Unavailable(t) \/ RefuseDependents(t)
  <2>1. PICK r : Answer(t, r)
    BY <1>3 DEF Unavailable, RefuseDependents
  <2>2. UNCHANGED <<state, attached>> /\ Conclude(t, r)
    BY <1>3, <2>1 DEF Unavailable, RefuseDependents, Conclude
  <2>3. /\ Locking' /\ Sweeping'
        /\ \A u \in Tasks : ~Operating(u)' /\ ~Engaged(u)'
    BY <1>1, <1>2, <2>2, Ends
  <2>4. \A u \in Tasks : ~Engaged(u)
    BY <1>1, Solo DEF Operating, Engaged
  <2>5. Progress'
    BY <2>3 DEF Progress, ProgressOf, Operating, Engaged, Synchronous, StartHooks, StopHooks
  <2>6. Settled' /\ Standing'
    BY <1>1, <2>2, <2>4 DEF InductiveInvariant, Settled, Standing
  <2> QED  BY <2>3, <2>5, <2>6 DEF InductiveInvariant
<1>4. CASE StopBegins(t)
  <2>1. /\ pc' = [pc EXCEPT ![t] = "stop_hook"] /\ why' = [why EXCEPT ![t] = op[t]]
        /\ target[t] \in loaded /\ target[t] \in attached
        /\ op[t] \in {"stop", "restart"}
        /\ UNCHANGED <<state, attached, lock, phase, cursor>>
    BY <1>4 DEF StopBegins, NeedsStop, BeginStop, Goto
  <2>2. /\ target[t] \in Plugins
        /\ state[target[t]] = "running"
        /\ \A d \in Deps[target[t]] : state[d] = "running"
        /\ \A p \in Plugins : p \in attached <=> state[p] = "running"
    BY <1>1, <2>1, InHand
  <2>3. \A q \in attached : target[t] \notin Deps[q]
    BY <1>4, <2>2 DEF StopBegins, NeedsStop, ActiveDependents, InductiveInvariant, TypeOK, Standing
  <2>4. pc'[t] = "stop_hook" /\ why'[t] = op[t]
    BY <2>1 DEF InductiveInvariant, TypeOK
  <2>5. ProgressOf(t)'
    BY <1>1, <1>2, <2>1, <2>2, <2>3, <2>4 DEF ProgressOf, Engaged, Stopping, StartHooks, StopHooks
  <2> QED  BY <1>1, <1>2, <2>1, <2>2, <2>3, <2>5, GoingOnKeeps DEF StopHooks
<1>5. CASE StopsAtOnce(t)
  <2>1. /\ target[t] \in loaded /\ target[t] \notin attached
        /\ state' = [state EXCEPT ![target[t]] = "stopped"]
        /\ UNCHANGED attached
    BY <1>5 DEF StopsAtOnce, NeedsStop
  <2>2. /\ target[t] \in Plugins
        /\ \A p \in Plugins : p \in attached <=> state[p] = "running"
    BY <1>1, <2>1, InHand
  <2>3. /\ \A p \in Plugins : p # target[t] => state'[p] = state[p]
        /\ state'[target[t]] = "stopped" /\ state[target[t]] # "running"
    BY <2>1, <2>2 DEF InductiveInvariant, TypeOK
  <2>4. CASE op[t] = "restart"
    <3>1. pc' = [pc EXCEPT ![t] = "starting"] /\ UNCHANGED <<lock, phase, cursor>>
      BY <1>5, <2>4 DEF StopsAtOnce, Goto
    <3>2. pc'[t] = "starting"
      BY <3>1 DEF InductiveInvariant, TypeOK
    <3>3. ProgressOf(t)'
      BY <1>1, <2>1, <3>2 DEF ProgressOf, Engaged, StartHooks, StopHooks
    <3> QED  BY <1>1, <1>2, <2>1, <2>3, <3>1, <3>3, GoingOnKeeps
  <2>5. CASE op[t] # "restart"
    <3>1. Conclude(t, "200")
      BY <1>5, <2>5 DEF StopsAtOnce, Conclude
    <3> QED  BY <1>1, <2>1, <2>3, <3>1, EndingKeeps
  <2> QED  BY <2>4, <2>5
<1>6. CASE StartsDirectly(t)
  <2>1. /\ pc' = [pc EXCEPT ![t] = "starting"] /\ target[t] \in loaded
        /\ UNCHANGED <<state, attached, lock, phase, cursor>>
    BY <1>6 DEF StartsDirectly, Goto
  <2>2. pc'[t] = "starting"
    BY <2>1 DEF InductiveInvariant, TypeOK
  <2>3. ProgressOf(t)'
    BY <1>1, <2>1, <2>2 DEF ProgressOf, Engaged, StartHooks, StopHooks
  <2>4. /\ Locking' /\ Sweeping'
        /\ \A u \in Tasks : u # t => ~Operating(u)' /\ ~Engaged(u)'
    BY <1>1, <1>2, <2>1, GoesOn
  <2>5. Progress'
    BY <2>3, <2>4, OnlyItsProgress
  <2>6. \A u \in Tasks : ~Engaged(u)
    BY <1>1, Solo DEF Operating, Engaged
  <2>7. Settled' /\ Standing'
    BY <1>1, <2>1, <2>6 DEF InductiveInvariant, Settled, Standing
  <2> QED  BY <2>4, <2>5, <2>7 DEF InductiveInvariant
<1> QED  BY <1>3, <1>4, <1>5, <1>6

\* So do the steps that begin a start, or refuse it, before any hook runs.
LEMMA StartingSteps ==
    ASSUME InductiveInvariant, NEW t \in Tasks, TypeOK',
           AlreadyRunning(t) \/ DependencyMissing(t) \/ SettingsInvalid(t) \/ Attach(t)
    PROVE  InductiveInvariant'
<1>1. /\ pc[t] = "starting" /\ Operating(t) /\ ~Engaged(t)
      /\ UNCHANGED <<target, loaded>>
  BY DEF AlreadyRunning, DependencyMissing, SettingsInvalid, Attach,
         Operating, Engaged, Synchronous, StartHooks, StopHooks
<1>2. /\ target[t] \in loaded /\ target[t] \in Plugins
      /\ target[t] \in attached <=> state[target[t]] = "running"
      /\ state[target[t]] # "initialized"
      /\ target[t] \in attached => \A d \in Deps[target[t]] : state[d] = "running"
  BY <1>1, InHand
<1>3. CASE AlreadyRunning(t)
  <2>1. UNCHANGED <<state, attached>> /\ Conclude(t, "200") /\ t \in Requests
    BY <1>3 DEF AlreadyRunning, Conclude, Answer
  <2>2. /\ Locking' /\ Sweeping'
        /\ \A u \in Tasks : ~Operating(u)' /\ ~Engaged(u)'
    BY <1>1, <2>1, NamesAssumption, Ends
  <2>3. Progress'
    BY <2>2 DEF Progress, ProgressOf, Operating, Engaged, Synchronous, StartHooks, StopHooks
  <2>4. \A u \in Tasks : ~Engaged(u)
    BY <1>1, Solo DEF Operating, Engaged
  <2>5. Settled' /\ Standing'
    BY <1>1, <2>1, <2>4 DEF InductiveInvariant, Settled, Standing
  <2> QED  BY <2>2, <2>3, <2>5 DEF InductiveInvariant
<1>4. CASE DependencyMissing(t) \/ SettingsInvalid(t)
  <2>1. /\ state[target[t]] # "running"
        /\ state' = state \/ state' = [state EXCEPT ![target[t]] = "error"]
        /\ Conclude(t, "409")
        /\ UNCHANGED attached
    BY <1>4 DEF DependencyMissing, SettingsInvalid
  <2>2. /\ \A p \in Plugins : p # target[t] => state'[p] = state[p]
        /\ state'[target[t]] \notin {"running", "initialized"}
    BY <1>2, <2>1 DEF InductiveInvariant, TypeOK
  <2> QED  BY <1>1, <1>2, <2>1, <2>2, EndingKeeps DEF StopHooks
<1>5. CASE Attach(t)
  <2>1. /\ state[target[t]] # "running"
        /\ \A d \in Deps[target[t]] : state[d] = "running"
        /\ attached' = attached \cup {target[t]}
        /\ pc' = [pc EXCEPT ![t] = "init_hook"]
        /\ UNCHANGED <<state, lock, phase, cursor>>
    BY <1>5 DEF Attach, Goto, MissingDependencies
  <2>2. state[target[t]] \in {"validated", "stopped", "error"}
    BY <1>2, <2>1 DEF InductiveInvariant, TypeOK, States
  <2>3. pc'[t] = "init_hook"
    BY <2>1 DEF InductiveInvariant, TypeOK
  <2>4. ProgressOf(t)'
    BY <1>1, <1>2, <2>1, <2>2, <2>3 DEF ProgressOf, Engaged, StartHooks, StopHooks
  <2>5. ~(t = Lifespan /\ phase = "stopping")
    BY <1>1 DEF InductiveInvariant, Locking, StopHooks
  <2> QED  BY <1>1, <1>2, <2>1, <2>2, <2>4, <2>5, GoingOnKeeps DEF StartHooks
<1> QED  BY <1>3, <1>4, <1>5

\* What a hook does through its context is outside the invariant.
LEMMA ContextSteps ==
    ASSUME InductiveInvariant, NEW t \in Tasks, TypeOK',
           \/ \E c \in Capabilities : RegisterService(t, c) \/ GetService(t, c)
           \/ Subscribe(t)
    PROVE  InductiveInvariant'
<1>1. UNCHANGED <<state, attached, loaded, lockVars, taskVars, hostVars>>
  BY DEF RegisterService, GetService, Subscribe
<1>2. \A u \in Tasks : (Operating(u)' <=> Operating(u)) /\ (Engaged(u)' <=> Engaged(u))
  BY <1>1 DEF Operating, Engaged
<1>3. Locking' /\ Sweeping'
  BY <1>1, <1>2 DEF InductiveInvariant, Locking, Sweeping
<1>4. Progress'
  BY <1>1, <1>2 DEF InductiveInvariant, Progress, ProgressOf, Stopping
<1>5. Settled' /\ Standing'
  BY <1>1, <1>2 DEF InductiveInvariant, Settled, Standing
<1> QED  BY <1>3, <1>4, <1>5 DEF InductiveInvariant

\* initialize() and start(), from hook to hook.
LEMMA HookSteps ==
    ASSUME InductiveInvariant, NEW t \in Tasks, TypeOK',
           \/ InitReturns(t) \/ InitPublished(t) \/ CapabilityMissing(t) \/ HookFails(t)
           \/ StartReturns(t) \/ StopReturns(t)
           \/ InterruptStart(t, "timed_out") \/ InterruptStart(t, "cancelled")
    PROVE  InductiveInvariant'
<1>1. /\ Engaged(t) /\ Operating(t)
      /\ UNCHANGED <<attached, lock, phase, cursor, target, loaded>>
  BY DEF InitReturns, InitPublished, CapabilityMissing, HookFails, StartReturns, StopReturns,
         InterruptStart, At, Operating, Engaged, StartHooks, StopHooks
<1>2. /\ ProgressOf(t)
      /\ target[t] \in loaded /\ target[t] \in Plugins /\ target[t] \in attached
      /\ \A d \in Deps[target[t]] : d # target[t] /\ state[d] = "running"
  BY <1>1, InHand DEF Operating, Engaged, StartHooks, StopHooks
<1>3. t = Lifespan /\ phase = "stopping" => pc[t] \in StopHooks
  BY <1>1 DEF InductiveInvariant, Locking, Engaged, StartHooks, StopHooks
<1>4. state[target[t]] = "running" => \A q \in attached : target[t] \notin Deps[q]
  BY <1>1, <1>2 DEF ProgressOf, Engaged, StartHooks, Stopping
<1>5. \A s \in States : state' = [state EXCEPT ![target[t]] = s] =>
          /\ \A p \in Plugins : p # target[t] => state'[p] = state[p]
          /\ state'[target[t]] = s
  BY <1>2 DEF InductiveInvariant, TypeOK
<1>6. \A x \in Places : pc' = [pc EXCEPT ![t] = x] => pc'[t] = x
  BY DEF InductiveInvariant, TypeOK
<1>7. \A w \in Whys : why' = [why EXCEPT ![t] = w] => why'[t] = w
  BY DEF InductiveInvariant, TypeOK
<1>8. CASE InitReturns(t)
  <2>1. /\ pc[t] = "init_hook"
        /\ pc' = [pc EXCEPT ![t] = "init_publish"]
        /\ state' = [state EXCEPT ![target[t]] = "initialized"]
    BY <1>8 DEF InitReturns, At, Goto
  <2>2. /\ pc'[t] = "init_publish" /\ state'[target[t]] = "initialized"
        /\ \A p \in Plugins : p # target[t] => state'[p] = state[p]
    BY <1>5, <1>6, <2>1 DEF States, Places, InFlight, StartHooks
  <2>3. ProgressOf(t)' /\ state[target[t]] # "running" /\ ~(t = Lifespan /\ phase = "stopping")
    BY <1>1, <1>2, <1>3, <2>1, <2>2 DEF ProgressOf, Engaged, StartHooks, StopHooks
  <2> QED  BY <1>1, <1>2, <2>1, <2>2, <2>3, GoingOnKeeps DEF StartHooks
<1>9. CASE InitPublished(t)
  <2>1. /\ pc[t] = "init_publish"
        /\ pc' = [pc EXCEPT ![t] = "start_hook"]
        /\ UNCHANGED state
    BY <1>9 DEF InitPublished, At, Goto
  <2>2. pc'[t] = "start_hook"
    BY <1>6, <2>1 DEF Places, InFlight, StartHooks
  <2>3. ProgressOf(t)' /\ state[target[t]] = "initialized" /\ ~(t = Lifespan /\ phase = "stopping")
    BY <1>1, <1>2, <1>3, <2>1, <2>2 DEF ProgressOf, Engaged, StartHooks, StopHooks
  <2> QED  BY <1>1, <1>2, <2>1, <2>2, <2>3, GoingOnKeeps DEF StartHooks
<1>10. CASE CapabilityMissing(t)
  <2>1. /\ pc[t] = "init_publish"
        /\ pc' = [pc EXCEPT ![t] = "stop_hook"] /\ why' = [why EXCEPT ![t] = "failed"]
        /\ UNCHANGED state
    BY <1>10 DEF CapabilityMissing, At, BeginStop, Goto
  <2>2. pc'[t] = "stop_hook" /\ why'[t] = "failed"
    BY <1>6, <1>7, <2>1 DEF Places, InFlight, StopHooks, Whys
  <2>3. state[target[t]] = "initialized" /\ (t = Lifespan => phase = "starting")
    BY <1>2, <1>3, <2>1 DEF ProgressOf, StopHooks, InductiveInvariant, Locking, TypeOK
  <2>4. ProgressOf(t)'
    BY <1>1, <1>2, <2>1, <2>2, <2>3 DEF ProgressOf, Stopping, Engaged, StartHooks, StopHooks
  <2> QED  BY <1>1, <1>2, <2>1, <2>3, <2>4, GoingOnKeeps DEF StopHooks
<1>11. CASE \/ HookFails(t) \/ InterruptStart(t, "timed_out") \/ InterruptStart(t, "cancelled")
  <2>1. PICK w \in {"failed", "timed_out", "cancelled"} :
          /\ pc[t] \in StartHooks
          /\ pc' = [pc EXCEPT ![t] = "stop_hook"] /\ why' = [why EXCEPT ![t] = w]
          /\ state' = [state EXCEPT ![target[t]] = "error"]
    BY <1>11 DEF HookFails, InterruptStart, At, BeginStop, Goto, StartHooks
  <2>2. pc'[t] = "stop_hook" /\ why'[t] = w
    BY <1>6, <1>7, <2>1 DEF Places, InFlight, StopHooks, Whys
  <2>3. /\ state'[target[t]] = "error"
        /\ \A p \in Plugins : p # target[t] => state'[p] = state[p]
    BY <1>5, <2>1 DEF States
  <2>4. t = Lifespan => phase = "starting"
    BY <1>3, <2>1 DEF StartHooks, StopHooks, InductiveInvariant, Locking, TypeOK
  <2>5. ProgressOf(t)'
    BY <1>1, <1>2, <2>1, <2>2, <2>3, <2>4 DEF ProgressOf, Stopping, Engaged, StartHooks, StopHooks
  <2> QED  BY <1>1, <1>2, <1>4, <2>1, <2>3, <2>5, GoingOnKeeps DEF StartHooks, StopHooks
<1>12. CASE StartReturns(t)
  <2>1. /\ pc[t] = "start_hook"
        /\ pc' = [pc EXCEPT ![t] = "start_publish"]
        /\ state' = [state EXCEPT ![target[t]] = "running"]
    BY <1>12 DEF StartReturns, At, Goto
  <2>2. /\ pc'[t] = "start_publish" /\ state'[target[t]] = "running"
        /\ \A p \in Plugins : p # target[t] => state'[p] = state[p]
    BY <1>5, <1>6, <2>1 DEF States, Places, InFlight, StartHooks
  <2>3. state[target[t]] = "initialized" /\ ~(t = Lifespan /\ phase = "stopping")
    BY <1>2, <1>3, <2>1 DEF ProgressOf, StopHooks
  <2>4. \A q \in attached : target[t] \notin Deps[q]
    BY <2>3 DEF InductiveInvariant, Standing
  <2>5. ProgressOf(t)'
    BY <1>1, <1>2, <2>2, <2>4 DEF ProgressOf, Engaged, StartHooks, StopHooks
  <2> QED  BY <1>1, <1>2, <2>1, <2>2, <2>3, <2>5, GoingOnKeeps DEF StartHooks
<1>13. CASE StopReturns(t)
  <2>1. /\ pc[t] = "stop_hook"
        /\ pc' = [pc EXCEPT ![t] = "stop_publish"]
        /\ UNCHANGED <<state, why>>
    BY <1>13 DEF StopReturns, At, Goto
  <2>2. pc'[t] = "stop_publish"
    BY <1>6, <2>1 DEF Places, InFlight, StopHooks
  <2>3. ProgressOf(t)'
    BY <1>1, <1>2, <2>1, <2>2 DEF ProgressOf, Stopping, Engaged, StartHooks, StopHooks
  <2> QED  BY <1>1, <1>2, <2>1, <2>2, <2>3, GoingOnKeeps DEF StopHooks
<1> QED  BY <1>8, <1>9, <1>10, <1>11, <1>12, <1>13

\* So does the end of a start, the publication of plugin_started.
LEMMA StartPublishedStep ==
    ASSUME InductiveInvariant, NEW t \in Tasks, TypeOK', StartPublished(t)
    PROVE  InductiveInvariant'
<1>1. /\ pc[t] = "start_publish" /\ Engaged(t) /\ Operating(t)
      /\ Conclude(t, "200")
      /\ UNCHANGED <<state, attached, target, loaded>>
  BY DEF StartPublished, At, Operating, Engaged, StartHooks
<1>2. /\ state[target[t]] = "running" /\ target[t] \in attached
      /\ \A d \in Deps[target[t]] : d # target[t] /\ state[d] = "running"
  BY <1>1, InHand DEF ProgressOf
<1> QED  BY <1>1, <1>2, EndingKeeps DEF StopHooks

\* plugin.stop() is over, in whatever way: the plugin is stopped or in error,
\* and holds nothing; a restart goes on, everything else concludes.
LEMMA StopSteps ==
    ASSUME InductiveInvariant, NEW t \in Tasks, TypeOK',
           \/ StopFails(t) \/ StopPublished(t)
           \/ InterruptStop(t) /\ \E r \in Replies : Conclude(t, r)
    PROVE  InductiveInvariant'
<1>1. /\ pc[t] \in StopHooks /\ Engaged(t) /\ Operating(t)
      /\ UNCHANGED <<target, loaded>>
      /\ attached' = attached \ {target[t]}
  BY DEF StopFails, StopPublished, FinishStop, InterruptStop, Cleanup, At, Operating, Engaged, StopHooks
<1>2. /\ ProgressOf(t) /\ target[t] \in Plugins /\ target[t] \in loaded
  BY <1>1, InHand DEF Operating, Engaged, StopHooks, StartHooks
<1>3. Stopping(t)
  BY <1>1, <1>2 DEF ProgressOf
<1>4. state[target[t]] = "running" => \A q \in attached : target[t] \notin Deps[q]
  BY <1>3 DEF Stopping
<1>5. PICK s \in {"stopped", "error"} : state' = [state EXCEPT ![target[t]] = s]
  BY DEF StopFails, StopPublished, FinishStop, InterruptStop, StateAfterStop
<1>6. /\ state'[target[t]] \notin {"running", "initialized"}
      /\ \A p \in Plugins : p # target[t] => state'[p] = state[p]
  BY <1>2, <1>5 DEF InductiveInvariant, TypeOK
<1>7. CASE \E r : Conclude(t, r)
  <2>1. PICK r : Conclude(t, r)
    BY <1>7
  <2> QED  BY <1>1, <1>4, <1>6, <2>1, EndingKeeps DEF StopHooks
<1>8. CASE why[t] = "restart" /\ pc' = [pc EXCEPT ![t] = "starting"] /\ UNCHANGED <<lock, phase, cursor>>
  <2>1. pc'[t] = "starting" /\ t # Lifespan
    BY <1>3, <1>8 DEF Stopping, InductiveInvariant, TypeOK
  <2>2. ProgressOf(t)'
    BY <1>1, <1>2, <2>1 DEF ProgressOf, Engaged, StartHooks, StopHooks
  <2> QED  BY <1>1, <1>4, <1>6, <1>8, <2>1, <2>2, GoingOnKeeps DEF StopHooks
<1>9. ASSUME NEW ok \in BOOLEAN, FinishStop(t, ok) PROVE InductiveInvariant'
  <2>1. CASE why[t] = "restart" /\ ok
    BY <1>8, <1>9, <2>1 DEF FinishStop, Goto
  <2>2. CASE ~(why[t] = "restart" /\ ok)
    BY <1>7, <1>9, <2>2 DEF FinishStop
  <2> QED  BY <2>1, <2>2
<1> QED  BY <1>7, <1>9 DEF StopFails, StopPublished
-----------------------------------------------------------------------------
(* The steps before and around the operations.                             *)

\* No task takes up or puts down a plugin.
LEMMA NobodyMoves ==
    ASSUME InductiveInvariant, Locking', Sweeping',
           UNCHANGED <<state, attached, loaded>>,
           \A u \in Tasks : /\ pc'[u] = pc[u] /\ target'[u] = target[u] /\ why'[u] = why[u]
                            \/ pc'[u] = "granted"
                            \/ ~Operating(u)',
           \A u \in Tasks : Engaged(u) => Engaged(u)' /\ target'[u] = target[u],
           phase' = phase \/ ~Engaged(Lifespan),
           TypeOK'
    PROVE  InductiveInvariant'
<1>1. Progress'
  <2> SUFFICES ASSUME NEW u \in Tasks PROVE ProgressOf(u)'
    BY DEF Progress
  <2>1. CASE ~Operating(u)' \/ pc'[u] = "granted"
    BY <2>1 DEF ProgressOf, Operating, Engaged, Synchronous, StartHooks, StopHooks
  <2>2. CASE pc'[u] = pc[u] /\ target'[u] = target[u] /\ why'[u] = why[u]
    <3>1. ProgressOf(u)
      BY DEF InductiveInvariant, Progress
    <3>2. pc[u] \in StopHooks => Stopping(u)'
      BY <2>2, <3>1 DEF ProgressOf, Stopping, Engaged
    <3> QED  BY <2>2, <3>1, <3>2 DEF ProgressOf, Engaged
  <2> QED  BY <2>1, <2>2
<1>2. Settled'
  BY DEF InductiveInvariant, Settled
<1>3. Standing'
  BY DEF InductiveInvariant, Standing
<1> QED  BY <1>1, <1>2, <1>3 DEF InductiveInvariant

\* So do the steps around the lock: submitting, waiting, giving up and acquiring.
LEMMA QueueSteps ==
    ASSUME InductiveInvariant, TypeOK',
           \/ \E t \in Requests, o \in Ops, p \in Plugins \cup {Nobody} : Submit(t, o, p)
           \/ \E t \in Tasks : \/ Acquire(t)
                               \/ \E r \in Replies : LeaveQueue(t, r)
    PROVE  InductiveInvariant'
<1> USE DEF InductiveInvariant, TypeOK
<1>1. CASE \E t \in Requests, o \in Ops, p \in Plugins \cup {Nobody} : Submit(t, o, p)
  <2>1. PICK t \in Requests, o \in Ops, p \in Plugins \cup {Nobody} : Submit(t, o, p)
    BY <1>1
  <2>2. PICK x \in {"waiting", "granted"} :
            /\ pc[t] = "idle" /\ pc' = [pc EXCEPT ![t] = x]
            /\ IF x = "granted" THEN lock = Nobody /\ lock' = t ELSE lock' = lock
            /\ pc[Lifespan] = "serving" /\ t # Lifespan
            /\ target' = [target EXCEPT ![t] = p]
            /\ UNCHANGED <<state, attached, loaded, why, phase, cursor>>
    BY <2>1, NamesAssumption DEF Submit, Free, Goto
  <2>3. /\ pc'[t] = x /\ ~Operating(t) /\ ~Engaged(t) /\ ~Engaged(t)'
        /\ pc'[t] \notin {"starting"} \cup StartHooks \cup StopHooks
        /\ \A u \in Tasks : u # t => pc'[u] = pc[u] /\ target'[u] = target[u]
    BY <2>2 DEF Operating, Engaged, Synchronous, StartHooks, StopHooks
  <2>4. phase = "ready" /\ pc'[Lifespan] = "serving"
    BY <2>2, <2>3 DEF Locking, StartHooks, StopHooks
  <2>5. \A u \in Requests : Operating(u)' => lock' = u
    BY <2>2, <2>3, NamesAssumption DEF Locking, Operating, Synchronous, StartHooks, StopHooks
  <2>6. Locking' /\ Sweeping'
    BY <2>2, <2>3, <2>4, <2>5 DEF Locking, Sweeping, InFlight, Synchronous
  <2>7. \A u \in Tasks : \/ pc'[u] = pc[u] /\ target'[u] = target[u] /\ why'[u] = why[u]
                         \/ pc'[u] = "granted"
                         \/ ~Operating(u)'
    BY <2>2, <2>3 DEF Operating, Synchronous, StartHooks, StopHooks
  <2>8. \A u \in Tasks : Engaged(u) => Engaged(u)' /\ target'[u] = target[u]
    BY <2>3 DEF Engaged
  <2> QED  BY <2>2, <2>6, <2>7, <2>8, NobodyMoves
<1>2. CASE \E t \in Tasks : Acquire(t)
  <2>1. PICK t \in Tasks : Acquire(t)
    BY <1>2
  <2>2. /\ pc[t] = "waiting" /\ lock = Nobody /\ lock' = t
        /\ pc' = [pc EXCEPT ![t] = IF t = Lifespan THEN "stop_all" ELSE "granted"]
        /\ UNCHANGED <<state, attached, loaded, target, why, phase, cursor>>
    BY <2>1 DEF Acquire, At, Goto
  <2>3. /\ pc'[t] = IF t = Lifespan THEN "stop_all" ELSE "granted"
        /\ ~Operating(t) /\ ~Engaged(t)
        /\ \A u \in Tasks : u # t => pc'[u] = pc[u]
    BY <2>2 DEF Operating, Engaged, Synchronous, StartHooks, StopHooks
  <2>4. phase # "starting" /\ \A u \in Requests : ~Operating(u) /\ u # Lifespan
    BY <2>2, NamesAssumption DEF Locking, StartHooks, StopHooks
  <2>5. \A u \in Tasks : ~Engaged(u)
    <3>1. ~Engaged(Lifespan)
      BY <2>2, <2>4, NamesAssumption DEF Locking, Engaged, StartHooks, StopHooks
    <3> QED  BY <2>4, <3>1 DEF Operating, Engaged
  <2>6. CASE t = Lifespan
    <3>1. phase = "stopping" /\ ~Operating(Lifespan)' /\ pc'[Lifespan] = "stop_all"
      BY <2>2, <2>3, <2>4, <2>6 DEF Locking, Operating, Synchronous, StartHooks, StopHooks
    <3>2. Locking'
      BY <2>2, <2>3, <2>4, <2>6, <3>1 DEF Locking, Operating
    <3>3. cursor = Len(Order)
      BY <2>2, <2>6, <3>1 DEF Sweeping
    <3>4. Sweeping'
      BY <2>2, <3>1, <3>3, OrderTyped DEF Sweeping, StopHooks
    <3> QED  BY <2>2, <2>3, <2>5, <2>6, <3>1, <3>2, <3>4, NobodyMoves
  <2>7. CASE t # Lifespan
    <3>1. pc'[Lifespan] = pc[Lifespan] /\ pc'[t] = "granted" /\ t \in Requests
      BY <2>3, <2>7
    <3>2. ~(phase = "stopping" /\ pc[Lifespan] \in {"stop_all"} \cup StopHooks)
      BY <2>2, NamesAssumption DEF Locking
    <3>3. Locking'
      BY <2>2, <2>3, <2>4, <3>1, <3>2 DEF Locking, Operating, InFlight, Synchronous
    <3>4. Sweeping'
      BY <2>2, <2>4, <3>1 DEF Sweeping
    <3> QED  BY <2>2, <2>3, <2>5, <2>7, <3>3, <3>4, NobodyMoves
  <2> QED  BY <2>6, <2>7
<1>3. CASE \E t \in Tasks, r \in Replies : LeaveQueue(t, r)
  <2>1. PICK t \in Tasks, r \in Replies : LeaveQueue(t, r)
    BY <1>3
  <2>2. /\ pc[t] = "waiting"
        /\ pc' = [pc EXCEPT ![t] = IF t = Lifespan THEN "exited" ELSE "done"]
        /\ UNCHANGED <<state, attached, loaded, lock, target, why, phase, cursor>>
    BY <2>1 DEF LeaveQueue, Goto
  <2>3. /\ pc'[t] = IF t = Lifespan THEN "exited" ELSE "done"
        /\ ~Operating(t) /\ ~Engaged(t) /\ ~Operating(t)'
        /\ \A u \in Tasks : u # t => pc'[u] = pc[u]
    BY <2>2 DEF Operating, Engaged, Synchronous, StartHooks, StopHooks
  <2>4. Locking' /\ Sweeping'
    BY <2>2, <2>3, NamesAssumption DEF Locking, Sweeping, Operating, InFlight, StartHooks, StopHooks
  <2> QED  BY <2>2, <2>3, <2>4, NobodyMoves DEF Engaged
<1> QED  BY <1>1, <1>2, <1>3

\* So do startup and shutdown, which drive the operations one after another.
LEMMA LifespanSteps ==
    ASSUME InductiveInvariant, TypeOK', LifespanStep \/ BeginShutdown
    PROVE  InductiveInvariant'
<1> USE DEF InductiveInvariant, TypeOK
<1>1. /\ pc[Lifespan] \in {"start_all", "stop_all", "serving"}
      /\ \A u \in Requests : pc'[u] = pc[u] /\ target'[u] = target[u] /\ why'[u] = why[u]
      /\ \A u \in Requests : u # Lifespan
      /\ UNCHANGED <<attached, loaded>>
  BY NamesAssumption DEF LifespanStep, StartNext, MarkReady, StopNext, StopsNothing, AllStopped,
     BeginShutdown, BeginStop, Goto
<1>2. ~Operating(Lifespan) /\ ~Engaged(Lifespan)
  BY <1>1 DEF Operating, Engaged, Synchronous, StartHooks, StopHooks
<1>3. pc[Lifespan] # "serving" => \A u \in Requests : ~Operating(u) /\ ~Engaged(u)
  <2>1. pc[Lifespan] = "start_all" => phase = "starting"
    BY DEF Locking, StopHooks
  <2>2. pc[Lifespan] = "stop_all" => phase = "stopping" /\ lock = Lifespan
    BY DEF Locking, StartHooks, StopHooks
  <2>3. \A u \in Requests : Engaged(u) => Operating(u)
    BY DEF Operating, Engaged
  <2> QED  BY <1>1, <2>1, <2>2, <2>3 DEF Locking, Operating, Synchronous, StartHooks, StopHooks
<1>4. pc[Lifespan] # "serving" => \A p \in Plugins :
          (p \in attached <=> state[p] = "running") /\ state[p] # "initialized"
  BY <1>2, <1>3 DEF Settled
<1>5. CASE StartNext
  <2>1. phase = "starting" /\ UNCHANGED <<state, lock, why, phase>>
    BY <1>5 DEF StartNext, Locking, StopHooks
  <2>2. CASE Order[cursor] \in loaded
    <3>1. /\ pc'[Lifespan] = "starting" /\ target'[Lifespan] = Order[cursor]
          /\ cursor' = cursor /\ cursor \in 1..Len(Order)
      BY <1>5, <2>2 DEF StartNext, Goto
    <3>2. \A u \in Tasks : ~Engaged(u)'
      BY <1>1, <1>2, <1>3, <1>5, <3>1 DEF StartNext, Engaged, StartHooks, StopHooks
    <3>3. Locking'
      BY <1>1, <2>1, <3>1 DEF Locking, Operating
    <3>4. Sweeping'
      BY <2>1, <3>1 DEF Sweeping
    <3>5. ProgressOf(Lifespan)'
      BY <1>1, <2>2, <3>1, <3>2 DEF ProgressOf, StartHooks, StopHooks
    <3>6. \A u \in Tasks : u # Lifespan => ~Operating(u)'
      BY <1>1, <1>3, <1>5 DEF StartNext, Operating
    <3>7. Progress'
      BY <3>5, <3>6, OnlyItsProgress
    <3>8. Settled' /\ Standing'
      BY <1>1, <1>4, <1>5, <2>1 DEF StartNext, Settled, Standing
    <3> QED  BY <3>3, <3>4, <3>7, <3>8
  <2>3. CASE Order[cursor] \notin loaded
    <3>1. UNCHANGED <<pc, target>>
      BY <1>5, <2>3 DEF StartNext
    <3>2. Locking' /\ Sweeping'
      BY <1>2, <2>1, <3>1 DEF Locking, Sweeping, Operating
    <3> QED  BY <1>1, <2>1, <3>1, <3>2, NobodyMoves DEF Engaged
  <2> QED  BY <2>2, <2>3
<1>6. CASE MarkReady
  <2>1. /\ phase = "starting" /\ phase' = "ready" /\ pc'[Lifespan] = "serving"
        /\ UNCHANGED <<state, lock, why, target>>
    BY <1>6 DEF MarkReady, Goto, Locking, StopHooks
  <2>2. Locking' /\ Sweeping'
    BY <1>1, <2>1 DEF Locking, Sweeping, Operating
  <2>3. ~Operating(Lifespan)' /\ \A u \in Requests : Engaged(u)' <=> Engaged(u)
    BY <1>1, <2>1 DEF Operating, Engaged, Synchronous, StartHooks, StopHooks
  <2> QED  BY <1>1, <1>2, <2>1, <2>2, <2>3, NobodyMoves
<1>7. CASE BeginShutdown
  <2>1. /\ \/ pc'[Lifespan] \in {"waiting", "exited"} /\ lock' = lock
           \/ pc'[Lifespan] = "stop_all" /\ lock = Nobody /\ lock' = Lifespan
        /\ phase' = "stopping" /\ cursor' = Len(Order)
        /\ UNCHANGED <<state, why, target>>
    BY <1>7 DEF BeginShutdown, Free, Goto, lockVars
  <2>2. phase = "ready"
    BY <1>7 DEF BeginShutdown, Locking, StartHooks, StopHooks
  <2>3. Locking' /\ Sweeping'
    <3>1. \A u \in Requests : Operating(u)' => lock' = u
      BY <1>1, <2>1, NamesAssumption DEF Locking, Operating
    <3>2. Locking'
      BY <1>1, <2>1, <2>2, <3>1 DEF Locking, StopHooks
    <3>3. Sweeping'
      BY <1>1, <2>1, OrderTyped DEF Sweeping, StopHooks
    <3> QED  BY <3>2, <3>3
  <2>4. ~Operating(Lifespan)' /\ \A u \in Requests : Engaged(u)' <=> Engaged(u)
    BY <1>1, <2>1 DEF Operating, Engaged, Synchronous, StartHooks, StopHooks
  <2> QED  BY <1>1, <1>2, <2>1, <2>3, <2>4, NobodyMoves
<1>8. CASE StopNext
  <2>1. /\ phase = "stopping" /\ lock = Lifespan
        /\ pc'[Lifespan] = "stop_hook" /\ target'[Lifespan] = Order[cursor]
        /\ why'[Lifespan] = "shutdown" /\ cursor \in 1..Len(Order)
        /\ Order[cursor] \in attached
        /\ UNCHANGED <<state, lock, phase, cursor>>
    BY <1>8 DEF StopNext, BeginStop, Goto, Locking, StartHooks, StopHooks
  <2>2. Order[cursor] \in loaded /\ Order[cursor] \in Plugins /\ state[Order[cursor]] = "running"
    BY <1>4, <1>8, <2>1 DEF StopNext, Standing
  <2>3. ASSUME NEW q \in attached, Order[cursor] \in Deps[q] PROVE FALSE
    <3>1. PICK j \in 1..Len(Order) : Order[j] = q
      BY OrderAssumption
    <3>2. cursor < j
      BY <2>1, <2>3, <3>1, OrderAssumption
    <3>3. \A i \in 1..Len(Order) : i > cursor => Order[i] \notin attached
      BY <1>8, <2>1 DEF StopNext, Sweeping
    <3> QED  BY <2>3, <3>1, <3>2, <3>3, OrderTyped
  <2>4. ProgressOf(Lifespan)'
    BY <1>1, <2>1, <2>2, <2>3, NamesAssumption DEF ProgressOf, Stopping, Engaged, StartHooks, StopHooks
  <2>5. \A u \in Tasks : u # Lifespan => ~Operating(u)'
    BY <1>1, <1>3, <1>8 DEF StopNext, Operating
  <2>6. Progress'
    BY <2>4, <2>5, OnlyItsProgress
  <2>7. Locking'
    BY <1>1, <2>1, <2>5 DEF Locking, StopHooks
  <2>8. Sweeping'
    BY <1>1, <1>8, <2>1 DEF Sweeping, StopNext, StopHooks
  <2>9. Settled' /\ Standing'
    BY <1>1, <1>4, <1>8, <2>1 DEF StopNext, Settled, Standing
  <2> QED  BY <2>6, <2>7, <2>8, <2>9
<1>9. CASE StopsNothing
  <2>1. /\ phase = "stopping" /\ lock = Lifespan
        /\ cursor \in 1..Len(Order) /\ cursor' = cursor - 1
        /\ Order[cursor] \in Plugins /\ Order[cursor] \notin attached
        /\ UNCHANGED <<pc, target, why, lock, phase>>
    BY <1>9, OrderTyped DEF StopsNothing, Locking, StartHooks, StopHooks
  <2>2. /\ \A p \in Plugins : p # Order[cursor] => state'[p] = state[p]
        /\ state'[Order[cursor]] \notin {"running", "initialized"}
    BY <1>4, <1>9, <2>1 DEF StopsNothing
  <2>3. \A u \in Tasks : ~Operating(u)' /\ ~Engaged(u)'
    BY <1>2, <1>3, <1>9, <2>1 DEF StopsNothing, Operating, Engaged
  <2>4. Locking'
    BY <2>1 DEF Locking, Operating
  <2>5. Sweeping'
    BY <1>1, <1>9, <2>1, OrderTyped DEF StopsNothing, Sweeping, StopHooks
  <2>6. Progress'
    BY <2>3 DEF Progress, ProgressOf, Operating, Engaged, Synchronous, StartHooks, StopHooks
  <2>7. \A p \in Plugins : (p \in attached <=> state'[p] = "running") /\ state'[p] # "initialized"
    BY <1>4, <1>9, <2>1, <2>2 DEF StopsNothing
  <2>8. Settled'
    BY <1>1, <2>7 DEF Settled
  <2>9. Standing'
    <3>1. \A p \in attached : \A d \in Deps[p] : state'[d] = "running"
      <4> SUFFICES ASSUME NEW p \in attached, NEW d \in Deps[p] PROVE state'[d] = "running"
        OBVIOUS
      <4>1. state[d] = "running" /\ d \in Plugins
        BY DepsAssumption DEF Standing
      <4>2. d \in attached
        BY <4>1 DEF Standing
      <4> QED  BY <2>1, <2>2, <4>1, <4>2
    <3> QED  BY <1>1, <2>7, <3>1 DEF Standing
  <2> QED  BY <2>4, <2>5, <2>6, <2>8, <2>9
<1>10. CASE AllStopped
  <2>1. /\ phase = "stopping" /\ pc'[Lifespan] = "exited"
        /\ UNCHANGED <<state, why, target, phase, cursor>>
    BY <1>10 DEF AllStopped, Goto, Locking, StartHooks, StopHooks
  <2>2. \A u \in Tasks : ~Operating(u)' /\ ~Engaged(u)
    BY <1>1, <1>2, <1>3, <1>10, <2>1 DEF AllStopped, Operating, Engaged, Synchronous, StartHooks, StopHooks
  <2>3. Locking' /\ Sweeping'
    BY <1>1, <2>1, <2>2 DEF Locking, Sweeping, StopHooks
  <2> QED  BY <1>1, <2>1, <2>2, <2>3, NobodyMoves
<1> QED  BY <1>5, <1>6, <1>7, <1>8, <1>9, <1>10 DEF LifespanStep
-----------------------------------------------------------------------------
(* The theorems.                                                           *)

\* The invariant holds initially.
LEMMA InitEstablishes == Init => InductiveInvariant
<1> SUFFICES ASSUME Init PROVE InductiveInvariant
  OBVIOUS
<1>1. /\ \A t \in Requests : pc[t] = "idle"
      /\ pc[Lifespan] = "start_all"
  BY NamesAssumption DEF Init
<1>2. \A t \in Tasks : ~Operating(t) /\ ~Engaged(t)
  BY <1>1 DEF Operating, Engaged, Synchronous, StartHooks, StopHooks
<1>3. Locking /\ Sweeping
  BY <1>1, <1>2 DEF Init, Locking, Sweeping
<1>4. Progress
  BY <1>2 DEF Progress, ProgressOf, Operating, Engaged, Synchronous, StartHooks, StopHooks
<1>5. Settled /\ Standing
  BY DEF Init, Settled, Standing
<1> QED  BY <1>3, <1>4, <1>5, InitTyped DEF InductiveInvariant

\* Every step preserves it.
LEMMA NextPreserves == InductiveInvariant /\ [Next]_vars => InductiveInvariant'
<1> SUFFICES ASSUME InductiveInvariant, [Next]_vars PROVE InductiveInvariant'
  OBVIOUS
<1>1. CASE UNCHANGED vars \/ Terminated
  <2>1. UNCHANGED vars
    BY <1>1 DEF Terminated
  <2> QED
    BY <2>1 DEF vars, InductiveInvariant, TypeOK, Locking, Progress, ProgressOf, Settled, Standing,
       Sweeping, Stopping, Operating, Engaged
<1>2. ASSUME NEW t \in Tasks, RunsOn(t) PROVE InductiveInvariant'
  BY <1>2, TaskStepTyped, GrantedSteps, StartingSteps DEF RunsOn
<1>3. ASSUME NEW t \in Tasks, PluginRuns(t) PROVE InductiveInvariant'
  BY <1>3, TaskStepTyped, ContextSteps, HookSteps, StartPublishedStep, StopSteps DEF PluginRuns
<1>4. ASSUME NEW t \in Tasks, TimesOut(t) \/ IsCancelled(t) PROVE InductiveInvariant'
  <2>1. TypeOK'
    BY <1>4, InterruptTyped
  <2>2. \/ \E r \in Replies : LeaveQueue(t, r)
        \/ InterruptStart(t, "timed_out") \/ InterruptStart(t, "cancelled")
        \/ InterruptStop(t) /\ \E r \in Replies : Conclude(t, r)
    BY <1>4 DEF TimesOut, TimeoutWaiting, TimeoutStart, TimeoutStop, IsCancelled,
       CancelWaiting, CancelStart, CancelStop, Replies
  <2> QED  BY <2>1, <2>2, QueueSteps, HookSteps, StopSteps
<1>5. CASE \/ \E t \in Requests, o \in Ops, p \in Plugins \cup {Nobody} : Submit(t, o, p)
           \/ \E t \in Tasks : Acquire(t)
  BY <1>5, HostStepTyped, QueueSteps
<1>6. CASE LifespanStep \/ BeginShutdown
  BY <1>6, HostStepTyped, LifespanSteps
<1> QED  BY <1>1, <1>2, <1>3, <1>4, <1>5, <1>6 DEF Next

\* In every reachable state the inductive invariant holds, TypeOK among its parts.
THEOREM InvariantHolds == Spec => []InductiveInvariant
  BY InitEstablishes, NextPreserves, PTL DEF Spec

\* Every variable stays in its range.
THEOREM TypeCorrect == Spec => []TypeOK
<1>1. InductiveInvariant => TypeOK
  BY DEF InductiveInvariant
<1> QED  BY <1>1, InvariantHolds, PTL

\* At most one task works on a plugin: the lock and the phases of the lifespan
\* together exclude startup, shutdown and all requests from one another.
THEOREM MutualExclusion == Spec => []OneOperationAtATime
<1>1. InductiveInvariant => OneOperationAtATime
  BY Solo DEF OneOperationAtATime
<1> QED  BY <1>1, InvariantHolds, PTL

\* A running plugin stands on running plugins, for every dependency graph.
THEOREM DependenciesRun == Spec => []RunningClosedUnderDependencies
<1>1. InductiveInvariant => RunningClosedUnderDependencies
  BY DEF InductiveInvariant, Standing, RunningClosedUnderDependencies
<1> QED  BY <1>1, InvariantHolds, PTL

\* Every failed, timed out or cancelled operation is cleaned up when it ends.
THEOREM OperationsSettle == Spec => []SettledBetweenOperations
<1>1. InductiveInvariant => SettledBetweenOperations
  BY DEF InductiveInvariant, Settled, SettledBetweenOperations, Operating, Engaged
<1> QED  BY <1>1, InvariantHolds, PTL
=============================================================================
