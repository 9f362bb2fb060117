-------------------------- MODULE LifespanClockProofs --------------------------
(***************************************************************************)
(* The time limits hold for every number of plugins and every setting of   *)
(* the three timeouts, and however late code stays past them.              *)
(***************************************************************************)
EXTENDS LifespanClock, TLAPS

Stages == Starting \cup Requested \cup Stopping \cup {"serving", "exited", "gave_up"}

ClockTypes ==
    /\ now \in Nat /\ late \in Nat
    /\ stage \in Stages
    /\ left \in 0..PluginCount
    /\ deadline \in Nat /\ limit \in Nat /\ fund \in Nat
    /\ entered \in Nat
    /\ abandoned \in BOOLEAN

\* An equal part of the budget.
Share == fund \div PluginCount

\* start_all is at a plugin; once the startup timeout has fired it is cleaning up.
StartingStands ==
    /\ stage \in {"starting", "cleaning", "stopping"} => left > 0
    /\ abandoned /\ stage \in Starting => stage = "cleaning"

\* No timer of startup is set beyond what startup may take in all.
StartupTimers ==
    stage \in {"starting", "cleaning"} =>
        /\ deadline <= StartupTimeout + OperationTimeout + late
        /\ limit <= StartupTimeout + OperationTimeout + late

\* No timer of a request, nor one of shutdown, is set beyond its deadline, but for
\* the time already lost.
DeadlineTimers ==
    stage \in Requested \cup {"waiting", "stopping"} => limit <= deadline + late

\* stop_all has entered the stop() of every plugin it is done with, and of the one
\* at hand.
StopsCounted ==
    /\ stage \in Starting \cup Requested \cup {"serving", "waiting"} => entered = 0
    /\ stage = "waiting" => left = PluginCount
    /\ stage = "stop_all" => entered + left = PluginCount
    /\ stage = "stopping" => entered + left = PluginCount + 1
    /\ stage = "exited" => entered = PluginCount

\* What is left of the budget, but for the time code stayed past its limits, is a
\* share for every plugin still to stop.
SharesRemain ==
    /\ stage = "stop_all" => left * Share <= Remaining(deadline) + late
    /\ stage = "stopping" =>
          LET over == IF now < limit THEN limit ELSE now
          IN  (left - 1) * Share <= late + (IF over < deadline THEN deadline - over ELSE 0)

\* Together these are inductive.
ClockInvariant ==
    /\ ClockTypes /\ StartingStands
    /\ StartupTimers /\ StartupWithinLimits
    /\ DeadlineTimers /\ RequestWithinDeadline /\ ShutdownWithinBudget
    /\ StopsCounted
    /\ SharesRemain
-----------------------------------------------------------------------------
(* Arithmetic.                                                             *)

LEMMA Division ==
    ASSUME NEW a \in Nat, NEW b \in Nat \ {0}
    PROVE  /\ a \div b \in Nat
           /\ b * (a \div b) <= a
           /\ a \div b <= a
<1>1. a \div b \in Nat /\ b * (a \div b) <= a /\ a < b * (a \div b) + b
  BY SMT
<1> DEFINE q == a \div b
<1>2. q \in Nat /\ b * q <= a
  BY <1>1
<1> HIDE DEF q
<1>3. q <= b * q
  BY <1>2
<1> QED
  BY <1>2, <1>3, <1>1 DEF q

\* Whoever takes an equal part, or no more than a share, leaves the others theirs.
LEMMA TakingAPart ==
    ASSUME NEW n \in Nat \ {0}, NEW r \in Nat, NEW f \in Nat, NEW l \in Nat,
           n * f <= r + l, NEW s \in Nat, n * s <= r
    PROVE  (n - 1) * f <= l + (r - s)
<1>1. (n - 1) * f = n * f - f /\ (n - 1) * s = n * s - s
  BY SMT
<1>2. CASE s <= f
  BY <1>1, <1>2
<1>3. CASE f < s
  <2>1. (n - 1) * f <= (n - 1) * s
    BY <1>3
  <2> QED
    BY <1>1, <2>1
<1> QED
  BY <1>2, <1>3

\* A division of what is left is no less than a share, but for the time lost.
LEMMA PartIsAShare ==
    ASSUME NEW n \in Nat \ {0}, NEW r \in Nat, NEW f \in Nat, NEW l \in Nat, n * f <= r + l
    PROVE  f <= (r \div n) + l
<1>1. r \div n \in Nat /\ n * (r \div n) <= r /\ r < n * (r \div n) + n
  BY SMT
<1> DEFINE q == r \div n
<1>2. q \in Nat /\ r < n * q + n
  BY <1>1
<1> HIDE DEF q
<1>3. SUFFICES ASSUME q + l + 1 <= f  PROVE FALSE
  BY <1>2 DEF q
<1>4. n * (q + l + 1) <= n * f
  BY <1>2, <1>3
<1>5. n * (q + l + 1) = n * q + n * l + n
  BY <1>2
<1>6. l <= n * l
  OBVIOUS
<1> QED
  BY <1>2, <1>4, <1>5, <1>6
-----------------------------------------------------------------------------
(* The steps.                                                              *)

\* The stages, as strings.
LEMMA StagesListed ==
    Stages = {"start_all", "starting", "cleaning", "queued", "op_stopping", "op_starting",
              "op_cleaning", "waiting", "stop_all", "stopping", "serving", "exited", "gave_up"}
  BY DEF Stages, Starting, Requested, Stopping

\* All but the shares: the time of a phase is bounded by the timers set in it,
\* and no timer is set beyond the limit of its phase.
ClockLimits ==
    /\ StartingStands
    /\ StartupTimers /\ StartupWithinLimits
    /\ DeadlineTimers /\ RequestWithinDeadline /\ ShutdownWithinBudget
    /\ StopsCounted

LEMMA SlotTyped ==
    ASSUME ClockTypes, left > 0
    PROVE  Slot \in Nat /\ Slot <= Remaining(deadline) /\ left * Slot <= Remaining(deadline)
<1>1. Remaining(deadline) \in Nat /\ left \in Nat \ {0}
  BY ClockAssumption DEF ClockTypes, Remaining
<1> QED
  BY <1>1, Division DEF Slot

LEMMA TypesStep ==
    ASSUME ClockTypes, StartingStands, Next
    PROVE  ClockTypes'
<1> USE ClockAssumption DEF ClockTypes, Stages, Starting, Requested, Stopping
<1>1. CASE Tick
  BY <1>1 DEF Tick
<1>2. CASE StartNext
  BY <1>2 DEF StartNext
<1>3. CASE StartExpires
  BY <1>3 DEF StartExpires, Interrupt, CleanupLimit, Remaining
<1>4. CASE StartupExpires
  BY <1>4 DEF StartupExpires, Interrupt, CleanupLimit, Remaining, Abandon
<1>5. CASE NextPlugin
  BY <1>5 DEF NextPlugin, StartingStands
<1>6. CASE StartupAbandoned
  BY <1>6 DEF StartupAbandoned, Abandon
<1>7. CASE AllStarted
  BY <1>7 DEF AllStarted
<1>8. CASE Submit
  BY <1>8 DEF Submit
<1>9. CASE Granted \/ Restart
  BY <1>9 DEF Granted, Restart, HookLimit, Remaining
<1>10. CASE RequestInterrupted
  BY <1>10 DEF RequestInterrupted, Interrupt, CleanupLimit, Remaining
<1>11. CASE Answered
  BY <1>11 DEF Answered
<1>12. CASE BeginShutdown
  BY <1>12 DEF BeginShutdown
<1>13. CASE LockAcquired
  BY <1>13 DEF LockAcquired, Remaining
<1>14. CASE LockTimeout
  BY <1>14 DEF LockTimeout
<1>15. CASE StopNext
  BY <1>15, SlotTyped DEF StopNext
<1>16. CASE SlotOver
  BY <1>16 DEF SlotOver, StartingStands
<1>17. CASE AllStopped
  BY <1>17 DEF AllStopped
<1>18. CASE Terminated
  BY <1>18 DEF Terminated, vars
<1> QED
  BY <1>1, <1>2, <1>3, <1>4, <1>5, <1>6, <1>7, <1>8, <1>9, <1>10, <1>11, <1>12, <1>13, <1>14,
     <1>15, <1>16, <1>17, <1>18 DEF Next

LEMMA LimitsStep ==
    ASSUME ClockTypes, ClockLimits, Next
    PROVE  ClockLimits'
<1> USE ClockAssumption
    DEF ClockTypes, Stages, Starting, Requested, Stopping, ClockLimits, StartingStands, StartupTimers,
        StartupWithinLimits, DeadlineTimers, RequestWithinDeadline, ShutdownWithinBudget, StopsCounted
<1>1. CASE Tick
  BY <1>1 DEF Tick, Suspended, TimeoutDue
<1>2. CASE StartNext
  BY <1>2 DEF StartNext
<1>3. CASE StartExpires
  BY <1>3 DEF StartExpires, Interrupt, CleanupLimit, Remaining
<1>4. CASE StartupExpires
  BY <1>4 DEF StartupExpires, Interrupt, CleanupLimit, Remaining, Abandon
<1>5. CASE NextPlugin
  BY <1>5 DEF NextPlugin
<1>6. CASE StartupAbandoned
  BY <1>6 DEF StartupAbandoned, Abandon
<1>7. CASE AllStarted
  BY <1>7 DEF AllStarted
<1>8. CASE Submit
  BY <1>8 DEF Submit
<1>9. CASE Granted \/ Restart
  BY <1>9 DEF Granted, Restart, HookLimit, Remaining
<1>10. CASE RequestInterrupted
  BY <1>10 DEF RequestInterrupted, Interrupt, CleanupLimit, Remaining
<1>11. CASE Answered
  BY <1>11 DEF Answered
<1>12. CASE BeginShutdown
  BY <1>12 DEF BeginShutdown
<1>13. CASE LockAcquired
  BY <1>13 DEF LockAcquired
<1>14. CASE LockTimeout
  BY <1>14 DEF LockTimeout
<1>15. CASE StopNext
  BY <1>15, SlotTyped DEF StopNext, Remaining
<1>16. CASE SlotOver
  BY <1>16 DEF SlotOver
<1>17. CASE AllStopped
  BY <1>17 DEF AllStopped
<1>18. CASE Terminated
  BY <1>18 DEF Terminated, vars
<1> QED
  BY <1>1, <1>2, <1>3, <1>4, <1>5, <1>6, <1>7, <1>8, <1>9, <1>10, <1>11, <1>12, <1>13, <1>14,
     <1>15, <1>16, <1>17, <1>18 DEF Next

\* A share is a whole number of ticks, and there are shares for all.
LEMMA ShareTyped ==
    ASSUME ClockTypes
    PROVE  Share \in Nat /\ PluginCount * Share <= fund
  BY Division, ClockAssumption DEF Share, ClockTypes

\* When stop_all gets the lock, what is left is what is shared out.
LEMMA SharesBegin ==
    ASSUME ClockTypes', stage' = "stop_all", left' = PluginCount, fund' = Remaining(deadline)'
    PROVE  SharesRemain'
<1>1. fund' \in Nat /\ late' \in Nat
  BY DEF ClockTypes
<1>2. Share' \in Nat /\ PluginCount * Share' <= fund'
  BY <1>1, Division, ClockAssumption DEF Share
<1> QED
  BY <1>1, <1>2, ClockAssumption DEF SharesRemain

LEMMA SharesStep ==
    ASSUME ClockTypes, ClockLimits, SharesRemain, Next
    PROVE  SharesRemain'
<1> USE ClockAssumption
<1>t. ClockTypes'
  BY TypesStep DEF ClockLimits
<1>s. Share \in Nat
  BY ShareTyped
<1>k. fund' = fund => Share' = Share
  BY DEF Share
<1>1. CASE Tick
  <2>1. Share' = Share /\ stage' = stage /\ left' = left /\ deadline' = deadline /\ limit' = limit
    BY <1>1, <1>k DEF Tick
  <2>2. CASE stage = "stopping"
    <3>1. ~(stage' = "stop_all") /\ stage \notin Starting
      BY <2>1, <2>2 DEF Starting
    <3>2. (left - 1) * Share
            <= late + (IF (IF now < limit THEN limit ELSE now) < deadline
                       THEN deadline - (IF now < limit THEN limit ELSE now) ELSE 0)
      BY <2>2 DEF SharesRemain
    <3>3. (left' - 1) * Share' = (left - 1) * Share
      BY <2>1
    <3>4. now' = now + 1 /\ IF now >= limit THEN late' = late + 1 ELSE late' = late
      BY <1>1, <3>1 DEF Tick, TimeoutDue
    <3> DEFINE P == (left - 1) * Share
    <3>5. P \in Int
      BY <1>s DEF ClockTypes
    <3> HIDE DEF P
    <3>6. P <= late' + (IF (IF now' < limit THEN limit ELSE now') < deadline
                       THEN deadline - (IF now' < limit THEN limit ELSE now') ELSE 0)
      BY <3>2, <3>4, <3>5 DEF ClockTypes, P
    <3> QED
      BY <2>1, <3>1, <3>3, <3>6 DEF SharesRemain, P
  <2>3. CASE stage # "stopping"
    <3>1. stage' # "stopping" /\ stage' # "stop_all"
      BY <1>1, <2>1, <2>3 DEF Tick, Suspended, Requested
    <3> QED
      BY <3>1 DEF SharesRemain
  <2> QED
    BY <2>2, <2>3
<1>2. CASE StopNext
  <2> DEFINE R == Remaining(deadline)
             S == Slot
  <2>1. R \in Nat /\ S \in Nat /\ S <= R /\ left * S <= R /\ left \in Nat \ {0}
    BY <1>2, SlotTyped DEF StopNext, ClockTypes, Remaining
  <2>2. left * Share <= R + late
    BY <1>2 DEF StopNext, SharesRemain
  <2>3. left' = left /\ Share' = Share /\ now' = now /\ late' = late /\ deadline' = deadline
        /\ limit' = now + S /\ stage' = "stopping"
    BY <1>2, <1>k DEF StopNext
  <2>4. R = IF deadline > now THEN deadline - now ELSE 0
    BY DEF Remaining
  <2> HIDE DEF R, S
  <2>5. (left - 1) * Share <= late + (R - S)
    BY <2>1, <2>2, <1>s, TakingAPart DEF ClockTypes
  <2> DEFINE P == (left - 1) * Share
  <2>6. P \in Int /\ P <= late + (R - S)
    BY <1>s, <2>5 DEF ClockTypes
  <2> HIDE DEF P
  <2>7. P <= late + (IF now + S < deadline THEN deadline - (now + S) ELSE 0)
    BY <2>1, <2>4, <2>6 DEF ClockTypes
  <2>8. (IF now' < limit' THEN limit' ELSE now') = now + S
    BY <2>1, <2>3 DEF ClockTypes
  <2>9. (left' - 1) * Share' = P
    BY <2>3 DEF P
  <2> QED
    BY <2>3, <2>7, <2>8, <2>9 DEF SharesRemain
<1>3. CASE SlotOver
  <2>1. left' = left - 1 /\ Share' = Share /\ now' = now /\ late' = late /\ deadline' = deadline
        /\ stage' = "stop_all" /\ limit' = limit
    BY <1>3, <1>k DEF SlotOver
  <2> DEFINE P == (left - 1) * Share
  <2>2. P \in Int
        /\ P <= late + (IF (IF now < limit THEN limit ELSE now) < deadline
                       THEN deadline - (IF now < limit THEN limit ELSE now) ELSE 0)
    BY <1>3, <1>s DEF SlotOver, SharesRemain, ClockTypes
  <2>3. left' * Share' = P
    BY <2>1
  <2> HIDE DEF P
  <2>4. P <= (IF deadline > now THEN deadline - now ELSE 0) + late
    BY <2>2 DEF ClockTypes
  <2>5. Remaining(deadline)' = IF deadline > now THEN deadline - now ELSE 0
    BY <2>1 DEF Remaining
  <2> QED
    BY <2>1, <2>3, <2>4, <2>5 DEF SharesRemain
<1>4. CASE LockAcquired
  <2>1. Remaining(deadline)' = Remaining(deadline)
    BY <1>4 DEF LockAcquired, Remaining
  <2>2. left' = PluginCount
    BY <1>4 DEF LockAcquired, ClockLimits, StopsCounted
  <2> QED
    BY <1>4, <1>t, <2>1, <2>2, SharesBegin DEF LockAcquired
<1>5. CASE (StartupExpires /\ stage' = "stop_all") \/ StartupAbandoned
  <2>1. Abandon
    BY <1>5 DEF StartupExpires, StartupAbandoned, Interrupt
  <2>2. Remaining(deadline)' = fund'
    BY <2>1 DEF Abandon, Remaining
  <2> QED
    BY <2>1, <2>2, <1>t, SharesBegin DEF Abandon
<1>6. CASE Terminated
  BY <1>6 DEF Terminated, SharesRemain, vars, Remaining, Share
<1>7. CASE \/ StartNext \/ StartExpires \/ (StartupExpires /\ stage' # "stop_all") \/ NextPlugin \/ AllStarted
           \/ Submit \/ Granted \/ Restart \/ RequestInterrupted \/ Answered
           \/ BeginShutdown \/ LockTimeout \/ AllStopped
  <2>1. stage' # "stop_all" /\ stage' # "stopping"
    BY <1>7 DEF StartNext, StartExpires, StartupExpires, Interrupt, NextPlugin, AllStarted, Submit, Abandon,
           Granted, Restart, RequestInterrupted, Answered, BeginShutdown, LockTimeout, AllStopped
  <2> QED
    BY <2>1 DEF SharesRemain
<1> QED
  BY <1>1, <1>2, <1>3, <1>4, <1>5, <1>6, <1>7 DEF Next

\* The clock invariant holds throughout.
THEOREM ClockInvariantHolds == Spec => []ClockInvariant
<1>1. Init => ClockInvariant
  <2> SUFFICES ASSUME Init  PROVE ClockInvariant
    OBVIOUS
  <2>1. ClockTypes
    <3>1. abandoned \in BOOLEAN /\ stage \in Stages
      BY StagesListed, Zenon DEF Init
    <3>2. left \in 0..PluginCount /\ now \in Nat /\ late \in Nat /\ deadline \in Nat /\ limit \in Nat
          /\ fund \in Nat /\ entered \in Nat
      BY ClockAssumption DEF Init
    <3> QED
      BY <3>1, <3>2 DEF ClockTypes
  <2>2. ClockLimits
    BY ClockAssumption
    DEF Init, ClockLimits, Starting, Requested, Stopping, StartingStands, StartupTimers,
        StartupWithinLimits, DeadlineTimers, RequestWithinDeadline, ShutdownWithinBudget, StopsCounted
  <2>3. SharesRemain
    BY DEF Init, SharesRemain
  <2> QED
    BY <2>1, <2>2, <2>3 DEF ClockInvariant, ClockLimits
<1>2. ClockInvariant /\ [Next]_vars => ClockInvariant'
  <2> SUFFICES ASSUME ClockInvariant, [Next]_vars  PROVE ClockInvariant'
    OBVIOUS
  <2>1. ClockTypes /\ ClockLimits /\ SharesRemain
    BY DEF ClockInvariant, ClockLimits
  <2>2. CASE Next
    <3>1. ClockTypes' /\ ClockLimits' /\ SharesRemain'
      BY <2>1, <2>2, TypesStep, LimitsStep, SharesStep DEF ClockLimits
    <3> QED
      BY <3>1 DEF ClockInvariant, ClockLimits
  <2>3. CASE UNCHANGED vars
    BY <2>3
    DEF vars, ClockInvariant, ClockTypes, StartingStands, StartupTimers, StartupWithinLimits, DeadlineTimers,
        RequestWithinDeadline, ShutdownWithinBudget, StopsCounted, SharesRemain, Remaining, Share
  <2> QED
    BY <2>2, <2>3
<1> QED
  BY <1>1, <1>2, PTL DEF Spec

\* Startup, each management request and shutdown keep to their limits, but for
\* the time code stays past a timeout, and shutdown enters every plugin's stop():
\* for all limits and any number of plugins, nested timeouts add up no further.
THEOREM LimitsHold == Spec => []WithinLimits
<1>1. ClockInvariant => WithinLimits
  BY DEF ClockInvariant, StopsCounted, WithinLimits, EveryStopEntered
<1> QED
  BY <1>1, ClockInvariantHolds, PTL

\* stop_all's division of what remains gives each plugin an equal part of what
\* was left when it got the lock, however the earlier ones used theirs.
THEOREM SharesAreFair == Spec => FairShare
<1>1. ClockInvariant /\ [Next]_vars
        => [stage = "stop_all" /\ stage' = "stopping" =>
              (limit' - now) + late >= fund \div PluginCount]_vars
  <2> SUFFICES ASSUME ClockInvariant, Next, stage = "stop_all", stage' = "stopping"
               PROVE  (limit' - now) + late >= fund \div PluginCount
    BY DEF vars
  <2>1. StopNext
    BY DEF Next, Tick, StartNext, StartExpires, StartupExpires, Interrupt, NextPlugin, StartupAbandoned,
           Abandon, AllStarted, Submit, Granted, Restart, RequestInterrupted, Answered, BeginShutdown,
           LockAcquired, LockTimeout, SlotOver, AllStopped, Terminated, vars
  <2>2. ClockTypes /\ left * Share <= Remaining(deadline) + late
    BY DEF ClockInvariant, SharesRemain
  <2>3. left \in Nat \ {0} /\ Remaining(deadline) \in Nat /\ late \in Nat /\ now \in Nat
    BY <2>1, <2>2, ClockAssumption DEF StopNext, ClockTypes, Remaining
  <2>4. Share \in Nat /\ Slot \in Nat
    BY <2>1, <2>2, ShareTyped, SlotTyped DEF StopNext
  <2>5. Share <= Slot + late
    BY <2>2, <2>3, <2>4, PartIsAShare DEF Slot
  <2>6. limit' = now + Slot
    BY <2>1 DEF StopNext
  <2> QED
    BY <2>3, <2>4, <2>5, <2>6 DEF Share
<1> QED
  BY <1>1, ClockInvariantHolds, PTL DEF Spec, FairShare
=============================================================================
