---------------------------- MODULE LifespanClock ----------------------------
(***************************************************************************)
(* The time limits of ReliaForge, with a clock: the startup timeout of the *)
(* application around start_all (app.py), the deadline of each operation,  *)
(* which the clean-up of an interrupted start shares, and the budget that  *)
(* stop_all divides among the plugins (plugins/manager.py).                *)
(*                                                                         *)
(* PluginManager says what each timeout does; this module says when it may *)
(* fire.  A tick is the resolution of the event loop's clock; a timer may  *)
(* fire up to one tick early, so limits are rounded down to whole ticks.   *)
(* The code under a timer may stay past its limit - it blocks the event    *)
(* loop, or works on after its cancellation - and "late" counts that time. *)
(***************************************************************************)
EXTENDS Integers

CONSTANTS
    PluginCount,        \* the plugins that loaded
    StartupTimeout,     \* app_startup_timeout_seconds
    OperationTimeout,   \* plugin_operation_timeout_seconds
    ShutdownBudget,     \* shutdown_timeout_seconds
    MaxLate             \* a bound on "late"

ASSUME ClockAssumption ==
    /\ PluginCount \in Nat \ {0}
    /\ StartupTimeout \in Nat /\ OperationTimeout \in Nat /\ ShutdownBudget \in Nat
    /\ MaxLate \in Nat

VARIABLES
    now,        \* ticks since the phase began: startup, a request, or shutdown
    stage,      \* what runs, or is waited for
    left,       \* the plugins start_all or stop_all has still to deal with
    deadline,   \* of the operation, or of stop_all
    limit,      \* when the timeout around what runs is due
    late,       \* the time spent past due timeouts since the phase began
    abandoned,  \* the startup timeout has fired
    fund,       \* what was left of the budget when stop_all got the lock
    entered     \* the plugins whose stop() was entered by stop_all

vars == <<now, stage, left, deadline, limit, late, abandoned, fund, entered>>

Starting == {"start_all", "starting", "cleaning"}
Requested == {"queued", "op_stopping", "op_starting", "op_cleaning"}
Stopping == {"waiting", "stop_all", "stopping"}

\* Here time passes; elsewhere the code runs on without suspending.
Suspended == stage \in {"starting", "cleaning", "waiting", "stopping"} \cup Requested

\* max(0.0, deadline - loop.time())
Remaining(end) == IF end > now THEN end - now ELSE 0

\* asyncio.timeout of the code in hand, or the one around start_all.
TimeoutDue ==
    \/ now >= limit
    \/ stage \in Starting /\ ~abandoned /\ now >= StartupTimeout

Tick ==
    /\ Suspended
    /\ now' = now + 1
    /\ IF TimeoutDue THEN late < MaxLate /\ late' = late + 1 ELSE UNCHANGED late
    /\ UNCHANGED <<stage, left, deadline, limit, abandoned, fund, entered>>
-----------------------------------------------------------------------------
(* start_all under the startup timeout.                                    *)

\* Each plugin has an operation timeout of its own.
StartNext ==
    /\ stage = "start_all" /\ left > 0
    /\ stage' = "starting"
    /\ deadline' = now + OperationTimeout
    /\ limit' = now + OperationTimeout
    /\ UNCHANGED <<now, left, late, abandoned, fund, entered>>

\* Mutant: the clean-up is given a deadline of its own.
FreshLimit == now + OperationTimeout

\* _cleanup_interrupted_start has what is left of the operation's deadline.
CleanupLimit == now + Remaining(deadline)

\* A start was interrupted: its clean-up calls the plugin's stop hook.
Interrupt ==
    /\ stage' = IF stage = "starting" THEN "cleaning" ELSE "op_cleaning"
    /\ limit' = CleanupLimit
    /\ UNCHANGED <<now, left, deadline, late, fund, entered>>

\* The operation timeout fires in start_all.
StartExpires ==
    /\ stage = "starting" /\ now >= limit
    /\ Interrupt
    /\ UNCHANGED abandoned

\* What becomes of the lifespan when start_all is abandoned: its finally calls
\* stop_all, which takes the free lock.
Abandon ==
    /\ stage' = "stop_all"
    /\ left' = PluginCount
    /\ now' = 0 /\ late' = 0
    /\ deadline' = ShutdownBudget
    /\ fund' = ShutdownBudget
    /\ UNCHANGED <<limit, entered>>

\* The startup timeout fires: a start is cleaned up first, a clean-up is left.
StartupExpires ==
    /\ ~abandoned /\ now >= StartupTimeout
    /\ abandoned' = TRUE
    /\ \/ stage = "starting" /\ Interrupt
       \/ stage = "cleaning" /\ Abandon

\* The start, or the clean-up of one that expired, is over.
NextPlugin ==
    /\ \/ stage = "starting"
       \/ stage = "cleaning" /\ ~abandoned
    /\ stage' = "start_all"
    /\ left' = left - 1
    /\ UNCHANGED <<now, deadline, limit, late, abandoned, fund, entered>>

\* The clean-up that the startup timeout made necessary is over.
StartupAbandoned ==
    /\ stage = "cleaning" /\ abandoned
    /\ Abandon
    /\ UNCHANGED abandoned

AllStarted ==
    /\ stage = "start_all" /\ left = 0
    /\ stage' = "serving"
    /\ UNCHANGED <<now, left, deadline, limit, late, abandoned, fund, entered>>
-----------------------------------------------------------------------------
(* One management request: a single deadline from its arrival.             *)

Submit ==
    /\ stage = "serving"
    /\ stage' = "queued"
    /\ now' = 0 /\ late' = 0
    /\ deadline' = OperationTimeout
    /\ limit' = OperationTimeout
    /\ UNCHANGED <<left, abandoned, fund, entered>>

\* asyncio.timeout(_remaining_seconds(deadline))
HookLimit == now + Remaining(deadline)

\* The lock is granted; stop and restart begin with the stop hook.
Granted ==
    /\ stage = "queued"
    /\ stage' \in {"op_stopping", "op_starting"}
    /\ limit' = HookLimit
    /\ UNCHANGED <<now, left, deadline, late, abandoned, fund, entered>>

\* restart_plugin goes on to start the plugin it stopped.
Restart ==
    /\ stage = "op_stopping"
    /\ stage' = "op_starting"
    /\ limit' = HookLimit
    /\ UNCHANGED <<now, left, deadline, late, abandoned, fund, entered>>

\* The start expires, or the caller is cancelled.
RequestInterrupted ==
    /\ stage = "op_starting"
    /\ Interrupt
    /\ UNCHANGED abandoned

\* The request is answered: its work is done, or has failed, expired or been
\* cancelled.
Answered ==
    /\ stage \in Requested
    /\ stage' = "serving"
    /\ UNCHANGED <<now, left, deadline, limit, late, abandoned, fund, entered>>
-----------------------------------------------------------------------------
(* stop_all.                                                               *)

BeginShutdown ==
    /\ stage = "serving"
    /\ stage' = "waiting"
    /\ left' = PluginCount
    /\ now' = 0 /\ late' = 0
    /\ deadline' = ShutdownBudget
    /\ limit' = ShutdownBudget
    /\ UNCHANGED <<abandoned, fund, entered>>

\* The lock is free, or the operation that held it is over.
LockAcquired ==
    /\ stage = "waiting"
    /\ stage' = "stop_all"
    /\ fund' = Remaining(deadline)
    /\ UNCHANGED <<now, left, deadline, limit, late, abandoned, entered>>

\* The budget is used up before the lock is free: nothing is stopped.
LockTimeout ==
    /\ stage = "waiting" /\ now >= limit
    /\ stage' = "gave_up"
    /\ UNCHANGED <<now, left, deadline, limit, late, abandoned, fund, entered>>

\* Mutant: the next plugin may use all that remains.
GreedySlot == Remaining(deadline)

\* remaining_seconds / remaining_plugins
Slot == Remaining(deadline) \div left

StopNext ==
    /\ stage = "stop_all" /\ left > 0
    /\ stage' = "stopping"
    /\ limit' = now + Slot
    /\ entered' = entered + 1
    /\ UNCHANGED <<now, left, deadline, late, abandoned, fund>>

\* plugin.stop() returned, failed or met the limit of its slot.
SlotOver ==
    /\ stage = "stopping"
    /\ stage' = "stop_all"
    /\ left' = left - 1
    /\ UNCHANGED <<now, deadline, limit, late, abandoned, fund, entered>>

AllStopped ==
    /\ stage = "stop_all" /\ left = 0
    /\ stage' = "exited"
    /\ UNCHANGED <<now, left, deadline, limit, late, abandoned, fund, entered>>

Terminated == stage \in {"exited", "gave_up"} /\ UNCHANGED vars
-----------------------------------------------------------------------------
Init ==
    /\ now = 0
    /\ stage = "start_all"
    /\ left = PluginCount
    /\ deadline = 0
    /\ limit = 0
    /\ late = 0
    /\ abandoned = FALSE
    /\ fund = 0
    /\ entered = 0

Next ==
    \/ Tick
    \/ StartNext \/ StartExpires \/ StartupExpires \/ NextPlugin \/ StartupAbandoned
    \/ AllStarted
    \/ Submit \/ Granted \/ Restart \/ RequestInterrupted \/ Answered
    \/ BeginShutdown \/ LockAcquired \/ LockTimeout
    \/ StopNext \/ SlotOver \/ AllStopped
    \/ Terminated

Spec == Init /\ [][Next]_vars
-----------------------------------------------------------------------------
(* Invariants.                                                             *)

\* Startup takes no longer than its timeout and, if that fires, the clean-up of
\* the one start it interrupted: the timeout fires once, inside the nested
\* timeout of a start, and the clean-up still has that start's own deadline.
StartupWithinLimits ==
    stage \in Starting =>
        now <= StartupTimeout + late + (IF abandoned THEN OperationTimeout ELSE 0)

\* A request is over by its one deadline: the wait for the lock, the stop and
\* the start of a restart, and the clean-up all draw on the same time.
RequestWithinDeadline ==
    stage \in Requested => now <= deadline + late

\* Shutdown is over when its budget is, however the plugins use their slots.
ShutdownWithinBudget ==
    stage \in Stopping => now <= deadline + late

\* Once stop_all has the lock every plugin's stop() is entered, those with no
\* time left included.
EveryStopEntered ==
    stage = "exited" => entered = PluginCount

\* Each phase keeps to its limit, but for the time code stays past a timeout, and
\* shutdown does so without leaving a plugin out.
WithinLimits ==
    /\ StartupWithinLimits
    /\ RequestWithinDeadline
    /\ ShutdownWithinBudget /\ EveryStopEntered

\* A plugin is given at least an equal part of what was left of the budget when
\* the lock was taken: a slow plugin costs the others nothing, but for the time
\* it stays past its own slot.
FairShare ==
    [][stage = "stop_all" /\ stage' = "stopping" =>
          (limit' - now) + late >= fund \div PluginCount]_vars
=============================================================================
