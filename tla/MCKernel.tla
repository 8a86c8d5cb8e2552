------------------------------ MODULE MCKernel ------------------------------
(***************************************************************************)
(* What the rest of the system runs on: the scheduler (Tasks), the timers  *)
(* (Timers), the heap (Malloc) and the leaf routines (Routines).  They     *)
(* share no state, so a behaviour is one of one of them, the others being  *)
(* at rest.                                                                *)
(*                                                                         *)
(* The tasks checked are those of the console application: the UART shell, *)
(* which finishes on quit, the LED task, the video console and FatPoll,    *)
(* which has no data; job stands for any other task that finishes.  All    *)
(* but the shell and the job are created while OsStart runs.               *)
(***************************************************************************)
EXTENDS Tasks, Timers, Malloc, Routines

CONSTANTS shell, job, fat, console, led

VARIABLE component

MCPriority == [p \in Programs |-> CASE p = shell   -> 0
                                    [] p = job     -> 1
                                    [] p = fat     -> 2
                                    [] p = console -> 3
                                    [] p = led     -> 4]
MCBoot     == <<shell, job>>

ASSUME KernelAssumption ==
  TasksAssumption /\ TaskListAssumption /\ TimersAssumption /\ RoutinesAssumption

kernel == <<component, tasksVars, timersVars, heapVars, clock, division, stage, copy>>

KernelInit ==
  /\ component \in {"tasks", "timers", "heap", "clock", "division", "stage", "copy"}
  /\ IF component = "clock" THEN TRUE ELSE ticks = 0
  /\ IF component = "division" THEN TRUE ELSE dividend = 0 /\ divisor = 1
  /\ IF component = "copy" THEN TRUE ELSE length = 0 /\ dst = 0 /\ src = 1
  /\ TasksInit /\ TimersInit /\ HeapInit /\ Clk!Init /\ Div!Init /\ Stg!Init /\ Cpy!Init

KernelNext ==
  /\ UNCHANGED component
  /\ \/ /\ component = "tasks" /\ TasksNext
        /\ UNCHANGED <<timersVars, heapVars, clock, division, stage, copy>>
     \/ /\ component = "timers" /\ TimersNext
        /\ UNCHANGED <<tasksVars, heapVars, clock, division, stage, copy>>
     \/ /\ component = "heap" /\ HeapNext
        /\ UNCHANGED <<tasksVars, timersVars, clock, division, stage, copy>>
     \/ /\ component = "clock" /\ Clk!Next
        /\ UNCHANGED <<tasksVars, timersVars, heapVars, division, stage, copy>>
     \/ /\ component = "division" /\ Div!Next
        /\ UNCHANGED <<tasksVars, timersVars, heapVars, clock, stage, copy>>
     \/ /\ component = "stage" /\ Stg!Next
        /\ UNCHANGED <<tasksVars, timersVars, heapVars, clock, division, copy>>
     \/ /\ component = "copy" /\ Cpy!Next
        /\ UNCHANGED <<tasksVars, timersVars, heapVars, clock, division, stage>>

(* The fairness of Tasks and of Timers, each where it runs. *)
KernelFairness ==
  /\ WF_tasksVars(component = "tasks" /\ Main)
  /\ WF_tasksVars(component = "tasks" /\ StartTick)
  /\ WF_tasksVars(component = "tasks" /\ Call)
  /\ WF_tasksVars(component = "tasks" /\ Skip)
  /\ \A s \in TaskSlots : SF_tasksVars(component = "tasks" /\ Return(s, TASK_IDLE))
  /\ WF_timersVars(component = "timers" /\ Tick)
  /\ WF_timersVars(component = "timers" /\ Fire)
  /\ WF_timersVars(component = "timers" /\ Answer)
  /\ WF_timersVars(component = "timers" /\ TimerReturn)

KernelSpec == KernelInit /\ [][KernelNext]_kernel /\ KernelFairness

-----------------------------------------------------------------------------
(* TaskNew, TaskEnd, OsTick; TimerSchedule, TimerCancel, TimerPoll: the    *)
(* task list and the timer list are whole, exact and in order while they   *)
(* are walked, and a timer a client kept a pointer to is its own.          *)
ListsSound == TaskListSound /\ TimerListSound

(* OsTick: no task is starved, although every TASK_READY cuts a walk       *)
(* short, and each walk calls the tasks in the order of their priorities.  *)
TasksServed == PriorityOrder /\ NoStarvation

(* TimerPoll: every armed timer is called back or cancelled, and a service *)
(* that keeps rearming goes on unless every slot is taken.                 *)
TimersServed == EveryTimerRuns /\ ServiceSurvives
=============================================================================
