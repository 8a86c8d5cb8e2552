---------------------------- MODULE KernelProofs ----------------------------
(***************************************************************************)
(* Proofs about the kernel: what TasksProofs, TimersProofs and             *)
(* RoutinesProofs show of the scheduler, the timers, the heap and the leaf *)
(* routines holds of the kernel they are part of.  Each of its steps is a  *)
(* step of one of them, or leaves it alone.                                *)
(***************************************************************************)
EXTENDS MCKernel, TimersProofs, RoutinesProofs

(* The time each step may take. *)
USE SMTT(30), ZenonT(40)

-----------------------------------------------------------------------------
(* A step of the kernel is a step of a component or leaves it alone. *)
LEMMA KernelSteps ==
  ASSUME [KernelNext]_kernel
  PROVE  /\ [TasksNext]_tasksVars /\ [TimersNext]_timersVars /\ [HeapNext]_heapVars
         /\ [Clk!Next]_clock /\ [Div!Next]_division /\ [Stg!Next]_stage /\ [Cpy!Next]_copy
  BY DEF KernelNext, kernel

(***************************************************************************)
(* The heap is sound in the kernel, whatever the other components do.      *)
(***************************************************************************)
THEOREM KernelHeapSound == KernelSpec => []HeapSound
<1>1. KernelInit => HeapInit
  BY DEF KernelInit
<1>2. [KernelNext]_kernel => [HeapNext]_heapVars
  BY KernelSteps
<1>3. HeapInit /\ [][HeapNext]_heapVars => []HeapSound
  BY HeapIsSound, PTL DEF HeapSpec
<1> QED BY <1>1, <1>2, <1>3, PTL DEF KernelSpec

(***************************************************************************)
(* TaskNew, TaskEnd, OsTick; TimerSchedule, TimerCancel, TimerPoll: the    *)
(* task list and the timer list of the kernel are whole, exact and in      *)
(* order while they are walked, for pools of any size, and a timer a       *)
(* client kept a pointer to is its own.                                    *)
(***************************************************************************)
THEOREM KernelListsSound == KernelSpec => []ListsSound
<1>1. KernelInit => TasksInit /\ TimersInit
  BY DEF KernelInit
<1>2. [KernelNext]_kernel => [TasksNext]_tasksVars /\ [TimersNext]_timersVars
  BY KernelSteps
<1>3. TasksInit /\ [][TasksNext]_tasksVars => []TaskListSound
  BY TasksSoundAlways, KernelAssumption
<1>4. TimersInit /\ [][TimersNext]_timersVars => []TimerListSound
  BY TimersSoundAlways, KernelAssumption
<1>5. TaskListSound /\ TimerListSound => ListsSound
  BY DEF ListsSound
<1> QED BY <1>1, <1>2, <1>3, <1>4, <1>5, PTL DEF KernelSpec

(***************************************************************************)
(* timers.c implements the abstract timer service in the kernel.           *)
(***************************************************************************)
THEOREM KernelRefinesTimers == KernelSpec => RefinesPendingTimers
<1>1. KernelInit => TimersInit
  BY DEF KernelInit
<1>2. [KernelNext]_kernel => [TimersNext]_timersVars
  BY KernelSteps
<1>3. TimersInit /\ [][TimersNext]_timersVars => RefinesPendingTimers
  BY RefinesAlways, KernelAssumption
<1> QED BY <1>1, <1>2, <1>3, PTL DEF KernelSpec

(***************************************************************************)
(* The leaf routines are right in the kernel: __aeabi_uidivmod divides; a  *)
(* data stage counts enough packets and DMA stays in its buffer; memcpy    *)
(* copies its region and nothing else; the clock is never read behind, and *)
(* a timer whose readings are whole never expires early.                   *)
(***************************************************************************)
THEOREM KernelRoutinesRight == KernelSpec => RoutinesRight
<1>1. KernelInit => RoutinesInit
  BY DEF KernelInit, RoutinesInit
<1>2. [KernelNext]_kernel =>
        [Clk!Next]_clock /\ [Div!Next]_division /\ [Stg!Next]_stage /\ [Cpy!Next]_copy
  BY KernelSteps
<1>3. RoutinesInit /\ [][Clk!Next]_clock /\ [][Div!Next]_division /\ [][Stg!Next]_stage
        /\ [][Cpy!Next]_copy => RoutinesRight
  BY RoutinesAlwaysRight, KernelAssumption
<1> QED BY <1>1, <1>2, <1>3, PTL DEF KernelSpec
=============================================================================
