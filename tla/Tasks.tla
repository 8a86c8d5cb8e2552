------------------------------- MODULE Tasks -------------------------------
(***************************************************************************)
(* The cooperative scheduler of system/os.c.  Tasks live in a pool of      *)
(* MAX_TASKS slots linked from TasksStart in priority order; OsTick walks  *)
(* the list, calling each poll function, and starts again from the top     *)
(* when one of them returns TASK_READY.                                    *)
(*                                                                         *)
(* The walk is split where it calls out: Call enters the poll function,    *)
(* which may create and end tasks, and Return is what OsTick does with its *)
(* result.  A program is a poll function together with its data; the       *)
(* programs of Boot are the tasks main creates before OsStart.             *)
(***************************************************************************)
EXTENDS LinkedList, Integers, Sequences

CONSTANTS MAX_TASKS,  \* slots of Tasks
          Programs,
          Priority,   \* Priority[p]: the priority p is created with
          NoData,     \* programs created with data = NULL (FatPoll, tcpecho_thread)
          Readies,    \* programs whose poll may return TASK_READY (ShellPoll)
          Jobs,       \* programs whose poll may return TASK_FINISHED
          Spawned,    \* programs that a running task creates
          Endable,    \* programs that another task passes to TaskEnd
          MaxEnds,    \* bound: calls of TaskEnd
          Boot        \* the programs main creates, in order

TASK_IDLE     == 0
TASK_READY    == 1
TASK_FINISHED == 2
NoStatus      == -1

TaskSlots == 1 .. MAX_TASKS

TasksAssumption ==
  /\ MAX_TASKS \in Nat \ {0}
  /\ NULL \notin Programs
  /\ Priority \in [Programs -> Nat]
  /\ NoData \subseteq Programs /\ Readies \subseteq Programs
  /\ Jobs \subseteq Programs /\ Spawned \subseteq Programs /\ Endable \subseteq Programs
  /\ MaxEnds \in Nat
  /\ Boot \in Seq(Programs)

(***************************************************************************)
(* What keeps the list whole, since OsTick frees no finished task that has *)
(* data and TaskEnd does not look at TasksStart: the tasks created without *)
(* data never finish, and the first task main creates is more important    *)
(* than any task that is ended.                                            *)
(***************************************************************************)
TaskListAssumption ==
  /\ Jobs \cap NoData = {}
  /\ Boot # <<>> => \A e \in Endable : Priority[Boot[1]] < Priority[e]

VARIABLES TasksStart,  \* first task of the list
          taskLink,    \* Tasks[].list
          taskPoll,    \* Tasks[].poll: the program, or NULL
          data,        \* Tasks[].data: whether it is not NULL
          priority,    \* Tasks[].priority
          currentTask, \* OsTick's local: where the walk is, NULL between walks
          running,     \* the poll function of currentTask is executing
          status,      \* OsTick's local
          booted,      \* number of programs of Boot created
          stopped,     \* OsStart has returned
          ends         \* calls of TaskEnd so far

tasks     == <<TasksStart, taskLink, taskPoll, data, priority>>
tasksVars == <<tasks, currentTask, running, status, booted, stopped, ends>>

Free   == {s \in TaskSlots : taskPoll[s] = NULL /\ ~data[s]}
InUse  == TaskSlots \ Free
Live   == {s \in TaskSlots : taskPoll[s] # NULL}
Listed == Reachable(taskLink, TasksStart, MAX_TASKS)

OsInit ==
  /\ TasksStart = NULL
  /\ taskLink = [s \in TaskSlots |-> NoLinks]
  /\ taskPoll = [s \in TaskSlots |-> NULL]
  /\ data = [s \in TaskSlots |-> FALSE]
  /\ priority = [s \in TaskSlots |-> 0]

TasksInit ==
  /\ OsInit
  /\ currentTask = NULL
  /\ running = FALSE
  /\ status = TASK_IDLE
  /\ booted = 0
  /\ stopped = FALSE
  /\ ends = 0

First(free) == CHOOSE s \in free : \A t \in free : s <= t

(* Set up slot s for program p and link it before the first less important task. *)
Place(s, p) ==
  LET clean == [taskLink EXCEPT ![s] = NoLinks]
      prio  == [priority EXCEPT ![s] = Priority[p]]
      ins   == InsertOrdered(clean, TasksStart, MAX_TASKS, s, prio)
  IN  /\ taskPoll' = [taskPoll EXCEPT ![s] = p]
      /\ data' = [data EXCEPT ![s] = p \notin NoData]
      /\ priority' = prio
      /\ IF TasksStart = NULL
         THEN /\ TasksStart' = s
              /\ taskLink' = clean
         ELSE /\ TasksStart' = ins.start
              /\ taskLink' = ins.link

(* TaskNew of program p; its callers ignore the NULL it returns when full. *)
TaskNew(p) ==
  IF Free = {} THEN UNCHANGED tasks ELSE Place(First(Free), p)

(* TaskEnd: the links are passed by value, TasksStart is not looked at. *)
TaskEnd(s) ==
  /\ data' = [data EXCEPT ![s] = FALSE]
  /\ taskPoll' = [taskPoll EXCEPT ![s] = NULL]
  /\ taskLink' = ListRemove(taskLink, s)
  /\ UNCHANGED <<TasksStart, priority>>

-----------------------------------------------------------------------------
(* main creates its tasks, then calls OsStart. *)
Main ==
  /\ booted < Len(Boot)
  /\ TaskNew(Boot[booted + 1])
  /\ booted' = booted + 1
  /\ UNCHANGED <<currentTask, running, status, stopped, ends>>

(* OsStart: another OsTick unless the last one found no task to execute. *)
StartTick ==
  /\ booted = Len(Boot) /\ ~stopped
  /\ currentTask = NULL
  /\ IF status = NoStatus
     THEN stopped' = TRUE /\ UNCHANGED <<currentTask, status>>
     ELSE /\ currentTask' = TasksStart
          /\ status' = NoStatus
          /\ UNCHANGED stopped
  /\ UNCHANGED <<tasks, running, booted, ends>>

Call ==
  /\ currentTask # NULL /\ ~running
  /\ taskPoll[currentTask] # NULL
  /\ running' = TRUE
  /\ UNCHANGED <<tasks, currentTask, status, booted, stopped, ends>>

(* Mutant of Skip: the walk ends at a task without poll function. *)
SkipEndsWalk ==
  /\ currentTask # NULL /\ ~running
  /\ taskPoll[currentTask] = NULL
  /\ currentTask' = NULL
  /\ UNCHANGED <<tasks, running, status, booted, stopped, ends>>

(* A task without poll function is passed over. *)
Skip ==
  /\ currentTask # NULL /\ ~running
  /\ taskPoll[currentTask] = NULL
  /\ currentTask' = taskLink[currentTask].next
  /\ UNCHANGED <<tasks, running, status, booted, stopped, ends>>

(* The poll function creates a task (KeyboardUp, Console, MountFAT, HostEnable). *)
Spawn(p) ==
  /\ running
  /\ TaskNew(p)
  /\ UNCHANGED <<currentTask, running, status, booted, stopped, ends>>

(* No code of the repository calls TaskEnd: here one task ends another. *)
End(s) ==
  /\ running /\ s # currentTask
  /\ taskPoll[s] \in Endable
  /\ TaskEnd(s)
  /\ ends < MaxEnds /\ ends' = ends + 1
  /\ UNCHANGED <<currentTask, running, status, booted, stopped>>

Return(s, result) ==
  /\ running /\ currentTask = s
  /\ status' = result
  /\ taskPoll' = IF result = TASK_FINISHED THEN [taskPoll EXCEPT ![s] = NULL] ELSE taskPoll
  /\ currentTask' = IF result = TASK_READY THEN NULL ELSE taskLink[s].next
  /\ running' = FALSE
  /\ UNCHANGED <<TasksStart, taskLink, data, priority, booted, stopped, ends>>

(* What the poll function in slot s may return. *)
Results(s) ==
  {TASK_IDLE} \cup {r \in {TASK_READY} : taskPoll[s] \in Readies}
              \cup {r \in {TASK_FINISHED} : taskPoll[s] \in Jobs}

Terminating == stopped /\ UNCHANGED tasksVars

TasksNext ==
  \/ Main
  \/ StartTick
  \/ Call
  \/ Skip
  \/ \E p \in Spawned : Spawn(p)
  \/ \E s \in TaskSlots : End(s)
  \/ \E s \in TaskSlots : \E r \in Results(s) : Return(s, r)
  \/ Terminating

(***************************************************************************)
(* The processor keeps executing OsStart, and poll functions return.  A    *)
(* shell reports TASK_READY only for a character it has read, and input    *)
(* pauses: whenever it is called again and again, it is sometimes idle.    *)
(***************************************************************************)
TasksFairness ==
  /\ WF_tasksVars(Main) /\ WF_tasksVars(StartTick) /\ WF_tasksVars(Call) /\ WF_tasksVars(Skip)
  /\ \A s \in TaskSlots : SF_tasksVars(Return(s, TASK_IDLE))

TasksSpec == TasksInit /\ [][TasksNext]_tasksVars /\ TasksFairness

-----------------------------------------------------------------------------
(***************************************************************************)
(* Shape of the state.                                                     *)
(***************************************************************************)
TasksTypeOK ==
  /\ TasksStart \in TaskSlots \cup {NULL}
  /\ taskLink \in [TaskSlots -> [next : TaskSlots \cup {NULL}, previous : TaskSlots \cup {NULL}]]
  /\ taskPoll \in [TaskSlots -> Programs \cup {NULL}]
  /\ data \in [TaskSlots -> BOOLEAN]
  /\ priority \in [TaskSlots -> Nat]
  /\ currentTask \in TaskSlots \cup {NULL}
  /\ running \in BOOLEAN
  /\ status \in {NoStatus, TASK_IDLE, TASK_READY, TASK_FINISHED}
  /\ booted \in 0 .. Len(Boot)
  /\ stopped \in BOOLEAN
  /\ ends \in 0 .. MaxEnds

(***************************************************************************)
(* TasksStart heads a NULL-terminated, doubly linked list of exactly the   *)
(* slots in use, in priority order, whatever TaskNew, TaskEnd and finished *)
(* tasks do to it while OsTick walks it.                                   *)
(***************************************************************************)
TaskListInv ==
  /\ Terminated(taskLink, TasksStart, MAX_TASKS)
  /\ Listed = InUse
  /\ \A s \in InUse :
       /\ taskLink[s].next # NULL =>
            /\ taskLink[taskLink[s].next].previous = s
            /\ priority[s] <= priority[taskLink[s].next]
       /\ taskLink[s].previous = NULL <=> s = TasksStart

(* What OsTick relies on when it follows next: the list and its types.     *)
TaskListSound == TasksTypeOK /\ TaskListInv

(***************************************************************************)
(* A walk calls tasks in the order of their priorities, and after a task   *)
(* that was ready the next one called is the first of the list.            *)
(***************************************************************************)
PriorityOrder ==
  [][/\ (currentTask # NULL /\ currentTask' # NULL)
          => priority[currentTask] <= priority[currentTask']
     /\ (running /\ status' = TASK_READY /\ ~running') => currentTask' = NULL]_tasksVars

(***************************************************************************)
(* No task is starved: each one is called again and again until it         *)
(* finishes, although every TASK_READY cuts the walk short.                *)
(***************************************************************************)
NoStarvation ==
  \A s \in TaskSlots : taskPoll[s] # NULL ~> (taskPoll[s] = NULL \/ (running /\ currentTask = s))

(***************************************************************************)
(* Claims of the comments in os.c that the code does not keep.             *)
(***************************************************************************)

(* OsTick: "Stop and free this task in the list if finished." *)
FinishedIsFreed == \A s \in TaskSlots : taskPoll[s] = NULL => s \in Free

(* TaskEnd of any task leaves OsTick executing "tasks in order of priority": *)
(* every task with a poll function is on the list OsTick walks.             *)
AllTasksListed == Live \subseteq Listed
=============================================================================
