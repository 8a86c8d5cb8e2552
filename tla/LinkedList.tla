----------------------------- MODULE LinkedList -----------------------------
(***************************************************************************)
(* The intrusive doubly linked list of include/system.h, shared by the     *)
(* task list (os.c) and the timer list (timers.c).  A list is a function   *)
(* "link" from array slots to [next, previous] pairs plus a start pointer  *)
(* kept by its owner; a pointer is a slot number, or NULL.  The operators  *)
(* perform the assignments of the C functions one after the other, so they *)
(* are exact also when item and current alias.                             *)
(***************************************************************************)
EXTENDS Naturals

NULL == 0

NoLinks == [next |-> NULL, previous |-> NULL]

ListInsertAfter(link, item, current) ==
  LET linked == [link EXCEPT ![item] = [next |-> link[current].next,
                                        previous |-> current]]
      after  == [linked EXCEPT ![current].next = item]
  IN  IF after[item].next = NULL THEN after
      ELSE [after EXCEPT ![after[item].next].previous = item]

ListInsertBefore(link, item, current) ==
  LET linked == [link EXCEPT ![item] = [next |-> current,
                                        previous |-> link[current].previous]]
      before == [linked EXCEPT ![current].previous = item]
  IN  IF before[item].previous = NULL THEN before
      ELSE [before EXCEPT ![before[item].previous].next = item]

(***************************************************************************)
(* ListRemove takes the links by value: the neighbours are joined, the     *)
(* item's own links keep their old values.                                 *)
(***************************************************************************)
ListRemove(link, item) ==
  LET prev   == link[item].previous
      nxt    == link[item].next
      joined == IF prev = NULL THEN link ELSE [link EXCEPT ![prev].next = nxt]
  IN  IF nxt = NULL THEN joined ELSE [joined EXCEPT ![nxt].previous = prev]

(***************************************************************************)
(* Visit(link, start, n) is what a loop "for (c = start; c; c = c->next)"  *)
(* sees: Visit[k] is the slot of its k-th iteration, NULL once it ended.   *)
(* A list with n slots that is not NULL-terminated within n steps is       *)
(* cyclic.                                                                 *)
(***************************************************************************)
Visit(link, start, n) ==
  LET at[k \in 0 .. n] == IF k = 0 THEN start
                          ELSE IF at[k - 1] = NULL THEN NULL
                          ELSE link[at[k - 1]].next
  IN  at

Reachable(link, start, n) ==
  {Visit(link, start, n)[k] : k \in 0 .. n} \ {NULL}

Terminated(link, start, n) == Visit(link, start, n)[n] = NULL

(* The slots of the list in list order, for a NULL-terminated list. *)
Chain(link, start, n) ==
  LET at  == Visit(link, start, n)
      len == CHOOSE k \in 0 .. n : at[k] = NULL /\ \A j \in 0 .. k - 1 : at[j] # NULL
  IN  [k \in 1 .. len |-> at[k - 1]]

(***************************************************************************)
(* The insertion loop of TaskNew and TimerSchedule: before the first entry *)
(* whose key is greater, or else after the last one.  Only for a non-empty *)
(* NULL-terminated list.  Yields the links and the new start.              *)
(***************************************************************************)
InsertOrdered(link, start, n, item, key) ==
  LET at      == Visit(link, start, n)
      stop(k) == /\ at[k] # NULL
                 /\ \/ key[item] < key[at[k]]
                    \/ link[at[k]].next = NULL
      current == at[CHOOSE k \in 0 .. n : stop(k) /\ \A j \in 0 .. k - 1 : ~stop(j)]
  IN  IF key[item] < key[current]
      THEN [link  |-> ListInsertBefore(link, item, current),
            start |-> IF current = start THEN item ELSE start]
      ELSE [link  |-> ListInsertAfter(link, item, current),
            start |-> start]
=============================================================================
