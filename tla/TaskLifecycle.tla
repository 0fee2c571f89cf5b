---------------------------- MODULE TaskLifecycle ----------------------------
(***************************************************************************)
(* What the watcher's task table promises (the status machine written at   *)
(* the top of watcher/task_manager.py):                                    *)
(*                                                                         *)
(*    pending -> running -> completed | failed | timeout                   *)
(*    pending -> ignored                                                   *)
(*    failed | timeout -> pending                              (retry)     *)
(*                                                                         *)
(* One row per task, whoever moves it.  Which coroutine, thread or HTTP    *)
(* handler takes the step is the business of WatcherTasks.                 *)
(***************************************************************************)
CONSTANT Tasks          \* the row ids of watcher_tasks

VARIABLE status         \* the "status" column; "none" before the INSERT

Settled    == {"completed", "failed", "timeout"}
Retryable  == {"failed", "timeout"}
TaskStatus == {"none", "pending", "running", "ignored"} \cup Settled

Move(t, from, to) ==
  /\ status[t] \in from
  /\ \E s \in to : status' = [status EXCEPT ![t] = s]

Create(t) == Move(t, {"none"}, {"pending"})
Start(t)  == Move(t, {"pending"}, {"running"})
Settle(t) == Move(t, {"running"}, Settled)
Ignore(t) == Move(t, {"pending"}, {"ignored"})
Retry(t)  == Move(t, Retryable, {"pending"})

Init == status = [t \in Tasks |-> "none"]

Next == \E t \in Tasks : Create(t) \/ Start(t) \/ Settle(t) \/ Ignore(t) \/ Retry(t)

Spec == Init /\ [][Next]_status
=============================================================================
