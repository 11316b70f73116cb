------------------------------- MODULE UTask -------------------------------
(***************************************************************************)
(* The cooperative scheduler of src/utask/utask.c, as operators on its     *)
(* state, for modules that say what the tasks do.  A state s is a record   *)
(* of the run list, of every task, and of what killed the program, if      *)
(* anything did: a failed BUG_ON, or the use of a task that was freed.     *)
(* Nothing happens after that.                                             *)
(***************************************************************************)
EXTENDS Lists, FiniteSets, SequencesExt

CONSTANT None     \* no task

Dead(s, why) == [s EXCEPT !.dead = IF @ = "no" THEN why ELSE @]

NoTask == [st |-> "none", at |-> "start", canceled |-> FALSE, destroy_at_finish |-> FALSE, destroyer |-> None]

\* What utask_create leaves in destroy_at_finish: what the memory of the new
\* stack holds, which may be that of a task that was freed.
LeftInMemory(s) ==
    {FALSE} \union {s.task[t].destroy_at_finish : t \in {u \in DOMAIN s.task : s.task[u].st = "freed"}}

\* utask_create_name_nowake; the task starts at the given place of its code.
Created(s, t, at, bit) ==
    [s EXCEPT !.task[t] = [NoTask EXCEPT !.st = "live", !.at = at, !.destroy_at_finish = bit]]

\* utask_init
Scheduler(tasks) == [run_list |-> <<>>, dead |-> "no", task |-> [t \in tasks |-> NoTask]]

\* utask_current, once utask_run switches to it: the task whose stack is used.
Current(s) == IF s.run_list = <<>> THEN None ELSE Head(s.run_list)

\* Faulty: a task that waits to run is added again.
WakeAgain(s, t) ==
    IF s.task[t].st = "freed" THEN Dead(s, "freed")
    ELSE IF s.task[t].st = "finished" THEN s
    ELSE [s EXCEPT !.run_list = Append(@, t)]

\* utask_wake_task
Wake(s, t) ==
    IF s.task[t].st = "freed" THEN Dead(s, "freed")
    ELSE IF s.task[t].st = "finished" \/ Contains(s.run_list, t) THEN s
    ELSE [s EXCEPT !.run_list = Append(@, t)]

\* utask_create
Started(s, t, bit) == Wake(Created(s, t, "start", bit), t)

\* utask_cancel
Cancel(s, t) ==
    IF s.task[t].canceled THEN s ELSE Wake([s EXCEPT !.task[t].canceled = TRUE], t)

\* Faulty: the task that waits to destroy this one is not remembered.
DestroyForgotten(s, t, by) ==
    IF s.task[t].destroyer # None THEN Dead(s, "twice") ELSE Cancel(s, t)

\* utask_destroy of a task that is not finished, until the caller sleeps.
DestroyStart(s, t, by) ==
    IF t = by THEN Dead(s, "self")
    ELSE IF s.task[t].destroyer # None THEN Dead(s, "twice")
    ELSE [Cancel(s, t) EXCEPT !.task[t].destroyer = by]

\* utask_destroy of a task that is finished.
Free(s, t) ==
    IF s.task[t].st = "freed" THEN Dead(s, "freed")
    ELSE [s EXCEPT !.run_list = Unlinked(@, t), !.task[t].st = "freed"]

\* utask_run once the task's function has returned.
Finish(s, t) ==
    LET f == [s EXCEPT !.task[t].st = "finished"]
    IN IF f.task[t].destroyer # None THEN Wake(f, f.task[t].destroyer)
       ELSE IF f.task[t].destroy_at_finish THEN Free(f, t)
       ELSE f

\* utask_schedule: the task goes on at the given place once it is woken.
Sleep(s, t, at) == [s EXCEPT !.task[t].at = at]

\* list_del_init of the first task of the run list, which runs next.
Switch(s) == [s EXCEPT !.run_list = Tail(@)]
=============================================================================
