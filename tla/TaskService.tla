----------------------------- MODULE TaskService -----------------------------
(***************************************************************************)
(* What the task scheduler promises to those who ask it for tasks, without *)
(* queue entries, task states, timers or the store.  Tasks wait in a line, *)
(* urgent ones before others and otherwise in the order they were asked    *)
(* for.  While the service is open a free worker takes the first of the    *)
(* line, and then begins to work at it, puts it back or drops it.  Work    *)
(* begins only after the dependencies of the task are done, and nobody     *)
(* else works at the task, unless somebody has meddled with it.  Users may *)
(* withdraw tasks from the line, and have a worker begin with a task of    *)
(* their own choice: that is meddling.                                     *)
(***************************************************************************)
EXTENDS Integers

CONSTANTS Tasks, Deps, Priority, Workers, None

VARIABLES
    open,     \* free workers may take tasks
    waiting,  \* the tasks in the line
    line,     \* pairs of waiting tasks: the first is served before the second
    stage,    \* what a worker is doing
    desk,     \* the task of a worker
    done,     \* tasks on which work was completed
    meddled   \* tasks asked for, revived or handed to a worker by users

vars == <<open, waiting, line, stage, desk, done, meddled>>

Init ==
    /\ open = FALSE
    /\ waiting = {} /\ line = {}
    /\ stage = [w \in Workers |-> "free"] /\ desk = [w \in Workers |-> None]
    /\ done = {} /\ meddled = {}

\* The line with t behind those that are at least as urgent.
Joined(t) ==
    IF t \in waiting THEN line
    ELSE line \cup {<<u, t>> : u \in {v \in waiting : Priority[v] >= Priority[t]}}
              \cup {<<t, u>> : u \in {v \in waiting : Priority[v] < Priority[t]}}

Join(t) ==
    /\ waiting' = waiting \cup {t}
    /\ line' = Joined(t)
    /\ meddled' \in {meddled, meddled \cup {t}}

Free(w) ==
    /\ stage' = [stage EXCEPT ![w] = "free"]
    /\ desk' = [desk EXCEPT ![w] = None]

-----------------------------------------------------------------------------
OpenOrClose ==
    /\ open' = ~open
    /\ UNCHANGED <<waiting, line, stage, desk, done, meddled>>

Ask(t) ==
    /\ UNCHANGED <<open, desk, stage, done>>
    /\ Join(t)

Meddle(t) ==
    /\ meddled' = meddled \cup {t}
    /\ UNCHANGED <<open, waiting, line, stage, desk, done>>

Withdraw(gone) ==
    /\ waiting' = waiting \ gone
    /\ line' = {p \in line : gone \cap {p[1], p[2]} = {}}
    /\ UNCHANGED <<open, stage, desk, done, meddled>>

Intrude(w, t) ==
    /\ stage[w] = "free"
    /\ stage' = [stage EXCEPT ![w] = "working"]
    /\ desk' = [desk EXCEPT ![w] = t]
    /\ meddled' = meddled \cup {t}
    /\ UNCHANGED <<open, waiting, line, done>>

Take(w, t) ==
    /\ open /\ stage[w] = "free" /\ t \in waiting
    /\ \A u \in waiting \ {t} : <<t, u>> \in line
    /\ stage' = [stage EXCEPT ![w] = "deciding"]
    /\ desk' = [desk EXCEPT ![w] = t]
    /\ waiting' = waiting \ {t}
    /\ line' = {p \in line : t \notin {p[1], p[2]}}
    /\ UNCHANGED <<open, done, meddled>>

PutBack(w) ==
    /\ stage[w] = "deciding"
    /\ Free(w)
    /\ Join(desk[w])
    /\ UNCHANGED <<open, done>>

Drop(w) ==
    /\ stage[w] = "deciding"
    /\ Free(w)
    /\ UNCHANGED <<open, waiting, line, done, meddled>>

Begin(w) ==
    LET t == desk[w]
    IN  /\ stage[w] = "deciding"
        /\ Deps[t] \subseteq done
        /\ \A v \in Workers : stage[v] = "working" /\ desk[v] = t => t \in meddled
        /\ stage' = [stage EXCEPT ![w] = "working"]
        /\ UNCHANGED <<open, waiting, line, desk, done, meddled>>

Finish(w) ==
    /\ stage[w] = "working"
    /\ stage' = [stage EXCEPT ![w] = "reporting"]
    /\ done' = done \cup {desk[w]}
    /\ UNCHANGED <<open, waiting, line, desk, meddled>>

\* After its report, or because the work failed or could not be reported.
Leave(w) ==
    /\ stage[w] \in {"working", "reporting"}
    /\ Free(w)
    /\ done' \in {done, done \cup {desk[w]}}
    /\ UNCHANGED <<open, waiting, line, meddled>>

Next ==
    \/ OpenOrClose \/ \E gone \in SUBSET waiting : Withdraw(gone)
    \/ \E t \in Tasks : Ask(t) \/ Meddle(t)
    \/ \E w \in Workers :
          \/ \E t \in Tasks : Take(w, t) \/ Intrude(w, t)
          \/ PutBack(w) \/ Drop(w) \/ Begin(w) \/ Finish(w) \/ Leave(w)

Spec == Init /\ [][Next]_vars
=============================================================================
