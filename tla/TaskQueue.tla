------------------------------ MODULE TaskQueue ------------------------------
(***************************************************************************)
(* What the dispatcher promises to the rest of the server, without its     *)
(* threads, its lock or its condition variable: a task that is accepted    *)
(* waits in one double-ended queue, leaves it from the head only, and is   *)
(* started at most once.  Dispatcher.tla is shown to implement it.         *)
(***************************************************************************)
EXTENDS Sequences

CONSTANT Tasks      \* the task objects of the server

VARIABLES
  queue,            \* accepted and not yet started, in the order of service
  active,           \* started and not yet finished
  open              \* whether tasks are still accepted

vars == <<queue, active, open>>

Waiting == {queue[i] : i \in DOMAIN queue}

Init == /\ queue = <<>>
        /\ active = {}
        /\ open = TRUE

Accept(t) ==
  /\ open
  /\ t \notin Waiting \cup active
  /\ queue' \in {Append(queue, t), <<t>> \o queue}
  /\ UNCHANGED <<active, open>>

\* The head is started, or thrown away because it expired.
Serve ==
  /\ queue # <<>>
  /\ queue' = Tail(queue)
  /\ active' \in {active, active \cup {Head(queue)}}
  /\ UNCHANGED open

Finish(t) ==
  /\ t \in active
  /\ active' = active \ {t}
  /\ UNCHANGED <<queue, open>>

Close == /\ open' = FALSE
         /\ UNCHANGED <<queue, active>>

Next == \/ \E t \in Tasks : Accept(t) \/ Finish(t)
        \/ Serve
        \/ Close

SafeSpec == Init /\ [][Next]_vars

\* A queue that is open and not empty is served.
Spec == SafeSpec /\ WF_vars(open /\ Serve)
=============================================================================
