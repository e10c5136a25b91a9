---------------------------- MODULE TaskService -----------------------------
(***************************************************************************)
(* What a caller may rely on from a ThreadPool, with no threads, queue or  *)
(* condition variable: a task that was accepted is finished at most once;  *)
(* closing with drain ends only when every accepted task is finished;      *)
(* closing without it may leave accepted tasks unfinished for ever; and    *)
(* nothing is accepted once closing has begun nor finished once it is over.*)
(***************************************************************************)
CONSTANT Task

VARIABLES
  phase,      \* "open", then "draining" or "cancelling", then "closed"
  accepted,   \* tasks handed to the service
  finished    \* tasks whose result is available

vars == <<phase, accepted, finished>>

Init == phase = "open" /\ accepted = {} /\ finished = {}

Accept(t) ==
  /\ phase = "open" /\ t \in Task \ accepted
  /\ accepted' = accepted \cup {t}
  /\ UNCHANGED <<phase, finished>>

Finish(t) ==
  /\ phase # "closed" /\ t \in accepted \ finished
  /\ finished' = finished \cup {t}
  /\ UNCHANGED <<phase, accepted>>

Close(how) ==
  /\ phase = "open"
  /\ phase' = how
  /\ UNCHANGED <<accepted, finished>>

Closed ==
  /\ \/ phase = "draining" /\ finished = accepted
     \/ phase = "cancelling"
  /\ phase' = "closed"
  /\ UNCHANGED <<accepted, finished>>

Next ==
  \/ \E t \in Task : Accept(t) \/ Finish(t)
  \/ \E how \in {"draining", "cancelling"} : Close(how)
  \/ Closed

Spec == Init /\ [][Next]_vars

=============================================================================
