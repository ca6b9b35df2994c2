------------------------------- MODULE Resource -------------------------------
(***************************************************************************)
(* What desktop.Resource (src/internal/desktop/session.go) promises to     *)
(* whoever owns one: Done, Err and Close.  Backends and the composite that *)
(* owns them make the same promise, so this is the abstract specification  *)
(* of each of them.                                                        *)
(***************************************************************************)
CONSTANT Callers  \* goroutines that may call Close

VARIABLES
  done,    \* the channel of Done is closed
  failed,  \* Err answers an error
  calling, \* the callers inside Close
  closed   \* some Close has returned

vars == <<done, failed, calling, closed>>

Init ==
  /\ done = FALSE
  /\ failed = FALSE
  /\ calling = {}
  /\ closed = FALSE

\* Something goes wrong, or is noticed: before or after the end.
Fail == failed' = TRUE /\ UNCHANGED <<done, calling, closed>>

\* The resource ends, by itself or because it is being closed, and may say
\* why.
End ==
  /\ done' = TRUE
  /\ failed' \in {failed, TRUE}
  /\ UNCHANGED <<calling, closed>>

CallClose(c) ==
  /\ calling' = calling \cup {c}
  /\ UNCHANGED <<done, failed, closed>>

\* Close returns to nobody before the resource has ended.
ReturnClose(c) ==
  /\ c \in calling
  /\ done
  /\ calling' = calling \ {c}
  /\ closed' = TRUE
  /\ UNCHANGED <<done, failed>>

Next ==
  \/ Fail
  \/ End
  \/ \E c \in Callers : CallClose(c) \/ ReturnClose(c)

\* A resource that is being closed ends, and every Close returns.
Fairness ==
  /\ WF_vars(calling # {} /\ End)
  /\ \A c \in Callers : WF_vars(ReturnClose(c))

Safety == Init /\ [][Next]_vars

Spec == Safety /\ Fairness

==============================================================================
