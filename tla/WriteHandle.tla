----------------------------- MODULE WriteHandle ------------------------------
(***************************************************************************)
(* An open input file of the FUSE filesystem (fusefs/filesystem.go, 86-93  *)
(* and 353-401): chunks are collected in a buffer, and closing the file    *)
(* executes one service command with what has been collected.              *)
(*                                                                         *)
(* Several processes may hold the same open file, since descriptors are    *)
(* duplicated and inherited.  The kernel calls Flush each time one of them *)
(* is closed, and Release once when the last one is gone; that is external *)
(* and modelled by the actions Open, Share, CloseFd and LetGo.  Write,     *)
(* Flush and Release hold the mutex of the handle, the command included.   *)
(***************************************************************************)
EXTENDS Naturals, Sequences

CONSTANTS
  Procs,    \* processes that may hold a descriptor
  Kernel,   \* who calls Release
  Nobody,   \* the mutex is free
  Chunks,   \* what a write may carry
  MaxChunks \* bound: writes looked at

ASSUME ProcAssumption == Kernel \notin Procs /\ Nobody \notin Procs \cup {Kernel}
ASSUME ChunkAssumption == MaxChunks \in Nat

VARIABLES
  fd,      \* each process's descriptor; for the kernel, its call of Release
  mu,      \* who is in finish, executing the command, with the mutex held
  buffer,  \* h.buffer
  wrote,   \* h.wrote
  done,    \* h.done
  errno,   \* h.errno
  reply,   \* history: what finish returned ("empty" when nothing was written)
  executed \* history: the contents the command was executed with

handleVars  == <<buffer, wrote, done, errno>>
historyVars == <<reply, executed>>
vars == <<fd, mu, handleVars, historyVars>>

Closers == Procs \cup {Kernel}

------------------------------------------------------------------------------
(* The processes and the kernel *)

Open(p) ==
  /\ \A q \in Closers : fd[q] = "none"
  /\ fd' = [fd EXCEPT ![p] = "open"]
  /\ UNCHANGED <<mu, handleVars, historyVars>>

\* fork or dup.
Share(p, q) ==
  /\ fd[p] = "open"
  /\ fd[q] = "none"
  /\ fd' = [fd EXCEPT ![q] = "open"]
  /\ UNCHANGED <<mu, handleVars, historyVars>>

\* A descriptor is closed and the kernel calls Flush.
CloseFd(p) ==
  /\ fd[p] = "open"
  /\ fd' = [fd EXCEPT ![p] = "closing"]
  /\ UNCHANGED <<mu, handleVars, historyVars>>

\* Nobody holds the file any more: the kernel calls Release.
LetGo ==
  /\ \E p \in Procs : fd[p] = "closed"
  /\ \A p \in Procs : fd[p] \in {"none", "closed"}
  /\ fd[Kernel] = "none"
  /\ fd' = [fd EXCEPT ![Kernel] = "closing"]
  /\ UNCHANGED <<mu, handleVars, historyVars>>

------------------------------------------------------------------------------
(* The handle *)

\* Writes follow each other at the file offset the processes share.
Write(p, chunk) ==
  /\ fd[p] = "open"
  /\ mu = Nobody
  /\ Len(buffer) < MaxChunks
  /\ buffer' = Append(buffer, chunk)
  /\ wrote' = TRUE
  /\ UNCHANGED <<fd, mu, done, errno, historyVars>>

\* Fault: a handle that has nothing to do answers success.
FinishAgainForgets(p) ==
  /\ fd[p] = "closing"
  /\ mu = Nobody
  /\ ~wrote \/ done
  /\ fd' = [fd EXCEPT ![p] = "closed"]
  /\ reply' = [reply EXCEPT ![p] = IF ~wrote THEN "empty" ELSE "0"]
  /\ UNCHANGED <<mu, handleVars, executed>>

\* finish with nothing to do: nothing was written, or the command is over.
FinishAgain(p) ==
  /\ fd[p] = "closing"
  /\ mu = Nobody
  /\ ~wrote \/ done
  /\ fd' = [fd EXCEPT ![p] = "closed"]
  /\ reply' = [reply EXCEPT ![p] = IF ~wrote THEN "empty" ELSE errno]
  /\ UNCHANGED <<mu, handleVars, executed>>

\* Fault: done is not looked at.
FinishBeginAnew(p) ==
  /\ fd[p] = "closing"
  /\ mu = Nobody
  /\ wrote
  /\ mu' = p
  /\ done' = TRUE
  /\ executed' = Append(executed, buffer)
  /\ UNCHANGED <<fd, buffer, wrote, errno, reply>>

\* finish starts the command.
FinishBegin(p) ==
  /\ fd[p] = "closing"
  /\ mu = Nobody
  /\ wrote
  /\ ~done
  /\ mu' = p
  /\ done' = TRUE
  /\ executed' = Append(executed, buffer)
  /\ UNCHANGED <<fd, buffer, wrote, errno, reply>>

\* Fault: the mutex stays locked after an error.
FinishEndLocked(p, answer) ==
  /\ mu = p
  /\ fd[p] = "closing"
  /\ mu' = IF answer = "0" THEN Nobody ELSE mu
  /\ fd' = [fd EXCEPT ![p] = "closed"]
  /\ errno' = answer
  /\ reply' = [reply EXCEPT ![p] = answer]
  /\ UNCHANGED <<buffer, wrote, done, executed>>

\* The command returns, and its answer is the answer of this close and of
\* the ones after it.
FinishEnd(p, answer) ==
  /\ mu = p
  /\ mu' = Nobody
  /\ fd' = [fd EXCEPT ![p] = "closed"]
  /\ errno' = answer
  /\ reply' = [reply EXCEPT ![p] = answer]
  /\ UNCHANGED <<buffer, wrote, done, executed>>

------------------------------------------------------------------------------
Init ==
  /\ fd = [p \in Closers |-> "none"]
  /\ mu = Nobody
  /\ buffer = <<>>
  /\ wrote = FALSE
  /\ done = FALSE
  /\ errno = "0"
  /\ reply = [p \in Closers |-> "none"]
  /\ executed = <<>>

Finish(p) ==
  FinishAgain(p) \/ FinishBegin(p) \/ \E answer \in {"0", "EINVAL"} : FinishEnd(p, answer)

Next ==
  \/ \E p \in Procs : \/ Open(p)
                      \/ CloseFd(p)
                      \/ \E q \in Procs : Share(p, q)
                      \/ \E chunk \in Chunks : Write(p, chunk)
  \/ LetGo
  \/ \E p \in Closers : Finish(p)

\* Commands return and mutexes are handed on (sync.Mutex does not starve);
\* the kernel releases a file that nobody holds.
Fairness == WF_vars(LetGo) /\ \A p \in Closers : SF_vars(Finish(p))

Spec == Init /\ [][Next]_vars /\ Fairness

------------------------------------------------------------------------------
(* Properties *)

\* The values the variables take; whoever has the mutex is closing the file.
TypeOK ==
  /\ fd \in [Closers -> {"none", "open", "closing", "closed"}]
  /\ mu \in Closers \cup {Nobody}
  /\ mu # Nobody => fd[mu] = "closing"
  /\ buffer \in Seq(Chunks)
  /\ wrote \in BOOLEAN
  /\ done \in BOOLEAN
  /\ errno \in {"0", "EINVAL"}
  /\ reply \in [Closers -> {"none", "empty", "0", "EINVAL"}]
  /\ executed \in Seq(Seq(Chunks))

\* ExecutedOnce: however many descriptors of a file are closed, and although
\* both Flush and Release finish the handle, its command runs at most once,
\* and a file that is closed unwritten runs none.
ExecutedOnce ==
  /\ Len(executed) <= 1
  /\ executed # <<>> => executed[1] # <<>>

\* SameAnswer: everybody who closes the file after it was written is told
\* how its command ended, not just the one who ran it.
SameAnswer ==
  \A p \in Closers :
    reply[p] \in {"0", "EINVAL"} =>
      mu = Nobody /\ Len(executed) = 1 /\ reply[p] = errno

\* CloseReturns: closing the file returns, and a written file that nobody
\* holds has had its command executed.
CloseReturns ==
  /\ \A p \in Closers : (fd[p] = "closing") ~> (fd[p] = "closed")
  /\ (wrote /\ fd[Kernel] = "closed") ~> (executed # <<>>)

\* WholeFile: the command of a file is executed with everything that was
\* written to it ("collect write chunks per open file handle and execute the
\* corresponding service command on close", docs/fuse.md, 35-37).
WholeFile ==
  fd[Kernel] = "closed" /\ wrote => executed = <<buffer>>

==============================================================================
