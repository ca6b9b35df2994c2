-------------------------- MODULE WriteHandleProofs ---------------------------
(***************************************************************************)
(* The safety properties of WriteHandle, for any number of processes and   *)
(* writes.                                                                 *)
(***************************************************************************)
EXTENDS WriteHandle, TLAPS

Answers == {"0", "EINVAL"}

\* done is set with the command's start, in the critical section that
\* answers the first close; until then nobody has been given an answer.
Progress ==
  /\ done => Len(executed) = 1
  /\ ~done => executed = <<>>
  /\ wrote => buffer # <<>>
  /\ mu # Nobody => done

IInv == TypeOK /\ Progress /\ ExecutedOnce /\ SameAnswer

LEMMA InitInv == Init => IInv
<1>1. SUFFICES ASSUME Init PROVE IInv
  OBVIOUS
<1>2. buffer \in Seq(Chunks) /\ executed \in Seq(Seq(Chunks)) /\ Len(executed) = 0
  BY <1>1 DEF Init
<1>3. TypeOK
  BY <1>1, <1>2 DEF Init, TypeOK
<1>4. Progress /\ ExecutedOnce
  BY <1>1, <1>2 DEF Init, Progress, ExecutedOnce
<1>5. SameAnswer
  BY <1>1 DEF Init, SameAnswer
<1>6. QED
  BY <1>3, <1>4, <1>5 DEF IInv

\* Descriptors come and go without touching the handle.
LEMMA DescriptorStep ==
  ASSUME IInv,
         UNCHANGED <<mu, handleVars, historyVars>>,
         fd' \in [Closers -> {"none", "open", "closing", "closed"}],
         \A p \in Closers : fd[p] = "closing" => fd'[p] = "closing"
  PROVE  IInv'
BY DEF IInv, TypeOK, Progress, ExecutedOnce, SameAnswer, Closers, handleVars, historyVars

LEMMA WriteStep ==
  ASSUME IInv, NEW p \in Procs, NEW chunk \in Chunks, Write(p, chunk)
  PROVE  IInv'
<1>1. buffer' \in Seq(Chunks) /\ buffer' # <<>>
  BY DEF IInv, TypeOK, Write
<1>2. QED
  BY <1>1 DEF IInv, TypeOK, Progress, ExecutedOnce, SameAnswer, Write, historyVars

LEMMA FinishAgainStep ==
  ASSUME IInv, NEW p \in Closers, FinishAgain(p)
  PROVE  IInv'
<1>1. UNCHANGED <<mu, buffer, wrote, done, errno, executed>> /\ mu = Nobody
  BY DEF FinishAgain, handleVars
<1>2. reply' = [reply EXCEPT ![p] = IF ~wrote THEN "empty" ELSE errno] /\ (wrote => done)
  BY DEF FinishAgain
<1>3. TypeOK'
  BY <1>1, <1>2 DEF IInv, TypeOK, FinishAgain
<1>4. SameAnswer'
  <2>1. SUFFICES ASSUME NEW q \in Closers, reply'[q] \in Answers
                 PROVE  Len(executed) = 1 /\ reply'[q] = errno
    BY <1>1 DEF SameAnswer, Answers
  <2>2. CASE q = p
    BY <1>2, <2>1, <2>2 DEF IInv, TypeOK, Progress, Answers
  <2>3. CASE q # p
    BY <1>2, <2>1, <2>3 DEF IInv, TypeOK, SameAnswer, Answers
  <2>4. QED
    BY <2>2, <2>3
<1>5. Progress' /\ ExecutedOnce'
  BY <1>1 DEF IInv, Progress, ExecutedOnce
<1>6. QED
  BY <1>3, <1>4, <1>5 DEF IInv

LEMMA FinishBeginStep ==
  ASSUME IInv, NEW p \in Closers, FinishBegin(p)
  PROVE  IInv'
<1>1. executed = <<>> /\ buffer # <<>> /\ buffer \in Seq(Chunks)
  BY DEF IInv, Progress, TypeOK, FinishBegin
<1>2. executed' = <<buffer>>
  BY <1>1 DEF FinishBegin
<1>3. Len(executed') = 1 /\ executed'[1] = buffer
  BY <1>2
<1>4. executed' \in Seq(Seq(Chunks))
  BY <1>1, <1>2
<1>5. TypeOK'
  BY <1>4 DEF IInv, TypeOK, FinishBegin
<1>6. Progress' /\ ExecutedOnce'
  BY <1>1, <1>3 DEF IInv, Progress, ExecutedOnce, FinishBegin
<1>7. SameAnswer'
  <2>1. \A q \in Closers : reply[q] \notin Answers
    BY <1>1 DEF IInv, SameAnswer, Answers
  <2>2. QED
    BY <2>1 DEF SameAnswer, FinishBegin, Answers
<1>8. QED
  BY <1>5, <1>6, <1>7 DEF IInv

LEMMA FinishEndStep ==
  ASSUME IInv, NEW p \in Closers, NEW answer \in Answers, FinishEnd(p, answer)
  PROVE  IInv'
<1>1. mu # Nobody /\ done /\ Len(executed) = 1
  BY ProcAssumption DEF IInv, Progress, FinishEnd, Closers
<1>2. TypeOK'
  BY DEF IInv, TypeOK, FinishEnd, Answers
<1>3. Progress' /\ ExecutedOnce'
  BY DEF IInv, Progress, ExecutedOnce, FinishEnd
<1>4. SameAnswer'
  <2>1. \A q \in Closers : reply[q] \notin Answers
    BY <1>1 DEF IInv, SameAnswer, Answers
  <2>2. \A q \in Closers : q # p => reply'[q] = reply[q]
    BY DEF IInv, TypeOK, FinishEnd
  <2>3. reply'[p] = answer /\ errno' = answer
    BY DEF IInv, TypeOK, FinishEnd
  <2>4. mu' = Nobody /\ executed' = executed
    BY DEF FinishEnd
  <2>5. QED
    BY <1>1, <2>1, <2>2, <2>3, <2>4 DEF SameAnswer, Answers
<1>5. QED
  BY <1>2, <1>3, <1>4 DEF IInv

LEMMA NextInv == IInv /\ [Next]_vars => IInv'
<1>1. SUFFICES ASSUME IInv, [Next]_vars PROVE IInv'
  OBVIOUS
<1>2. fd \in [Closers -> {"none", "open", "closing", "closed"}] /\ Procs \subseteq Closers
      /\ Kernel \in Closers
  BY <1>1 DEF IInv, TypeOK, Closers
<1>3. CASE \E p \in Procs : Open(p)
  BY <1>1, <1>2, <1>3, DescriptorStep DEF Open
<1>4. CASE \E p \in Procs : CloseFd(p)
  BY <1>1, <1>2, <1>4, DescriptorStep DEF CloseFd
<1>5. CASE \E p, q \in Procs : Share(p, q)
  BY <1>1, <1>2, <1>5, DescriptorStep DEF Share
<1>6. CASE LetGo
  BY <1>1, <1>2, <1>6, DescriptorStep DEF LetGo
<1>7. CASE \E p \in Procs, chunk \in Chunks : Write(p, chunk)
  BY <1>1, <1>7, WriteStep
<1>8. CASE \E p \in Closers : Finish(p)
  BY <1>1, <1>8, FinishAgainStep, FinishBeginStep, FinishEndStep DEF Finish, Answers
<1>9. CASE UNCHANGED vars
  BY <1>1, <1>2, <1>9, DescriptorStep DEF vars
<1>10. QED
  BY <1>1, <1>3, <1>4, <1>5, <1>6, <1>7, <1>8, <1>9 DEF Next

\* The invariant holds throughout: what finish has done so far follows from
\* wrote, done and the mutex (filesystem.go, 385-401).
THEOREM Inductive == Spec => []IInv
BY InitInv, NextInv, PTL DEF Spec

\* The types, and that the process in finish is one that is closing the file
\* (filesystem.go, 385-401).
THEOREM HandleTyped == Spec => []TypeOK
<1>1. IInv => TypeOK
  BY DEF IInv
<1>2. QED
  BY <1>1, Inductive, PTL

\* A file's command runs at most once, and not for a file that nothing was
\* written to, however many processes close it in whatever order.
THEOREM RunsOnce == Spec => []ExecutedOnce
<1>1. IInv => ExecutedOnce
  BY DEF IInv
<1>2. QED
  BY <1>1, Inductive, PTL

\* All who close a written file are told how its command ended.
THEOREM AnswersAgree == Spec => []SameAnswer
<1>1. IInv => SameAnswer
  BY DEF IInv
<1>2. QED
  BY <1>1, Inductive, PTL

==============================================================================
