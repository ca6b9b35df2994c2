------------------------------ MODULE RdpProofs -------------------------------
(***************************************************************************)
(* The safety properties of RdpSession, for any number of modes, sizes and *)
(* goroutines.                                                             *)
(***************************************************************************)
EXTENDS RdpSession, TLAPS

Images == [size : Sizes \cup {0}, dims : Sizes \cup {0}, look : Looks, torn : BOOLEAN]

\* Where a goroutine stands in Status or Screenshot, and in Close.
Looking == {"get", "look", "fill", "read", "look2", "fill2", "copy", "image"}
Leaving == {"enter", "abort", "wait", "free", "leave"}

Answers == {"none", "ready", "not ready", "blank", "drawn", "error", "closed"}

ThreadType ==
  [at : Looking \cup Leaving \cup {"idle", "wild", "gone"},
   op : {"none", "status", "shot", "close"},
   read : Sizes \cup {0}, buf : Sizes \cup {0}, image : Images, answer : Answers]

\* The modes come one after the other: those to come are untouched, those
\* gone past are over, and a client is freed after its run has ended.
InTurn ==
  /\ \A a \in 1..Attempts :
       a > Current \/ (a = Current /\ start.at = "try")
         => run[a] = "none" /\ client[a] = "none" /\ once[a] = "fresh"
  /\ AttemptsClosed
  /\ \A a \in 1..Attempts :
       /\ client[a] = "freed" => run[a] = "ended" /\ ~ptr[a]
       /\ once[a] = "spent" => client[a] = "freed"

\* While StartSession waits for a picture the session is its own, and it is
\* through with it when closeOnce is.
Starting ==
  /\ start.at \in {"poll", "asked", "late"} =>
       client[Current] = "live" /\ once[Current] = "fresh" /\ start.blanks < BlankLimit
  /\ start.at \in {"poll", "asked", "late", "closing"} => Current < Attempts
  /\ start.at \in {"try", "poll", "returned", "failed"} => thread[Starter].at = "idle"
  /\ start.at \in {"asked", "late"} => thread[Starter].at \in Looking \cup {"idle"}
  /\ start.at = "closing" =>
       /\ thread[Starter].at \in Leaving \cup {"idle"}
       /\ thread[Starter].at \in {"leave", "idle"} => once[Current] = "spent"
  /\ start.at # "returned" => \A t \in Callers : thread[t].at = "idle"
  /\ \A t \in Threads : thread[t].at = "free" => run[Current] = "ended"

\* A copy that is not torn is of one size, which was GDI's when it was read.
Whole ==
  /\ \A a \in 1..Attempts : ~snapshot[a].torn => snapshot[a].dims = snapshot[a].size
  /\ \A t \in Threads : thread[t].at \in {"fill", "fill2"} => thread[t].read # 0

IInv == TypeOK /\ InTurn /\ Starting /\ Whole /\ PictureHonest

------------------------------------------------------------------------------
(* Types *)

\* TypeOK with the types by name.
Typed ==
  /\ client \in [1..Attempts -> {"none", "live", "freed"}]
  /\ ptr \in [1..Attempts -> BOOLEAN]
  /\ once \in [1..Attempts -> {"fresh", "busy", "spent"}]
  /\ run \in [1..Attempts -> {"none", "new", "connecting", "on", "resizing",
                              "leaving", "unwound", "noted", "ended"}]
  /\ broke \in [1..Attempts -> BOOLEAN]
  /\ failed \in [1..Attempts -> BOOLEAN]
  /\ aborted \in [1..Attempts -> BOOLEAN]
  /\ gdi \in [1..Attempts -> [size : Sizes \cup {0}, look : Looks]]
  /\ snapshot \in [1..Attempts -> Images]
  /\ thread \in [Threads -> ThreadType]
  /\ start \in [at : {"try", "poll", "asked", "late", "closing", "returned", "failed"},
                attempt : 1..Attempts, blanks : 0..BlankLimit]

LEMMA TypesNamed == TypeOK <=> Typed
<1>1. Looking \cup Leaving \cup {"idle", "wild", "gone"}
        = {"idle", "get", "look", "fill", "read", "look2", "fill2", "copy", "image",
           "wild", "enter", "abort", "wait", "free", "leave", "gone"}
  BY DEF Looking, Leaving
<1>2. QED
  BY <1>1 DEF TypeOK, Typed, Images, ThreadType, Answers

LEMMA TypesNamedNext == Typed' => TypeOK'
<1>1. Looking \cup Leaving \cup {"idle", "wild", "gone"}
        = {"idle", "get", "look", "fill", "read", "look2", "fill2", "copy", "image",
           "wild", "enter", "abort", "wait", "free", "leave", "gone"}
  BY DEF Looking, Leaving
<1>2. QED
  BY <1>1 DEF TypeOK, Typed, Images, ThreadType, Answers

LEMMA IdleTyped == Idle \in ThreadType /\ NoSnapshot \in Images
BY DEF Idle, NoSnapshot, ThreadType, Images, Looks, Answers

LEMMA AnswerTyped ==
  ASSUME NEW t, NEW answer \in Answers
  PROVE  LET x == IF t = Starter THEN [Idle EXCEPT !.answer = answer] ELSE Idle
         IN x \in ThreadType /\ x.at = "idle"
BY IdleTyped DEF Idle, ThreadType

LEMMA CallTyped ==
  ASSUME NEW op \in {"status", "shot", "close"}
  PROVE  /\ Call(op) \in ThreadType
         /\ Call(op).at = IF op = "close" THEN "enter" ELSE "get"
<1>1. (IF op = "close" THEN "enter" ELSE "get") \in Looking \cup Leaving
  BY DEF Looking, Leaving
<1>2. QED
  BY <1>1, IdleTyped DEF Call, Idle, ThreadType

LEMMA CurrentIsAttempt == Typed => Current \in 1..Attempts
BY DEF Typed, Current

LEMMA InitInv == Init => IInv
<1>1. SUFFICES ASSUME Init PROVE IInv
  OBVIOUS
<1>2. 1 \in 1..Attempts /\ 0 \in 0..BlankLimit
  BY AttemptAssumption
<1>3. Typed
  <2>1. NoGdi \in [size : Sizes \cup {0}, look : Looks]
    BY DEF NoGdi, Looks
  <2>2. start \in [at : {"try", "poll", "asked", "late", "closing", "returned", "failed"},
                   attempt : 1..Attempts, blanks : 0..BlankLimit]
    BY <1>1, <1>2 DEF Init
  <2>3. QED
    BY <1>1, <2>1, <2>2, IdleTyped DEF Init, Typed
<1>4. Current = 1 /\ start.at = "try"
  BY <1>1 DEF Init, Current
<1>5. InTurn
  BY <1>1, <1>4, AttemptAssumption DEF Init, InTurn, AttemptsClosed, Current
<1>6. Starting
  BY <1>1, <1>4 DEF Init, Starting, Idle, Threads
<1>7. Whole /\ PictureHonest
  BY <1>1 DEF Init, Whole, PictureHonest, ImageWhole, SnapshotCurrent, NoSnapshot, Idle
<1>8. QED
  BY <1>3, <1>5, <1>6, <1>7, TypesNamed DEF IInv

------------------------------------------------------------------------------
(* run and FreeRDP *)

Driven(a) ==
  \/ RunStep(a) \/ ConnectFails(a)
  \/ \E x \in BOOLEAN : RunBegin(a, x) \/ Drop(a, x)
  \/ \E size \in Sizes : Resize(a, size)
  \/ \E look \in Looks : Paint(a, look)
  \/ \E size \in Sizes, look \in Looks : Connect(a, size, look)

Runs == {"new", "connecting", "on", "resizing", "leaving", "unwound", "noted", "ended"}

LEMMA DrivenStep ==
  ASSUME IInv, NEW a \in 1..Attempts, Driven(a)
  PROVE  IInv'
<1>1. UNCHANGED <<lifeVars, start, thread>>
  BY DEF Driven, RunStep, Resized, Unwind, RunSetErr, RunDone, ConnectFails, RunBegin, Drop,
         Resize, Paint, Connect
<1>2. UNCHANGED <<client, ptr, once, aborted, start, thread>> /\ Current' = Current
  BY <1>1 DEF lifeVars, Current
<1>3. Typed
  BY TypesNamed DEF IInv
<1>4. /\ run[a] \notin {"none", "ended"}
      /\ run' \in [1..Attempts -> Runs \cup {"none"}]
      /\ run'[a] # "none"
      /\ \A b \in 1..Attempts : b # a => run'[b] = run[b]
  <2>1. run[a] \in Runs \ {"ended"} /\ (\E x \in Runs : run' = [run EXCEPT ![a] = x] \/ (x = run[a] /\ UNCHANGED run))
    <3>1. CASE RunStep(a) \/ ConnectFails(a)
      BY <3>1 DEF Runs, RunStep, Resized, Unwind, RunSetErr, RunDone, ConnectFails
    <3>2. CASE \E x \in BOOLEAN : RunBegin(a, x)
      BY <3>2 DEF Runs, RunBegin
    <3>3. CASE \E x \in BOOLEAN : Drop(a, x)
      BY <3>3 DEF Runs, Drop
    <3>4. CASE \E size \in Sizes : Resize(a, size)
      BY <3>4 DEF Runs, Resize
    <3>5. CASE \E look \in Looks : Paint(a, look)
      BY <3>5 DEF Runs, Paint, runVars
    <3>6. CASE \E size \in Sizes, look \in Looks : Connect(a, size, look)
      BY <3>6 DEF Runs, Connect
    <3>7. QED
      BY <3>1, <3>2, <3>3, <3>4, <3>5, <3>6 DEF Driven
  <2>2. PICK x \in Runs : run' = [run EXCEPT ![a] = x] \/ (x = run[a] /\ UNCHANGED run)
    BY <2>1
  <2>3. CASE run' = [run EXCEPT ![a] = x]
    BY <1>3, <2>1, <2>3 DEF Typed, Runs
  <2>4. CASE UNCHANGED run
    BY <1>3, <2>1, <2>4 DEF Typed, Runs
  <2>5. QED
    BY <2>2, <2>3, <2>4
<1>5. broke' \in [1..Attempts -> BOOLEAN] /\ failed' \in [1..Attempts -> BOOLEAN]
  <2>1. ASSUME NEW x \in BOOLEAN, RunBegin(a, x) \/ Drop(a, x)
        PROVE  broke' \in [1..Attempts -> BOOLEAN] /\ UNCHANGED failed
    <3>1. (~x) \in BOOLEAN
      OBVIOUS
    <3>2. PICK y \in BOOLEAN : broke' = [broke EXCEPT ![a] = y]
      BY <2>1, <3>1 DEF RunBegin, Drop
    <3>3. QED
      BY <1>3, <2>1, <3>2 DEF Typed, RunBegin, Drop
  <2>2. CASE RunStep(a) \/ ConnectFails(a)
    BY <1>3, <2>2 DEF Typed, RunStep, Resized, Unwind, RunSetErr, RunDone, ConnectFails
  <2>3. CASE \/ \E size \in Sizes : Resize(a, size)
             \/ \E look \in Looks : Paint(a, look)
             \/ \E size \in Sizes, look \in Looks : Connect(a, size, look)
    <3>1. UNCHANGED <<broke, failed>>
      BY <2>3 DEF Resize, Paint, Connect, runVars
    <3>2. QED
      BY <1>3, <3>1 DEF Typed
  <2>4. QED
    BY <1>3, <2>1, <2>2, <2>3 DEF Typed, Driven
<1>6. PICK g \in [size : Sizes \cup {0}, look : Looks], s \in Images :
        /\ gdi' = [gdi EXCEPT ![a] = g]
        /\ snapshot' = [snapshot EXCEPT ![a] = s]
        /\ ~s.torn => s.dims = s.size
        /\ s.size > 0 /\ ~s.torn /\ run'[a] \notin {"resizing", "leaving"} => s.size = g.size
  <2>1. gdi[a] \in [size : Sizes \cup {0}, look : Looks] /\ snapshot[a] \in Images
        /\ gdi = [gdi EXCEPT ![a] = gdi[a]] /\ snapshot = [snapshot EXCEPT ![a] = snapshot[a]]
    BY <1>3 DEF Typed
  <2>2. /\ ~snapshot[a].torn => snapshot[a].dims = snapshot[a].size
        /\ snapshot[a].size > 0 /\ ~snapshot[a].torn /\ run[a] \notin {"resizing", "leaving"}
             => snapshot[a].size = gdi[a].size
    BY DEF IInv, Whole, PictureHonest, SnapshotCurrent
  <2>3. NoSnapshot \in Images /\ ~NoSnapshot.torn /\ NoSnapshot.dims = NoSnapshot.size
        /\ ~(NoSnapshot.size > 0) /\ NoGdi \in [size : Sizes \cup {0}, look : Looks]
    BY IdleTyped DEF NoSnapshot, NoGdi, Looks
  <2>4. CASE RunSetErr(a) \/ RunDone(a) \/ ConnectFails(a) \/ \E x \in BOOLEAN : RunBegin(a, x)
    <3>1. UNCHANGED <<gdi, snapshot>> /\ run[a] \notin {"resizing", "leaving"}
      BY <2>4 DEF RunSetErr, RunDone, ConnectFails, RunBegin, frameVars
    <3>2. QED
      BY <2>1, <2>2, <3>1
  <2>5. CASE Resized(a) \/ Unwind(a)
    <3>1. UNCHANGED gdi /\ snapshot' = [snapshot EXCEPT ![a] = NoSnapshot]
      BY <2>5 DEF Resized, Unwind
    <3>2. QED
      BY <2>1, <2>3, <3>1
  <2>6. CASE \E x \in BOOLEAN : Drop(a, x)
    <3>1. gdi' = [gdi EXCEPT ![a] = NoGdi] /\ UNCHANGED snapshot /\ run'[a] = "leaving"
      BY <1>3, <2>6 DEF Typed, Drop
    <3>2. QED
      BY <2>1, <2>2, <2>3, <3>1
  <2>7. ASSUME NEW size \in Sizes, Resize(a, size)
        PROVE  \E g \in [size : Sizes \cup {0}, look : Looks] :
                 gdi' = [gdi EXCEPT ![a] = g] /\ UNCHANGED snapshot /\ run'[a] = "resizing"
    <3>1. [gdi[a] EXCEPT !.size = size] \in [size : Sizes \cup {0}, look : Looks]
      BY <2>1
    <3>2. gdi' = [gdi EXCEPT ![a] = [gdi[a] EXCEPT !.size = size]] /\ UNCHANGED snapshot
          /\ run'[a] = "resizing"
      BY <1>3, <2>7 DEF Typed, Resize
    <3>3. QED
      BY <3>1, <3>2
  <2>8. ASSUME NEW look \in Looks, Paint(a, look)
        PROVE  \E g \in [size : Sizes \cup {0}, look : Looks], s \in Images :
                 /\ gdi' = [gdi EXCEPT ![a] = g] /\ snapshot' = [snapshot EXCEPT ![a] = s]
                 /\ s.dims = s.size /\ s.size = g.size
    <3>1. DEFINE g == [gdi[a] EXCEPT !.look = look]
                 s == [size |-> gdi[a].size, dims |-> gdi[a].size, look |-> look, torn |-> FALSE]
    <3>2. g \in [size : Sizes \cup {0}, look : Looks] /\ s \in Images /\ g.size = gdi[a].size
      BY <2>1 DEF Images
    <3>3. gdi' = [gdi EXCEPT ![a] = g]
      BY <2>8 DEF Paint
    <3>4. Snapshot(gdi[a].size, gdi[a].size, look) = s
      BY DEF Snapshot
    <3>5. snapshot' = [snapshot EXCEPT ![a] = s]
      BY <2>8, <3>4 DEF Paint
    <3>6. QED
      BY <3>2, <3>3, <3>5
  <2>9. ASSUME NEW size \in Sizes, NEW look \in Looks, Connect(a, size, look)
        PROVE  /\ gdi' = [gdi EXCEPT ![a] = [size |-> size, look |-> look]]
               /\ [size |-> size, look |-> look] \in [size : Sizes \cup {0}, look : Looks]
               /\ snapshot' = [snapshot EXCEPT ![a] = NoSnapshot]
    BY <2>9 DEF Connect
  <2>10. CASE \E size \in Sizes : Resize(a, size)
    BY <2>1, <2>2, <2>7, <2>10
  <2>11. CASE \E look \in Looks : Paint(a, look)
    BY <2>8, <2>11
  <2>12. CASE \E size \in Sizes, look \in Looks : Connect(a, size, look)
    BY <2>3, <2>9, <2>12
  <2>13. QED
    BY <2>4, <2>5, <2>6, <2>10, <2>11, <2>12 DEF Driven, RunStep
<1>7. Typed'
  BY <1>2, <1>3, <1>4, <1>5, <1>6 DEF Typed, Runs
<1>8. InTurn'
  BY <1>2, <1>3, <1>4, CurrentIsAttempt DEF IInv, InTurn, AttemptsClosed, Current
<1>9. Starting'
  BY <1>2, <1>3, <1>4, CurrentIsAttempt DEF IInv, Starting
<1>10. Whole' /\ PictureHonest'
  BY <1>2, <1>3, <1>4, <1>6 DEF IInv, Typed, Whole, PictureHonest, ImageWhole, SnapshotCurrent
<1>11. QED
  BY <1>7, <1>8, <1>9, <1>10, TypesNamedNext DEF IInv

------------------------------------------------------------------------------
(* Status and Screenshot *)

Asking(t) ==
  \/ GetClient(t) \/ Wild(t) \/ Look(t)
  \/ \E dims \in Sizes, look \in Looks : Fill(t, dims, look)
  \/ ReadSize(t) \/ Copy(t) \/ Shot(t)

\* What a goroutine in Status or Screenshot may come to be.
Fine(x) ==
  /\ x.at \in Looking \cup {"idle", "wild"}
  /\ x.at = "wild" => client[Current] = "freed"
  /\ x.at \in {"fill", "fill2"} => x.read # 0
  /\ x.at = "image" /\ ~x.image.torn => x.image.dims = x.image.size /\ x.image.dims <= x.buf

LEMMA AnswerFine ==
  ASSUME NEW t \in Threads, NEW answer \in Answers, Answer(t, answer)
  PROVE  \E x \in ThreadType : thread' = [thread EXCEPT ![t] = x] /\ Fine(x)
<1>1. DEFINE x == IF t = Starter THEN [Idle EXCEPT !.answer = answer] ELSE Idle
<1>2. x \in ThreadType /\ x.at = "idle"
  BY AnswerTyped
<1>3. thread' = [thread EXCEPT ![t] = x]
  BY DEF Answer
<1>4. HIDE DEF x
<1>5. Fine(x)
  BY <1>2 DEF Fine
<1>6. QED
  BY <1>2, <1>3, <1>5

LEMMA AskingAt ==
  ASSUME NEW t \in Threads, Asking(t)
  PROVE  thread[t].at \in Looking
BY DEF Asking, GetClient, Wild, Look, Fill, ReadSize, Copy, Shot, Looking

LEMMA AskingMoves ==
  ASSUME IInv, NEW t \in Threads, Asking(t)
  PROVE  \E x \in ThreadType : thread' = [thread EXCEPT ![t] = x] /\ Fine(x)
<1>1. Typed /\ thread[t] \in ThreadType /\ Current \in 1..Attempts
  BY TypesNamed, CurrentIsAttempt DEF IInv, Typed
<1>2. Sizes \cup {0} \subseteq Nat
  BY SizeAssumption
<1>3. ASSUME NEW at \in Looking \cup {"wild"}, Goto(t, at), at \notin {"fill", "fill2", "image"},
             at = "wild" => client[Current] = "freed"
      PROVE  \E x \in ThreadType : thread' = [thread EXCEPT ![t] = x] /\ Fine(x)
  <2>1. DEFINE x == [thread[t] EXCEPT !.at = at]
  <2>2. x \in ThreadType /\ x.at = at
    BY <1>1 DEF ThreadType
  <2>3. thread' = [thread EXCEPT ![t] = x]
    BY <1>3 DEF Goto
  <2>4. HIDE DEF x
  <2>5. Fine(x)
    BY <1>3, <2>2 DEF Fine
  <2>6. QED
    BY <2>2, <2>3, <2>5
<1>4. CASE GetClient(t)
  BY <1>3, <1>4, AnswerFine DEF GetClient, Looking, Answers
<1>5. CASE Wild(t)
  <2>1. Goto(t, "wild") /\ client[Current] = "freed"
    BY <1>5 DEF Wild
  <2>2. QED
    BY <1>3, <2>1
<1>6. CASE Look(t)
  <2>1. CASE gdi[Current].size = 0
    BY <1>3, <1>6, <2>1 DEF Look, Looking
  <2>2. CASE gdi[Current].size # 0
    <3>1. PICK at \in {"fill", "fill2"} :
            thread' = [thread EXCEPT ![t] = [thread[t] EXCEPT !.at = at, !.read = gdi[Current].size]]
      BY <1>6, <2>2 DEF Look
    <3>2. gdi[Current].size \in Sizes \cup {0}
      BY <1>1 DEF Typed
    <3>3. DEFINE x == [thread[t] EXCEPT !.at = at, !.read = gdi[Current].size]
    <3>4. x \in ThreadType /\ x.at = at /\ x.read = gdi[Current].size
      BY <1>1, <3>2 DEF ThreadType, Looking
    <3>5. thread' = [thread EXCEPT ![t] = x]
      BY <3>1
    <3>6. HIDE DEF x
    <3>7. Fine(x)
      BY <2>2, <3>4 DEF Fine, Looking
    <3>8. QED
      BY <3>4, <3>5, <3>7
  <2>3. QED
    BY <2>1, <2>2
<1>7. CASE \E dims \in Sizes, look \in Looks : Fill(t, dims, look)
  <2>1. PICK at \in {"read", "copy"} :
          thread' = [thread EXCEPT ![t] = [thread[t] EXCEPT !.at = at, !.read = 0]]
    BY <1>7 DEF Fill
  <2>2. DEFINE x == [thread[t] EXCEPT !.at = at, !.read = 0]
  <2>3. x \in ThreadType /\ x.at = at
    BY <1>1 DEF ThreadType, Looking
  <2>4. thread' = [thread EXCEPT ![t] = x]
    BY <2>1
  <2>5. HIDE DEF x
  <2>6. Fine(x)
    BY <2>3 DEF Fine, Looking
  <2>7. QED
    BY <2>3, <2>4, <2>6
<1>8. CASE ReadSize(t)
  <2>1. CASE thread[t].op = "status" \/ snapshot[Current].size = 0
    <3>1. PICK answer \in Answers : Answer(t, answer)
      BY <1>8, <2>1 DEF ReadSize, Answers
    <3>2. QED
      BY <3>1, AnswerFine
  <2>2. CASE ~(thread[t].op = "status" \/ snapshot[Current].size = 0)
    <3>1. thread' = [thread EXCEPT ![t] = [thread[t] EXCEPT !.at = "look2", !.buf = snapshot[Current].size]]
      BY <1>8, <2>2 DEF ReadSize
    <3>2. snapshot[Current].size \in Sizes \cup {0}
      BY <1>1 DEF Typed, Images
    <3>3. DEFINE x == [thread[t] EXCEPT !.at = "look2", !.buf = snapshot[Current].size]
    <3>4. x \in ThreadType /\ x.at = "look2"
      BY <1>1, <3>2 DEF ThreadType, Looking
    <3>5. thread' = [thread EXCEPT ![t] = x]
      BY <3>1
    <3>6. HIDE DEF x
    <3>7. Fine(x)
      BY <3>4 DEF Fine, Looking
    <3>8. QED
      BY <3>4, <3>5, <3>7
  <2>3. QED
    BY <2>1, <2>2
<1>9. CASE Copy(t)
  <2>1. CASE snapshot[Current].size = 0 \/ thread[t].buf < snapshot[Current].size
    <3>1. Answer(t, "error") /\ "error" \in Answers
      BY <1>9, <2>1 DEF Copy, Answers
    <3>2. QED
      BY <3>1, AnswerFine
  <2>2. CASE ~(snapshot[Current].size = 0 \/ thread[t].buf < snapshot[Current].size)
    <3>1. PICK image \in Images : image = snapshot[Current]
      BY <1>1 DEF Typed
    <3>2. thread' = [thread EXCEPT ![t] = [thread[t] EXCEPT !.at = "image", !.image = image]]
      BY <1>9, <2>2, <3>1 DEF Copy
    <3>3. ~image.torn => image.dims = image.size
      BY <1>1, <3>1 DEF IInv, Whole
    <3>4. image.size <= thread[t].buf
      <4>1. image.size \in Nat /\ thread[t].buf \in Nat
        BY <1>1, <1>2 DEF ThreadType, Images
      <4>2. QED
        BY <2>2, <3>1, <4>1
    <3>5. DEFINE x == [thread[t] EXCEPT !.at = "image", !.image = image]
    <3>6. x \in ThreadType /\ x.at = "image" /\ x.image = image /\ x.buf = thread[t].buf
      BY <1>1 DEF ThreadType, Looking
    <3>7. thread' = [thread EXCEPT ![t] = x]
      BY <3>2
    <3>8. HIDE DEF x
    <3>9. Fine(x)
      BY <3>3, <3>4, <3>6 DEF Fine, Looking
    <3>10. QED
      BY <3>6, <3>7, <3>9
  <2>3. QED
    BY <2>1, <2>2
<1>10. CASE Shot(t)
  <2>1. PICK answer \in Answers : answer = thread[t].image.look
    BY <1>1 DEF ThreadType, Images, Looks, Answers
  <2>2. Answer(t, answer)
    BY <1>10, <2>1 DEF Shot
  <2>3. QED
    BY <2>2, AnswerFine
<1>11. QED
  BY <1>4, <1>5, <1>6, <1>7, <1>8, <1>9, <1>10 DEF Asking

\* Who is in Status or Screenshot: StartSession while it waits for a picture,
\* or one of those it has returned to.
LEMMA WhoAsks ==
  ASSUME IInv, Typed, NEW t \in Threads, thread[t].at \in Looking
  PROVE  IF t = Starter THEN start.at \in {"asked", "late"} /\ client[Current] = "live"
                        ELSE start.at = "returned" /\ t \in Callers
<1>1. start.at \in {"try", "poll", "asked", "late", "closing", "returned", "failed"}
  BY DEF Typed
<1>2. thread[t].at \notin Leaving \cup {"idle"}
  BY DEF Looking, Leaving
<1>3. CASE t = Starter
  BY <1>1, <1>2, <1>3 DEF IInv, Starting
<1>4. CASE t # Starter
  BY <1>1, <1>2, <1>4 DEF IInv, Starting, Threads
<1>5. QED
  BY <1>3, <1>4

LEMMA AskingStep ==
  ASSUME IInv, NEW t \in Threads, Asking(t)
  PROVE  IInv'
<1>1. UNCHANGED <<client, ptr, once, aborted, run, broke, failed, gdi, start>> /\ Current' = Current
  BY DEF Asking, GetClient, Wild, Look, Fill, ReadSize, Copy, Shot, lifeVars, runVars, frameVars,
         Current
<1>2. Typed /\ thread[t] \in ThreadType /\ Current \in 1..Attempts
  BY TypesNamed, CurrentIsAttempt DEF IInv, Typed
<1>3. PICK x \in ThreadType : thread' = [thread EXCEPT ![t] = x] /\ Fine(x)
  BY AskingMoves
<1>4. thread'[t] = x /\ \A u \in Threads : u # t => thread'[u] = thread[u]
  BY <1>2, <1>3 DEF Typed
<1>5. PICK s \in Images :
        /\ snapshot' = [snapshot EXCEPT ![Current] = s]
        /\ ~s.torn => s.dims = s.size
        /\ s.size > 0 /\ ~s.torn /\ run[Current] \notin {"resizing", "leaving"} => s.size = gdi[Current].size
  <2>1. CASE UNCHANGED snapshot
    <3>1. snapshot[Current] \in Images /\ snapshot' = [snapshot EXCEPT ![Current] = snapshot[Current]]
      BY <1>2, <2>1 DEF Typed
    <3>2. QED
      BY <1>2, <3>1 DEF IInv, Whole, PictureHonest, SnapshotCurrent
  <2>2. ASSUME NEW dims \in Sizes, NEW look \in Looks, Fill(t, dims, look)
        PROVE  \E s \in Images :
                 /\ snapshot' = [snapshot EXCEPT ![Current] = s]
                 /\ ~s.torn => s.dims = s.size /\ s.size = gdi[Current].size
    <3>1. DEFINE torn == thread[t].read # gdi[Current].size
                 s == [size |-> thread[t].read, dims |-> dims, look |-> look, torn |-> torn]
    <3>2. torn \in BOOLEAN /\ thread[t].read \in Sizes \cup {0}
      BY <1>2 DEF ThreadType
    <3>3. snapshot' = [snapshot EXCEPT ![Current] = s]
      BY <2>2 DEF Fill
    <3>4. thread[t].read # 0
      BY <2>2 DEF IInv, Whole, Fill
    <3>5. ~torn => thread[t].read = gdi[Current].size /\ dims = gdi[Current].size
      BY <2>2, <3>4 DEF Fill
    <3>6. HIDE DEF torn
    <3>7. s \in Images /\ s.torn = torn /\ s.size = thread[t].read /\ s.dims = dims
      BY <3>2 DEF Images
    <3>8. QED
      BY <3>3, <3>5, <3>7
  <2>3. CASE \E dims \in Sizes, look \in Looks : Fill(t, dims, look)
    BY <2>2, <2>3
  <2>4. QED
    BY <2>1, <2>3 DEF Asking, GetClient, Wild, Look, ReadSize, Copy, Shot, frameVars
<1>6. Typed'
  BY <1>1, <1>2, <1>3, <1>5 DEF Typed
<1>7. InTurn'
  BY <1>1 DEF IInv, InTurn, AttemptsClosed
<1>8. x.at \in Looking \cup {"idle", "wild"} /\ x.at # "free"
  BY <1>3 DEF Fine, Looking
<1>9. IF t = Starter THEN start.at \in {"asked", "late"} /\ client[Current] = "live"
                     ELSE start.at = "returned" /\ t \in Callers
  BY <1>2, AskingAt, WhoAsks
<1>10. t = Starter => x.at \in Looking \cup {"idle"}
  BY <1>3, <1>8, <1>9 DEF Fine
<1>11. Starting'
  <2>1. CASE t = Starter
    <3>1. thread'[Starter].at \in Looking \cup {"idle"} /\ start.at \in {"asked", "late"}
      BY <1>4, <1>9, <1>10, <2>1
    <3>2. \A u \in Callers : thread'[u] = thread[u]
      BY <1>4, <2>1, StarterAssumption DEF Threads
    <3>3. \A u \in Threads : thread'[u].at = "free" => run'[Current] = "ended"
      BY <1>1, <1>4, <1>8 DEF IInv, Starting
    <3>4. QED
      BY <1>1, <3>1, <3>2, <3>3 DEF IInv, Starting
  <2>2. CASE t # Starter
    BY <1>1, <1>4, <1>8, <1>9, <2>2 DEF IInv, Starting, Threads
  <2>3. QED
    BY <2>1, <2>2
<1>12. Whole'
  BY <1>2, <1>3, <1>4, <1>5 DEF IInv, Whole, Fine, Typed
<1>13. ImageWhole'
  BY <1>3, <1>4 DEF IInv, PictureHonest, ImageWhole, Fine
<1>14. SnapshotCurrent'
  BY <1>1, <1>2, <1>5 DEF IInv, PictureHonest, SnapshotCurrent, Typed
<1>15. QED
  BY <1>6, <1>7, <1>11, <1>12, <1>13, <1>14, TypesNamedNext DEF IInv, PictureHonest

------------------------------------------------------------------------------
(* Close *)

Closing(t) == Enter(t) \/ Abort(t) \/ Clear(t) \/ Free(t) \/ Leave(t)

LEMMA WhoCloses ==
  ASSUME IInv, Typed, NEW t \in Threads, thread[t].at \in Leaving
  PROVE  IF t = Starter THEN start.at = "closing" ELSE start.at = "returned" /\ t \in Callers
<1>1. start.at \in {"try", "poll", "asked", "late", "closing", "returned", "failed"}
  BY DEF Typed
<1>2. thread[t].at \notin Looking \cup {"idle"}
  BY DEF Looking, Leaving
<1>3. QED
  BY <1>1, <1>2 DEF IInv, Starting, Threads

LEMMA ClosingStep ==
  ASSUME IInv, NEW t \in Threads, Closing(t)
  PROVE  IInv'
<1>1. UNCHANGED <<run, broke, failed, gdi, start>> /\ Current' = Current
  BY DEF Closing, Enter, Abort, Clear, Free, Leave, runVars, frameVars, Current
<1>2. Typed /\ thread[t] \in ThreadType /\ Current \in 1..Attempts
  BY TypesNamed, CurrentIsAttempt DEF IInv, Typed
<1>3. thread[t].at \in Leaving
  BY DEF Closing, Enter, Abort, Clear, Free, Leave, Leaving
<1>4. PICK x \in ThreadType :
        /\ thread' = [thread EXCEPT ![t] = x]
        /\ x.at \in Leaving \cup {"idle", "gone"}
        /\ x.at = "gone" => t # Starter
        /\ x.at = "free" => run[Current] = "ended"
        /\ t = Starter /\ x.at \in {"leave", "idle"} => once'[Current] = "spent"
  <2>1. ASSUME NEW at \in Leaving \cup {"gone"}, Goto(t, at)
        PROVE  \E x \in ThreadType : thread' = [thread EXCEPT ![t] = x] /\ x.at = at
    <3>1. [thread[t] EXCEPT !.at = at] \in ThreadType /\ [thread[t] EXCEPT !.at = at].at = at
      BY <1>2 DEF ThreadType
    <3>2. QED
      BY <2>1, <3>1 DEF Goto
  <2>2. /\ {"abort", "leave", "wait", "free"} \subseteq Leaving
        /\ "gone" \notin Leaving
    BY DEF Leaving
  <2>3. CASE Enter(t)
    <3>1. PICK at \in {"abort", "leave"} : Goto(t, at) /\ (at = "leave" => once[Current] # "fresh")
      BY <2>3 DEF Enter
    <3>2. at = "leave" => once'[Current] = "spent"
      BY <1>2, <2>3, <3>1 DEF Typed, Enter
    <3>3. QED
      BY <2>1, <2>2, <3>1, <3>2
  <2>4. CASE Abort(t)
    <3>1. Goto(t, "wait")
      BY <2>4 DEF Abort
    <3>2. QED
      BY <2>1, <2>2, <3>1
  <2>5. CASE Clear(t)
    <3>1. Goto(t, "free") /\ run[Current] = "ended"
      BY <2>5 DEF Clear
    <3>2. QED
      BY <2>1, <2>2, <3>1
  <2>6. CASE Free(t)
    <3>1. Goto(t, "leave") /\ once'[Current] = "spent"
      BY <1>2, <2>6 DEF Typed, Free
    <3>2. QED
      BY <2>1, <2>2, <3>1
  <2>7. CASE Leave(t)
    <3>1. CASE t = Starter
      <4>1. PICK x \in ThreadType : thread' = [thread EXCEPT ![t] = x] /\ x.at = "idle"
        BY <2>7, <3>1, AnswerTyped DEF Leave, Answer, Answers
      <4>2. once'[Current] = "spent"
        <5>1. start.at = "closing"
          BY <1>2, <1>3, <3>1, WhoCloses
        <5>2. thread[Starter].at = "leave" /\ UNCHANGED once
          BY <2>7, <3>1 DEF Leave, lifeVars
        <5>3. once[Current] = "spent"
          BY <5>1, <5>2 DEF IInv, Starting
        <5>4. QED
          BY <5>2, <5>3
      <4>3. QED
        BY <2>2, <4>1, <4>2
    <3>2. CASE t # Starter
      <4>1. Goto(t, "gone")
        BY <2>7, <3>2 DEF Leave
      <4>2. QED
        BY <2>1, <2>2, <3>2, <4>1
    <3>3. QED
      BY <3>1, <3>2
  <2>8. QED
    BY <2>3, <2>4, <2>5, <2>6, <2>7 DEF Closing
<1>5. thread'[t] = x /\ \A u \in Threads : u # t => thread'[u] = thread[u]
  BY <1>2, <1>4 DEF Typed
<1>6. /\ once' \in [1..Attempts -> {"fresh", "busy", "spent"}]
      /\ \A a \in 1..Attempts : a # Current => once'[a] = once[a]
      /\ once[Current] = "spent" => once'[Current] = "spent"
      /\ once'[Current] = "spent" => once[Current] = "spent" \/ Free(t)
  BY <1>2 DEF Typed, Closing, Enter, Abort, Clear, Free, Leave, lifeVars
<1>7. /\ client' \in [1..Attempts -> {"none", "live", "freed"}]
      /\ ptr' \in [1..Attempts -> BOOLEAN]
      /\ aborted' \in [1..Attempts -> BOOLEAN]
      /\ \A a \in 1..Attempts : a # Current => client'[a] = client[a] /\ ptr'[a] = ptr[a]
      /\ ptr'[Current] => ptr[Current]
  BY <1>2 DEF Typed, Closing, Enter, Abort, Clear, Free, Leave, lifeVars
<1>8. /\ Free(t) => client'[Current] = "freed" /\ ~ptr'[Current] /\ run[Current] = "ended"
      /\ ~Free(t) => client' = client
  BY <1>2 DEF Typed, IInv, Starting, Closing, Enter, Abort, Clear, Free, Leave, lifeVars
<1>9. UNCHANGED snapshot \/ snapshot' = [snapshot EXCEPT ![Current] = NoSnapshot]
  BY DEF Closing, Enter, Abort, Clear, Free, Leave, frameVars
<1>10. Typed'
  BY <1>1, <1>2, <1>4, <1>6, <1>7, <1>9, IdleTyped DEF Typed
<1>11. IF t = Starter THEN start.at = "closing" ELSE start.at = "returned" /\ t \in Callers
  BY <1>2, <1>3, WhoCloses
<1>12. InTurn'
  <2>1. start.at # "try"
    BY <1>11
  <2>2. ASSUME NEW a \in 1..Attempts, a # Current
        PROVE  client'[a] = client[a] /\ ptr'[a] = ptr[a] /\ once'[a] = once[a]
    BY <1>6, <1>7, <2>2
  <2>3. Current \in Nat /\ \A a \in 1..Attempts : a > Current \/ a < Current => a # Current
    BY <1>2
  <2>4. ASSUME NEW a \in 1..Attempts, a > Current
        PROVE  run[a] = "none" /\ client'[a] = "none" /\ once'[a] = "fresh"
    BY <2>2, <2>3, <2>4 DEF IInv, InTurn
  <2>5. ASSUME NEW a \in 1..Attempts, a < Current
        PROVE  run[a] \in {"none", "ended"} /\ client'[a] # "live"
    BY <2>2, <2>3, <2>5 DEF IInv, InTurn, AttemptsClosed, Current
  <2>6. ASSUME NEW a \in 1..Attempts
        PROVE  /\ client'[a] = "freed" => run[a] = "ended" /\ ~ptr'[a]
               /\ once'[a] = "spent" => client'[a] = "freed"
    <3>1. CASE a # Current
      BY <2>2, <3>1 DEF IInv, InTurn
    <3>2. CASE a = Current /\ Free(t)
      BY <1>8, <3>2
    <3>3. CASE a = Current /\ ~Free(t)
      <4>1. /\ client[Current] = "freed" => run[Current] = "ended" /\ ~ptr[Current]
            /\ once[Current] = "spent" => client[Current] = "freed"
        BY <1>2 DEF IInv, InTurn
      <4>2. QED
        BY <1>6, <1>7, <1>8, <3>3, <4>1
    <3>4. QED
      BY <3>1, <3>2, <3>3
  <2>7. QED
    BY <1>1, <2>1, <2>4, <2>5, <2>6 DEF InTurn, AttemptsClosed, Current
<1>13. Starting'
  <2>1. CASE t = Starter
    BY <1>1, <1>4, <1>5, <1>11, <2>1, StarterAssumption DEF IInv, Starting
  <2>2. CASE t # Starter
    BY <1>1, <1>4, <1>5, <1>11, <2>2 DEF IInv, Starting, Threads
  <2>3. QED
    BY <2>1, <2>2
<1>14. x.at \notin {"fill", "fill2", "image"}
  BY <1>4 DEF Leaving
<1>15. \A a \in 1..Attempts :
         \/ snapshot'[a] = snapshot[a]
         \/ snapshot'[a].size = 0 /\ snapshot'[a].dims = 0
  <2>1. NoSnapshot.size = 0 /\ NoSnapshot.dims = 0
    BY DEF NoSnapshot
  <2>2. QED
    BY <1>2, <1>9, <2>1 DEF Typed
<1>16. Whole'
  <2>1. \A a \in 1..Attempts : ~snapshot'[a].torn => snapshot'[a].dims = snapshot'[a].size
    BY <1>15 DEF IInv, Whole
  <2>2. \A u \in Threads : thread'[u].at \in {"fill", "fill2"} => thread'[u].read # 0
    BY <1>5, <1>14 DEF IInv, Whole
  <2>3. QED
    BY <2>1, <2>2 DEF Whole
<1>17. PictureHonest'
  <2>1. ImageWhole'
    BY <1>5, <1>14 DEF IInv, PictureHonest, ImageWhole
  <2>2. SnapshotCurrent'
    BY <1>1, <1>15 DEF IInv, PictureHonest, SnapshotCurrent
  <2>3. QED
    BY <2>1, <2>2 DEF PictureHonest
<1>18. QED
  BY <1>10, <1>12, <1>13, <1>16, <1>17, TypesNamedNext DEF IInv

------------------------------------------------------------------------------
(* StartSession, and the goroutines that use what it has returned *)

StartType ==
  [at : {"try", "poll", "asked", "late", "closing", "returned", "failed"},
   attempt : 1..Attempts, blanks : 0..BlankLimit]

\* A goroutine is given a call, or none, and nothing is done to a session.
LEMMA GivenCall ==
  ASSUME IInv, NEW t \in Threads, NEW x \in ThreadType,
         x.at \in {"idle", "get", "enter"},
         thread' = [thread EXCEPT ![t] = x],
         UNCHANGED <<lifeVars, runVars, frameVars>>,
         start' \in StartType, start'.attempt = start.attempt,
         start.at # "try", start'.at # "try",
         Starting'
  PROVE  IInv'
<1>1. UNCHANGED <<client, ptr, once, aborted, run, broke, failed, gdi, snapshot>>
      /\ Current' = Current
  BY DEF lifeVars, runVars, frameVars, Current
<1>2. Typed
  BY TypesNamed DEF IInv
<1>3. thread'[t] = x /\ \A u \in Threads : u # t => thread'[u] = thread[u]
  BY <1>2 DEF Typed
<1>4. Typed'
  BY <1>1, <1>2 DEF Typed, StartType
<1>5. InTurn'
  BY <1>1 DEF IInv, InTurn, AttemptsClosed
<1>6. Whole'
  BY <1>1, <1>3 DEF IInv, Whole
<1>7. PictureHonest'
  BY <1>1, <1>3 DEF IInv, PictureHonest, ImageWhole, SnapshotCurrent
<1>8. QED
  BY <1>4, <1>5, <1>6, <1>7, TypesNamedNext DEF IInv

LEMMA BeginStep ==
  ASSUME IInv, NEW t \in Callers, NEW op \in {"status", "shot", "close"}, Begin(t, op)
  PROVE  IInv'
<1>1. PICK x \in ThreadType : x.at \in {"get", "enter"} /\ thread' = [thread EXCEPT ![t] = x]
  BY CallTyped DEF Begin
<1>2. Typed /\ start \in StartType
  BY TypesNamed DEF IInv, Typed, StartType
<1>3. t \in Threads /\ t # Starter /\ start.at = "returned" /\ UNCHANGED start
  BY StarterAssumption DEF Threads, Begin
<1>4. thread'[t] = x /\ \A u \in Threads : u # t => thread'[u] = thread[u]
  BY <1>1, <1>2, <1>3 DEF Typed
<1>5. Starting'
  <2>1. thread'[Starter] = thread[Starter] /\ UNCHANGED <<start, run>>
    BY <1>3, <1>4 DEF Threads, Begin, runVars
  <2>2. QED
    BY <1>1, <1>3, <1>4, <2>1 DEF IInv, Starting, Current
<1>6. QED
  BY <1>1, <1>2, <1>3, <1>5, GivenCall DEF Begin

\* While StartSession has a session it turns to the next tick, to a call, to
\* closing it or to returning it.
LEMMA StartTurns ==
  ASSUME IInv, start.at \in {"poll", "asked", "late"},
         NEW x \in ThreadType, thread' = [thread EXCEPT ![Starter] = x],
         start' \in StartType, start'.attempt = start.attempt,
         UNCHANGED <<lifeVars, runVars, frameVars>>,
         \/ start'.at = "poll" /\ x.at = "idle" /\ start'.blanks < BlankLimit
         \/ start'.at \in {"asked", "late"} /\ x.at = "get" /\ start'.blanks = start.blanks
         \/ start'.at = "closing" /\ x.at = "enter"
         \/ start'.at = "returned" /\ x.at = "idle"
  PROVE  IInv'
<1>1. Typed /\ Starter \in Threads /\ Callers \subseteq Threads
  BY TypesNamed DEF IInv, Threads
<1>2. thread'[Starter] = x /\ \A u \in Threads : u # Starter => thread'[u] = thread[u]
  BY <1>1 DEF Typed
<1>3. UNCHANGED <<client, once, run>> /\ Current' = Current
  BY DEF lifeVars, runVars, Current
<1>4. \A u \in Callers : thread'[u].at = "idle"
  BY <1>1, <1>2, StarterAssumption DEF IInv, Starting
<1>5. \A u \in Threads : thread'[u].at # "free"
  BY <1>2, <1>4 DEF Threads
<1>6. client[Current] = "live" /\ once[Current] = "fresh" /\ start.blanks < BlankLimit
      /\ Current < Attempts
  BY DEF IInv, Starting
<1>7. "get" \in Looking /\ "enter" \in Leaving
  BY DEF Looking, Leaving
<1>8. Starting'
  BY <1>2, <1>3, <1>4, <1>5, <1>6, <1>7 DEF Starting
<1>9. QED
  BY <1>1, <1>8, GivenCall

LEMMA WaitingStep ==
  ASSUME IInv,
         SelectDone \/ SelectDeadline \/ SelectTick \/ NotYet \/ Ready \/ Blank \/ Usable \/ TooLate
  PROVE  IInv'
<1>1. Typed /\ start \in StartType
  BY TypesNamed DEF IInv, Typed, StartType
<1>2. /\ start.at \in {"poll", "asked", "late"}
      /\ UNCHANGED <<lifeVars, runVars, frameVars>>
  BY DEF SelectDone, SelectDeadline, SelectTick, NotYet, Ready, Blank, Usable, TooLate
<1>3. start.blanks < BlankLimit /\ start.blanks \in 0..BlankLimit
  BY <1>1, <1>2 DEF IInv, Starting, StartType
<1>4. Idle \in ThreadType /\ Idle.at = "idle"
  BY IdleTyped DEF Idle
<1>5. ASSUME NEW op \in {"status", "shot", "close"}, NEW at \in {"asked", "late", "closing"},
             Ask(op, at), (op = "close") <=> (at = "closing")
      PROVE  IInv'
  <2>1. PICK x \in ThreadType : x = Call(op)
    BY CallTyped
  <2>2. thread' = [thread EXCEPT ![Starter] = x]
    BY <1>5, <2>1 DEF Ask
  <2>3. (op = "close" => x.at = "enter") /\ (op # "close" => x.at = "get")
    BY <2>1, CallTyped
  <2>4. /\ start' \in StartType /\ start'.attempt = start.attempt
        /\ start'.at = at /\ start'.blanks = start.blanks
    BY <1>1, <1>5 DEF Ask, StartType
  <2>5. CASE op = "close"
    <3>1. start'.at = "closing" /\ x.at = "enter"
      BY <1>5, <2>3, <2>4, <2>5
    <3>2. QED
      BY <1>2, <2>2, <2>4, <3>1, StartTurns
  <2>6. CASE op # "close"
    <3>1. start'.at \in {"asked", "late"} /\ x.at = "get"
      BY <1>5, <2>3, <2>4, <2>6
    <3>2. QED
      BY <1>2, <2>2, <2>4, <3>1, StartTurns
  <2>7. QED
    BY <2>5, <2>6
<1>6. CASE SelectDone \/ SelectDeadline \/ SelectTick \/ Ready \/ TooLate
  BY <1>5, <1>6 DEF SelectDone, SelectDeadline, SelectTick, Ready, TooLate
<1>7. CASE NotYet \/ Usable
  <2>1. /\ thread' = [thread EXCEPT ![Starter] = Idle]
        /\ start' \in StartType /\ start'.attempt = start.attempt
        /\ start'.at \in {"poll", "returned"} /\ start'.blanks = start.blanks
    BY <1>1, <1>7 DEF NotYet, Usable, StartType
  <2>2. QED
    BY <1>2, <1>3, <1>4, <2>1, StartTurns
<1>8. CASE Blank
  <2>1. start.blanks + 1 \in 0..BlankLimit
    BY <1>3, AttemptAssumption
  <2>2. start' \in StartType /\ start'.attempt = start.attempt /\ start'.blanks = start.blanks + 1
    BY <1>1, <1>8, <2>1 DEF Blank, StartType
  <2>3. CASE start.blanks + 1 >= BlankLimit
    <3>1. PICK x \in ThreadType : x.at = "enter" /\ thread' = [thread EXCEPT ![Starter] = x]
      BY <1>8, <2>3, CallTyped DEF Blank
    <3>2. start'.at = "closing"
      BY <1>1, <1>8, <2>3 DEF Blank, StartType
    <3>3. QED
      BY <1>2, <2>2, <3>1, <3>2, StartTurns
  <2>4. CASE ~(start.blanks + 1 >= BlankLimit)
    <3>1. thread' = [thread EXCEPT ![Starter] = Idle]
      BY <1>8, <2>4 DEF Blank
    <3>2. start'.at = "poll" /\ start'.blanks < BlankLimit
      BY <1>1, <1>3, <1>8, <2>2, <2>4, AttemptAssumption DEF Blank, StartType
    <3>3. QED
      BY <1>2, <1>4, <2>2, <3>1, <3>2, StartTurns
  <2>5. QED
    BY <2>3, <2>4
<1>9. QED
  BY <1>6, <1>7, <1>8

\* The next mode is taken up when the session of this one is over.
LEMMA GoesOn ==
  ASSUME IInv, start.at \in {"try", "closing"}, Current < Attempts,
         start.at = "closing" => once[Current] = "spent",
         thread[Starter].at = "idle",
         NEW x \in ThreadType, x.at = "idle",
         thread' = [thread EXCEPT ![Starter] = x] \/ UNCHANGED thread,
         start' \in StartType, start'.attempt = start.attempt + 1, start'.at = "try",
         failed' \in [1..Attempts -> BOOLEAN], aborted' \in [1..Attempts -> BOOLEAN],
         UNCHANGED <<client, ptr, once, run, broke, frameVars>>
  PROVE  IInv'
<1>1. Typed /\ Current \in 1..Attempts /\ Current' = Current + 1 /\ UNCHANGED <<gdi, snapshot>>
      /\ Starter \in Threads /\ Callers \subseteq Threads
  BY TypesNamed, CurrentIsAttempt DEF IInv, Current, frameVars, Threads
<1>2. thread' \in [Threads -> ThreadType]
      /\ \A u \in Threads : thread'[u] = thread[u] \/ thread'[u].at = "idle"
  BY <1>1 DEF Typed
<1>3. Typed'
  BY <1>1, <1>2 DEF Typed, StartType
<1>4. run[Current] \in {"none", "ended"} /\ client[Current] # "live"
  BY <1>1 DEF IInv, InTurn
<1>5. InTurn'
  <2>1. ASSUME NEW a \in 1..Attempts, a > Current + 1 \/ a = Current + 1
        PROVE  run[a] = "none" /\ client[a] = "none" /\ once[a] = "fresh"
    <3>1. a > Current
      BY <1>1, <2>1
    <3>2. QED
      BY <3>1 DEF IInv, InTurn
  <2>2. ASSUME NEW a \in 1..Attempts, a < Current + 1
        PROVE  run[a] \in {"none", "ended"} /\ client[a] # "live"
    <3>1. a < Current \/ a = Current
      BY <1>1, <2>2
    <3>2. QED
      BY <1>4, <3>1 DEF IInv, InTurn, AttemptsClosed, Current
  <2>3. \A a \in 1..Attempts :
          /\ client[a] = "freed" => run[a] = "ended" /\ ~ptr[a]
          /\ once[a] = "spent" => client[a] = "freed"
    BY DEF IInv, InTurn
  <2>4. QED
    BY <1>1, <2>1, <2>2, <2>3 DEF InTurn, AttemptsClosed, Current
<1>6. Starting'
  <2>1. \A u \in Threads : thread'[u].at = "idle"
    BY <1>1, <1>2 DEF IInv, Starting, Threads
  <2>2. QED
    BY <1>1, <2>1 DEF Starting
<1>7. Whole'
  BY <1>1, <1>2 DEF IInv, Whole
<1>8. PictureHonest'
  BY <1>1, <1>2 DEF IInv, PictureHonest, ImageWhole, SnapshotCurrent
<1>9. QED
  BY <1>3, <1>5, <1>6, <1>7, <1>8, TypesNamedNext DEF IInv

LEMMA TryStep ==
  ASSUME IInv, Try
  PROVE  IInv'
<1>1. /\ Typed /\ Current \in 1..Attempts /\ Current' = Current
      /\ UNCHANGED <<once, aborted, broke, failed, gdi, snapshot, thread>>
  BY TypesNamed, CurrentIsAttempt DEF IInv, Try, Current, frameVars, Typed
<1>2. /\ start.at = "try" /\ start' \in StartType
      /\ start'.at \in {"poll", "returned"} /\ (start'.at = "poll" => ~Last)
      /\ start'.blanks = 0
  <2>1. PICK at \in {"poll", "returned"} :
          start' = [start EXCEPT !.at = at, !.blanks = 0] /\ (at = "poll" => ~Last)
    BY DEF Try
  <2>2. start \in StartType /\ 0 \in 0..BlankLimit
    BY <1>1, AttemptAssumption DEF Typed, StartType
  <2>3. QED
    BY <2>1, <2>2 DEF Try, StartType
<1>3. /\ client' \in [1..Attempts -> {"none", "live", "freed"}]
      /\ ptr' \in [1..Attempts -> BOOLEAN]
      /\ run' \in [1..Attempts -> Runs \cup {"none"}]
      /\ client'[Current] = "live" /\ run'[Current] = "new"
      /\ \A a \in 1..Attempts : a # Current =>
            client'[a] = client[a] /\ ptr'[a] = ptr[a] /\ run'[a] = run[a]
  BY <1>1 DEF Try, Typed, Runs
<1>4. Typed'
  BY <1>1, <1>2, <1>3 DEF Typed, StartType, Runs
<1>5. run[Current] = "none" /\ once[Current] = "fresh"
  BY <1>1, <1>2 DEF IInv, InTurn
<1>6. InTurn'
  <2>1. start'.at # "try"
    BY <1>2
  <2>2. ASSUME NEW a \in 1..Attempts, a > Current
        PROVE  run'[a] = "none" /\ client'[a] = "none" /\ once'[a] = "fresh"
    <3>1. a # Current
      BY <1>1, <2>2
    <3>2. QED
      BY <1>1, <1>3, <2>2, <3>1 DEF IInv, InTurn
  <2>3. ASSUME NEW a \in 1..Attempts, a < Current
        PROVE  run'[a] \in {"none", "ended"} /\ client'[a] # "live"
    <3>1. a # Current
      BY <1>1, <2>3
    <3>2. QED
      BY <1>1, <1>3, <2>3, <3>1 DEF IInv, InTurn, AttemptsClosed, Current
  <2>4. ASSUME NEW a \in 1..Attempts
        PROVE  /\ client'[a] = "freed" => run'[a] = "ended" /\ ~ptr'[a]
               /\ once'[a] = "spent" => client'[a] = "freed"
    <3>1. CASE a = Current
      BY <1>1, <1>3, <1>5, <3>1
    <3>2. CASE a # Current
      BY <1>1, <1>3, <3>2 DEF IInv, InTurn
    <3>3. QED
      BY <3>1, <3>2
  <2>5. QED
    BY <1>1, <2>1, <2>2, <2>3, <2>4 DEF InTurn, AttemptsClosed, Current
<1>7. Starting'
  <2>1. \A u \in Threads : thread[u].at = "idle"
    BY <1>2 DEF IInv, Starting, Threads
  <2>2. start'.at = "poll" => Current < Attempts
    BY <1>1, <1>2, AttemptAssumption DEF Last, Current
  <2>3. start'.at \in {"poll", "returned"} /\ start'.blanks < BlankLimit
    BY <1>2, AttemptAssumption
  <2>4. QED
    BY <1>1, <1>3, <1>5, <2>1, <2>2, <2>3 DEF Starting, Threads
<1>8. Whole'
  BY <1>1 DEF IInv, Whole
<1>9. PictureHonest'
  <2>1. ImageWhole'
    BY <1>1 DEF IInv, PictureHonest, ImageWhole
  <2>2. \A a \in 1..Attempts :
          run'[a] \notin {"resizing", "leaving"} => run[a] \notin {"resizing", "leaving"}
    BY <1>1, <1>3, <1>5
  <2>3. SnapshotCurrent'
    BY <1>1, <2>2 DEF IInv, PictureHonest, SnapshotCurrent
  <2>4. QED
    BY <2>1, <2>3 DEF PictureHonest
<1>10. QED
  BY <1>4, <1>6, <1>7, <1>8, <1>9, TypesNamedNext DEF IInv

LEMMA TryFailsStep ==
  ASSUME IInv, TryFails
  PROVE  IInv'
<1>1. /\ Typed /\ start \in StartType /\ Current \in 1..Attempts /\ start.at = "try"
      /\ UNCHANGED <<client, ptr, once, run, broke, failed, aborted, frameVars, thread>>
  BY TypesNamed, CurrentIsAttempt DEF IInv, Typed, StartType, TryFails, lifeVars, runVars
<1>2. CASE Last
  <2>1. start' \in StartType /\ start'.at = "failed" /\ start'.attempt = start.attempt
    BY <1>1, <1>2 DEF TryFails, StartType
  <2>2. Current' = Current /\ UNCHANGED <<gdi, snapshot>>
    BY <1>1, <2>1 DEF Current, frameVars
  <2>3. Typed'
    BY <1>1, <2>1, <2>2 DEF Typed, StartType
  <2>4. InTurn'
    BY <1>1, <2>1, <2>2 DEF IInv, InTurn, AttemptsClosed
  <2>5. Starting'
    BY <1>1, <2>1, <2>2 DEF IInv, Starting
  <2>6. Whole' /\ PictureHonest'
    BY <1>1, <2>2 DEF IInv, Whole, PictureHonest, ImageWhole, SnapshotCurrent
  <2>7. QED
    BY <2>3, <2>4, <2>5, <2>6, TypesNamedNext DEF IInv
<1>3. CASE ~Last
  <2>1. Current < Attempts
    BY <1>1, <1>3, AttemptAssumption DEF Last, Current
  <2>2. start.attempt + 1 \in 1..Attempts
    BY <1>1, <2>1, AttemptAssumption DEF Current
  <2>3. start' \in StartType /\ start'.at = "try" /\ start'.attempt = start.attempt + 1
    BY <1>1, <1>3, <2>2 DEF TryFails, StartType
  <2>4. thread[Starter].at = "idle"
    BY <1>1 DEF IInv, Starting
  <2>5. failed' \in [1..Attempts -> BOOLEAN] /\ aborted' \in [1..Attempts -> BOOLEAN]
    BY <1>1 DEF Typed
  <2>6. Idle \in ThreadType /\ Idle.at = "idle"
    BY IdleTyped DEF Idle
  <2>7. QED
    BY <1>1, <2>1, <2>3, <2>4, <2>5, <2>6, GoesOn
<1>4. QED
  BY <1>2, <1>3

LEMMA NextModeStep ==
  ASSUME IInv, NextMode
  PROVE  IInv'
<1>1. /\ Typed /\ start \in StartType /\ Current \in 1..Attempts /\ start.at = "closing"
      /\ thread' = [thread EXCEPT ![Starter] = Idle]
      /\ UNCHANGED <<client, ptr, once, run, broke, frameVars>>
      /\ thread[Starter].at = "idle"
  BY TypesNamed, CurrentIsAttempt DEF IInv, Typed, StartType, NextMode, Answered
<1>2. Current < Attempts /\ once[Current] = "spent"
  BY <1>1 DEF IInv, Starting
<1>3. start.attempt + 1 \in 1..Attempts /\ 0 \in 0..BlankLimit
  BY <1>1, <1>2, AttemptAssumption DEF Current
<1>4. start' \in StartType /\ start'.at = "try" /\ start'.attempt = start.attempt + 1
  BY <1>1, <1>3 DEF NextMode, StartType
<1>5. failed' \in [1..Attempts -> BOOLEAN] /\ aborted' \in [1..Attempts -> BOOLEAN]
  BY <1>1 DEF Typed, NextMode
<1>6. Idle \in ThreadType /\ Idle.at = "idle"
  BY IdleTyped DEF Idle
<1>7. QED
  BY <1>1, <1>2, <1>4, <1>5, <1>6, GoesOn

------------------------------------------------------------------------------
(* The theorems *)

LEMMA StutterInv == IInv /\ UNCHANGED vars => IInv'
<1>1. SUFFICES ASSUME IInv, UNCHANGED vars PROVE IInv'
  OBVIOUS
<1>2. UNCHANGED <<client, ptr, once, run, broke, failed, aborted, gdi, snapshot, start, thread>>
      /\ Current' = Current
  BY <1>1 DEF vars, lifeVars, runVars, frameVars, Current
<1>3. Typed'
  BY <1>1, <1>2, TypesNamed DEF IInv, Typed
<1>4. InTurn' /\ Starting' /\ Whole' /\ PictureHonest'
  BY <1>1, <1>2 DEF IInv, InTurn, Starting, Whole, PictureHonest, AttemptsClosed, ImageWhole,
                    SnapshotCurrent
<1>5. QED
  BY <1>3, <1>4, TypesNamedNext DEF IInv

LEMMA NextInv == IInv /\ [Next]_vars => IInv'
<1>1. SUFFICES ASSUME IInv, Next PROVE IInv'
  BY StutterInv
<1>2. CASE StartStep \/ SelectDeadline
  BY <1>1, <1>2, TryFailsStep, TryStep, NextModeStep, WaitingStep DEF StartStep
<1>3. CASE \E t \in Threads : InCall(t)
  BY <1>1, <1>3, AskingStep, ClosingStep DEF InCall, Asking, Closing
<1>4. CASE \E t \in Callers, op \in {"status", "shot", "close"} : Begin(t, op)
  BY <1>1, <1>4, BeginStep
<1>5. CASE \E a \in 1..Attempts : Driven(a)
  BY <1>1, <1>5, DrivenStep
<1>6. QED
  BY <1>1, <1>2, <1>3, <1>4, <1>5 DEF Next, Driven

\* Inductive: the modes come in their turn, StartSession holds the session it
\* waits for, and every copy of the desktop is of one size or torn, whatever
\* FreeRDP, the server and the callers do.
THEOREM Inductive == Spec => []IInv
<1>1. QED
  BY InitInv, NextInv, PTL DEF Spec

\* SessionTyped: every variable keeps its type.
THEOREM SessionTyped == Spec => []TypeOK
<1>1. IInv => TypeOK
  BY DEF IInv
<1>2. QED
  BY <1>1, Inductive, PTL

\* ClientsAreHandedBack: StartSession leaves no connection and no client
\* behind, a client is freed only after run has ended and its pointer is
\* cleared with it, and StartSession never uses a freed client, for any
\* number of modes and of goroutines that call the session.
THEOREM ClientsAreHandedBack == Spec => []ClientsHandedBack
<1>1. IInv => ClientsHandedBack
  <2>1. SUFFICES ASSUME IInv PROVE ClientsHandedBack
    OBVIOUS
  <2>2. Typed /\ Starter \in Threads
    BY <2>1, TypesNamed DEF IInv, Threads
  <2>3. thread[Starter].at # "wild"
    BY <2>1, <2>2 DEF IInv, Starting, Looking, Leaving, Typed
  <2>4. QED
    BY <2>1, <2>3 DEF ClientsHandedBack, FreedUnused, IInv, InTurn
<1>2. QED
  BY <1>1, Inductive, PTL

\* PicturesAreHonest: what is not torn is one picture of the desktop, of the
\* size the desktop has and that the buffer of the screenshot holds, for any
\* sizes and any order of paints, resizes and calls.
THEOREM PicturesAreHonest == Spec => []PictureHonest
<1>1. IInv => PictureHonest
  BY DEF IInv
<1>2. QED
  BY <1>1, Inductive, PTL

------------------------------------------------------------------------------
(* The session that StartSession returns is a resource *)

\* An error is noted only when run is about to end, and whoever leaves Close
\* comes after that end.
Parting ==
  /\ \A a \in 1..Attempts : run[a] \notin {"noted", "ended"} => ~failed[a]
  /\ \A c \in Callers :
       /\ thread[c].op = "close" <=> thread[c].at \in Leaving \cup {"gone"}
       /\ thread[c].at = "leave" => run[Current] = "ended"

Inside == {c \in Callers : thread[c].op = "close" /\ thread[c].at # "gone"}
Gone == \E c \in Callers : thread[c].at = "gone"

\* Nobody's call moves: the session may end, or note its error.
LEMMA QuietPromise ==
  ASSUME \A c \in Callers : thread'[c] = thread[c],
         Returned => Returned' /\ Current' = Current,
         Returned /\ run[Current] = "ended" => run'[Current] = "ended",
         Returned /\ failed[Current] => failed'[Current]
  PROVE  [Promise!Next]_Promise!vars
<1>1. Inside' = Inside /\ Gone' = Gone
  BY DEF Inside, Gone
<1>2. DEFINE ended == Returned /\ run[Current] = "ended"
             error == Returned /\ failed[Current]
<1>3. (ended => ended') /\ (error => error')
  OBVIOUS
<1>4. Inside = {c \in Callers : thread[c].op = "close" /\ thread[c].at # "gone"}
      /\ Gone = \E c \in Callers : thread[c].at = "gone"
  BY DEF Inside, Gone
<1>5. QED
  BY <1>1, <1>3 DEF Promise!Next, Promise!End, Promise!Fail, Promise!vars, Inside, Gone

LEMMA DrivenParts ==
  ASSUME IInv, Parting, NEW a \in 1..Attempts, Driven(a)
  PROVE  Parting' /\ [Promise!Next]_Promise!vars
<1>1. UNCHANGED <<start, thread>> /\ Current' = Current /\ (Returned <=> Returned')
  BY DEF Driven, RunStep, Resized, Unwind, RunSetErr, RunDone, ConnectFails, RunBegin, Drop,
         Resize, Paint, Connect, Current, Returned
<1>2. Typed
  BY TypesNamed DEF IInv
<1>3. /\ \A b \in 1..Attempts \ {a} : run'[b] = run[b] /\ failed'[b] = failed[b]
      /\ run[a] # "ended"
      /\ \/ run[a] # "noted" /\ run'[a] \notin {"noted", "ended"} /\ failed'[a] = failed[a]
         \/ run[a] = "unwound" /\ run'[a] = "noted"
         \/ run[a] = "noted" /\ run'[a] = "ended" /\ failed'[a] = failed[a]
  <2>1. CASE Resized(a) \/ Unwind(a) \/ ConnectFails(a)
    BY <1>2, <2>1 DEF Typed, Resized, Unwind, ConnectFails
  <2>2. CASE RunSetErr(a) \/ RunDone(a)
    BY <1>2, <2>2 DEF Typed, RunSetErr, RunDone
  <2>3. CASE \E x \in BOOLEAN : RunBegin(a, x) \/ Drop(a, x)
    BY <1>2, <2>3 DEF Typed, RunBegin, Drop
  <2>4. CASE \E size \in Sizes : Resize(a, size)
    BY <1>2, <2>4 DEF Typed, Resize
  <2>5. CASE \E look \in Looks : Paint(a, look)
    BY <1>2, <2>5 DEF Typed, Paint, runVars
  <2>6. CASE \E size \in Sizes, look \in Looks : Connect(a, size, look)
    BY <1>2, <2>6 DEF Typed, Connect
  <2>7. QED
    BY <2>1, <2>2, <2>3, <2>4, <2>5, <2>6 DEF Driven, RunStep
<1>4. Current \in 1..Attempts
  BY <1>2, CurrentIsAttempt
<1>5. Parting'
  <2>1. \A b \in 1..Attempts : run'[b] \notin {"noted", "ended"} => ~failed'[b]
    BY <1>3 DEF Parting
  <2>2. run[Current] = "ended" => run'[Current] = "ended"
    BY <1>3, <1>4
  <2>3. QED
    BY <1>1, <2>1, <2>2 DEF Parting
<1>6. failed[Current] => failed'[Current]
  BY <1>3, <1>4 DEF Parting
<1>7. run[Current] = "ended" => run'[Current] = "ended"
  BY <1>3, <1>4
<1>8. QED
  BY <1>1, <1>5, <1>6, <1>7, QuietPromise

\* A goroutine's step in Status or Screenshot: it stays there or is through.
LEMMA AskingParts ==
  ASSUME IInv, Parting, NEW t \in Threads, Asking(t)
  PROVE  Parting' /\ [Promise!Next]_Promise!vars
<1>1. UNCHANGED <<run, failed, start>> /\ Current' = Current /\ (Returned <=> Returned')
  BY DEF Asking, GetClient, Wild, Look, Fill, ReadSize, Copy, Shot, runVars, Current, Returned
<1>2. Typed /\ thread[t] \in ThreadType
  BY TypesNamed DEF IInv, Typed
<1>3. PICK x \in ThreadType : thread' = [thread EXCEPT ![t] = x] /\ Fine(x)
  BY AskingMoves
<1>4. thread'[t] = x /\ \A u \in Threads : u # t => thread'[u] = thread[u]
  BY <1>2, <1>3 DEF Typed
<1>5. x.at \notin Leaving \cup {"gone"}
  BY <1>3 DEF Fine, Looking, Leaving
<1>6. thread[t].at \notin Leaving \cup {"gone"}
  BY AskingAt DEF Looking, Leaving
<1>7. x.op \in {thread[t].op, "none"}
  <2>1. \A at : Goto(t, at) => x.op = thread[t].op
    BY <1>2, <1>4 DEF Goto, Typed, ThreadType
  <2>2. \A answer : Answer(t, answer) => x.op = "none"
    BY <1>2, <1>4 DEF Answer, Idle, Typed
  <2>3. CASE GetClient(t) \/ Wild(t) \/ Shot(t)
    BY <2>1, <2>2, <2>3 DEF GetClient, Wild, Shot
  <2>4. CASE Look(t) \/ \E dims \in Sizes, look \in Looks : Fill(t, dims, look)
    BY <1>2, <1>4, <2>1, <2>4 DEF Look, Fill, Typed, ThreadType
  <2>5. CASE ReadSize(t) \/ Copy(t)
    <3>1. \/ \E answer : Answer(t, answer)
          \/ \E size : thread' = [thread EXCEPT ![t].at = "look2", ![t].buf = size]
          \/ \E image : thread' = [thread EXCEPT ![t].at = "image", ![t].image = image]
      BY <2>5 DEF ReadSize, Copy
    <3>2. (\E answer : Answer(t, answer)) => x.op = "none"
      BY <2>2
    <3>3. QED
      BY <1>2, <1>4, <3>1, <3>2 DEF Typed, ThreadType
  <2>6. QED
    BY <2>3, <2>4, <2>5 DEF Asking
<1>8. t \in Callers => thread[t].op # "close" /\ x.op # "close"
  BY <1>6, <1>7 DEF Parting
<1>9. Parting'
  BY <1>1, <1>4, <1>5, <1>8 DEF Parting, Threads, Leaving
<1>10. Inside' = Inside /\ Gone' = Gone
  <2>1. \A c \in Callers : c \in Inside' <=> c \in Inside
    BY <1>4, <1>8 DEF Inside, Threads
  <2>2. \A c \in Callers : thread'[c].at = "gone" <=> thread[c].at = "gone"
    BY <1>4, <1>5, <1>6 DEF Threads
  <2>3. QED
    BY <2>1, <2>2 DEF Inside, Gone
<1>11. QED
  BY <1>1, <1>9, <1>10 DEF Promise!vars, Inside, Gone

LEMMA ClosingParts ==
  ASSUME IInv, Parting, NEW t \in Threads, Closing(t)
  PROVE  Parting' /\ [Promise!Next]_Promise!vars
<1>1. UNCHANGED <<run, failed, start>> /\ Current' = Current /\ (Returned <=> Returned')
  BY DEF Closing, Enter, Abort, Clear, Free, Leave, runVars, Current, Returned
<1>2. Typed /\ thread[t] \in ThreadType /\ Current \in 1..Attempts
  BY TypesNamed, CurrentIsAttempt DEF IInv, Typed
<1>3. \A u \in Threads : u # t => thread'[u] = thread[u]
  BY <1>2 DEF Closing, Enter, Abort, Clear, Free, Leave, Goto, Answer, Typed
<1>4. CASE t = Starter
  <2>1. \A c \in Callers : thread'[c] = thread[c]
    BY <1>3, <1>4, StarterAssumption DEF Threads
  <2>2. Parting'
    BY <1>1, <2>1 DEF Parting
  <2>3. QED
    BY <1>1, <2>1, <2>2, QuietPromise
<1>5. CASE t # Starter
  <2>1. t \in Callers /\ Returned
    BY <1>2, <1>5, WhoCloses DEF Closing, Enter, Abort, Clear, Free, Leave, Leaving, Returned
  <2>2. thread[t].at \in Leaving /\ thread[t].op = "close"
    BY <2>1 DEF Closing, Enter, Abort, Clear, Free, Leave, Leaving, Parting
  <2>3. thread'[t].op = thread[t].op
    BY <1>2, <1>5 DEF Closing, Enter, Abort, Clear, Free, Leave, Goto, Typed, ThreadType
  <2>4. CASE Leave(t)
    <3>1. thread'[t].at = "gone" /\ run[Current] = "ended"
      BY <1>2, <1>5, <2>1, <2>4 DEF Leave, Goto, Typed, ThreadType, Parting
    <3>2. Parting'
      BY <1>1, <1>3, <2>2, <2>3, <3>1 DEF Parting, Threads
    <3>3. Inside' = Inside \ {t} /\ Gone' = TRUE /\ t \in Inside
      BY <1>3, <2>1, <2>2, <3>1 DEF Inside, Gone, Threads, Leaving
    <3>4. Promise!ReturnClose(t)
      BY <1>1, <2>1, <3>1, <3>3 DEF Promise!ReturnClose, Inside, Gone
    <3>5. QED
      BY <2>1, <3>2, <3>4 DEF Promise!Next
  <2>5. CASE ~Leave(t)
    <3>1. thread'[t].at \in Leaving
      BY <1>2, <1>5, <2>5 DEF Closing, Enter, Abort, Clear, Free, Goto, Typed, ThreadType, Leaving
    <3>2. thread'[t].at = "leave" => run[Current] = "ended"
      <4>1. CASE Enter(t)
        <5>1. thread'[t].at = "leave" => once[Current] = "spent"
          BY <1>2, <4>1 DEF Enter, Goto, Typed, ThreadType
        <5>2. QED
          BY <1>2, <5>1 DEF IInv, InTurn
      <4>2. CASE Abort(t) \/ Clear(t)
        BY <1>2, <4>2 DEF Abort, Clear, Goto, Typed, ThreadType
      <4>3. CASE Free(t)
        BY <4>3 DEF Free, IInv, Starting
      <4>4. QED
        BY <2>5, <4>1, <4>2, <4>3 DEF Closing
    <3>3. Parting'
      BY <1>1, <1>3, <2>2, <2>3, <3>1, <3>2 DEF Parting, Threads
    <3>4. thread[t].at # "gone" /\ thread'[t].at # "gone"
      BY <2>2, <3>1 DEF Leaving
    <3>5. Inside' = Inside /\ Gone' = Gone
      <4>1. \A c \in Callers : c \in Inside' <=> c \in Inside
        BY <1>3, <2>3, <3>4 DEF Inside, Threads
      <4>2. \A c \in Callers : thread'[c].at = "gone" <=> thread[c].at = "gone"
        BY <1>3, <3>4 DEF Threads
      <4>3. QED
        BY <4>1, <4>2 DEF Inside, Gone
    <3>6. QED
      BY <1>1, <3>3, <3>5 DEF Promise!vars, Inside, Gone
  <2>6. QED
    BY <2>4, <2>5
<1>6. QED
  BY <1>4, <1>5

LEMMA BeginParts ==
  ASSUME IInv, Parting, NEW t \in Callers, NEW op \in {"status", "shot", "close"}, Begin(t, op)
  PROVE  Parting' /\ [Promise!Next]_Promise!vars
<1>1. UNCHANGED <<run, failed, start>> /\ Current' = Current /\ (Returned <=> Returned')
      /\ thread[t].at = "idle"
  BY DEF Begin, runVars, Current, Returned
<1>2. Typed /\ t \in Threads
  BY TypesNamed DEF IInv, Threads
<1>3. \A u \in Threads : u # t => thread'[u] = thread[u]
  BY <1>2 DEF Begin, Typed
<1>4. thread'[t].op = op /\ thread'[t].at = IF op = "close" THEN "enter" ELSE "get"
  BY <1>2 DEF Begin, Typed, Call, Idle
<1>5. thread'[t].at # "gone" /\ thread'[t].at # "leave"
      /\ (op = "close" <=> thread'[t].at \in Leaving \cup {"gone"})
  BY <1>4 DEF Leaving
<1>6. Parting'
  BY <1>1, <1>3, <1>4, <1>5 DEF Parting, Threads
<1>7. Gone' = Gone
  BY <1>1, <1>3, <1>5 DEF Gone, Threads
<1>8. thread[t].op # "close"
  BY <1>1 DEF Parting, Leaving
<1>9. Inside' = Inside \/ Inside' = Inside \cup {t}
  BY <1>3, <1>8 DEF Inside, Threads
<1>10. QED
  BY <1>1, <1>6, <1>7, <1>9 DEF Promise!Next, Promise!CallClose, Promise!vars, Inside, Gone

\* StartSession moves nobody's call, and until it has returned the session is
\* nobody's resource.
LEMMA StartParts ==
  ASSUME IInv, Parting, StartStep \/ SelectDeadline
  PROVE  Parting' /\ [Promise!Next]_Promise!vars
<1>1. Typed /\ Current \in 1..Attempts
  BY TypesNamed, CurrentIsAttempt DEF IInv
<1>2. start.at # "returned"
  BY DEF StartStep, TryFails, Try, SelectDone, SelectDeadline, SelectTick, NotYet, Ready, Blank,
         Usable, TooLate, NextMode
<1>3. \A c \in Callers : thread'[c] = thread[c]
  <2>1. UNCHANGED thread \/ \E x : thread' = [thread EXCEPT ![Starter] = x]
    BY DEF StartStep, TryFails, Try, SelectDone, SelectDeadline, SelectTick, NotYet, Ready,
           Blank, Usable, TooLate, NextMode, Ask
  <2>2. QED
    BY <1>1, <2>1, StarterAssumption DEF Typed, Threads
<1>4. [Promise!Next]_Promise!vars
  BY <1>2, <1>3, QuietPromise DEF Returned
<1>5. \A c \in Callers : thread[c].at = "idle"
  BY <1>2 DEF IInv, Starting
<1>6. \A a \in 1..Attempts : run'[a] \notin {"noted", "ended"} => ~failed'[a]
  <2>1. CASE UNCHANGED <<run, failed>>
    BY <2>1 DEF Parting
  <2>2. CASE Try
    <3>1. failed' = failed /\ run' = [run EXCEPT ![Current] = "new"]
      BY <2>2 DEF Try
    <3>2. run[Current] = "none"
      BY <1>1, <2>2 DEF Try, IInv, InTurn
    <3>3. QED
      BY <1>1, <3>1, <3>2 DEF Typed, Parting
  <2>3. CASE NextMode
    BY <1>1, <2>3 DEF NextMode, Typed, Parting
  <2>4. QED
    BY <2>1, <2>2, <2>3 DEF StartStep, TryFails, SelectDone, SelectDeadline, SelectTick, NotYet,
           Ready, Blank, Usable, TooLate, runVars
<1>7. Parting'
  BY <1>3, <1>5, <1>6 DEF Parting
<1>8. QED
  BY <1>4, <1>7

LEMMA StepPromise ==
  ASSUME IInv, Parting, [Next]_vars
  PROVE  Parting' /\ [Promise!Next]_Promise!vars
<1>1. CASE StartStep \/ SelectDeadline
  BY <1>1, StartParts
<1>2. CASE \E t \in Threads : InCall(t)
  BY <1>2, AskingParts, ClosingParts DEF InCall, Asking, Closing
<1>3. CASE \E t \in Callers, op \in {"status", "shot", "close"} : Begin(t, op)
  BY <1>3, BeginParts
<1>4. CASE \E a \in 1..Attempts : Driven(a)
  BY <1>4, DrivenParts
<1>5. CASE UNCHANGED vars
  <2>1. UNCHANGED <<run, failed, start, thread>> /\ Current' = Current /\ (Returned <=> Returned')
    BY <1>5 DEF vars, runVars, Current, Returned
  <2>2. Parting'
    BY <2>1 DEF Parting
  <2>3. QED
    BY <2>1, <2>2, QuietPromise
<1>6. QED
  BY <1>1, <1>2, <1>3, <1>4, <1>5 DEF Next, Driven

\* SessionIsResource: apart from what must happen in the end, the session
\* that StartSession returns keeps the promise of a resource, whichever of
\* the goroutines closes it: its end and error are final and Close returns to
\* nobody before run has ended (client.go, 151-177, 534-565).
THEOREM SessionIsResource == Spec => Promise!Safety
<1>1. Init => Parting
  BY DEF Init, Parting, Idle, Leaving, Threads
<1>2. Init => Promise!Init
  BY DEF Init, Promise!Init, Returned, Idle, Threads
<1>3. IInv /\ Parting /\ [Next]_vars => Parting' /\ [Promise!Next]_Promise!vars
  BY StepPromise
<1>4. QED
  BY <1>1, <1>2, <1>3, Inductive, PTL DEF Spec, Promise!Safety

==============================================================================
