---------------------------- MODULE RunSshProofs ----------------------------
(***************************************************************************)
(* Theorems about RunSsh, for every cap, chunk, buffer, pipe and marker    *)
(* size.                                                                   *)
(***************************************************************************)
EXTENDS RunSsh, TLAPS

\* The groups of variables, for UNCHANGED.
USE DEF env, world, data, reader, threads, locals

\* The smaller of two numbers is one of them and exceeds neither.
LEMMA LesserOfIsLesser ==
    ASSUME NEW a \in Int, NEW b \in Int
    PROVE  /\ LesserOf(a, b) \in {a, b}
           /\ LesserOf(a, b) <= a
           /\ LesserOf(a, b) <= b
  BY DEF LesserOf

\* What a read lacks is a whole number, and the blocks in it no more than that.
LEMMA LacksParts ==
    ASSUME TypeOK, NEW s \in Streams
    PROVE  /\ Wanted(s) \in Int /\ Lacks(s) \in Int /\ Ahead(s) \in Int
           /\ Lacks(s) >= BufSize => Lacks(s) - (Lacks(s) % BufSize) \in 1..Lacks(s)
  <1>1. Wanted(s) \in Int /\ Lacks(s) \in Int /\ Ahead(s) \in Int
    BY SizesAssumption DEF TypeOK, Wanted, Lacks, Ahead, Target, LesserOf
  <1>2. ASSUME NEW n \in Int, n >= BufSize
        PROVE  n - (n % BufSize) \in 1..n
    <2>1. n % BufSize \in 0..(BufSize - 1)
      BY SizesAssumption
    <2>. QED  BY <1>2, <2>1, SizesAssumption
  <1>. QED  BY <1>1, <1>2

\* The box of a drain thread always fits the cap.
LEMMA BoxFits ==
    ASSUME NEW s \in Streams, total \in [Streams -> Nat]
    PROVE  Box(s) \in BoxType
  <1>1. total[s] \in Nat /\ Cap \in Nat
    BY SizesAssumption
  <1>2. LesserOf(total[s], Cap) \in 0..Cap
    BY <1>1 DEF LesserOf
  <1>. QED  BY <1>1, <1>2 DEF Box, BoxType, EmptyBox

\* Marking a stderr that fits the cap leaves one that fits it, at most a
\* marker longer.
LEMMA MarkedFits ==
    ASSUME NEW err \in BoxType
    PROVE  /\ Marked(err).len \in 0..Cap
           /\ Marked(err).over \in BOOLEAN
           /\ Marked(err).len - err.len \in 0..MarkerLen
  BY SizesAssumption DEF Marked, BoxType, LesserOf

\* A marker that does not fit is cut, and the cut is flagged; one that fits
\* changes no flag.
LEMMA MarkerCutOrWhole ==
    ASSUME NEW err \in BoxType
    PROVE  \/ /\ Marked(err).len < err.len + MarkerLen
              /\ Marked(err).len = Cap
              /\ Marked(err).over
           \/ /\ Marked(err).len = err.len + MarkerLen
              /\ Marked(err).over = err.over
  <1>. DEFINE both == err.len + MarkerLen
  <1>1. /\ Marked(err).len = LesserOf(both, Cap)
        /\ Marked(err).over = (err.over \/ both > Cap)
    BY DEF Marked
  <1>2. both \in Int /\ Cap \in Int /\ err.over \in BOOLEAN
    BY SizesAssumption DEF BoxType
  <1>. HIDE DEF both
  <1>3. CASE both > Cap
    <2>1. Marked(err).over
      BY <1>1, <1>3, Zenon
    <2>2. Marked(err).len = Cap /\ Cap < both
      BY <1>1, <1>2, <1>3 DEF LesserOf
    <2>. QED  BY <2>1, <2>2 DEF both
  <1>4. CASE ~(both > Cap)
    <2>1. Marked(err).over = err.over
      BY <1>1, <1>2, <1>4, Zenon
    <2>2. Marked(err).len = both
      BY <1>1, <1>2, <1>4 DEF LesserOf
    <2>. QED  BY <2>1, <2>2 DEF both
  <1>. QED  BY <1>3, <1>4

LEMMA TypeInit == Init => TypeOK
  <1>1. 0 \in 0..Cap /\ 0 \in 0..MarkerLen
    BY SizesAssumption
  <1>2. EmptyBox \in BoxType
    BY <1>1 DEF EmptyBox, BoxType
  <1>3. NoResult \in [stdout : 0..Cap, stderr : 0..Cap, marker : 0..MarkerLen,
                     exit : Int, truncated : BOOLEAN, stderrTruncated : BOOLEAN]
    BY <1>1 DEF NoResult
  <1>. SUFFICES ASSUME Init PROVE TypeOK
    OBVIOUS
  <1>4. open \in [Streams -> BOOLEAN]
    BY Zenon DEF Init
  <1>5. /\ pipe \in [Streams -> Nat]
        /\ written \in [Streams -> Nat]
        /\ total \in [Streams -> Nat]
        /\ got \in [Streams -> Nat]
        /\ bufPos \in [Streams -> Nat] /\ bufEnd \in [Streams -> Nat]
    BY DEF Init
  <1>6. drain \in [Streams -> {"unborn", "loop", "reading", "done", "failed"}]
    BY DEF Init
  <1>7. collected \in [Streams -> BoxType]
    BY <1>2 DEF Init
  <1>8. result \in [stdout : 0..Cap, stderr : 0..Cap, marker : 0..MarkerLen,
                   exit : Int, truncated : BOOLEAN, stderrTruncated : BOOLEAN]
    BY <1>3 DEF Init
  <1>9. holder \in BOOLEAN /\ reaped \in BOOLEAN /\ timedOut \in BOOLEAN
    BY DEF Init
  <1>. QED  BY <1>4, <1>5, <1>6, <1>7, <1>8, <1>9 DEF Init, TypeOK, PcType

\* What the client and its descendant do preserves the types.
LEMMA TypeWorld == TypeOK /\ World => TypeOK'
  <1>. SUFFICES ASSUME TypeOK, World PROVE TypeOK'
    OBVIOUS
  <1>. USE DEF TypeOK
  <1>1. ASSUME NEW s \in Streams, ChildWrites(s) PROVE TypeOK'
    BY <1>1 DEF ChildWrites, Put
  <1>2. ASSUME NEW s \in Streams, HolderWrites(s) PROVE TypeOK'
    BY <1>2 DEF HolderWrites, Put
  <1>3. CASE ChildExits
    BY <1>3, SizesAssumption DEF ChildExits
  <1>4. CASE ChildBrokenPipe
    BY <1>4, SizesAssumption DEF ChildBrokenPipe
  <1>5. CASE HolderReleases
    BY <1>5 DEF HolderReleases
  <1>6. CASE HolderBrokenPipe
    BY <1>6 DEF HolderBrokenPipe
  <1>. QED  BY <1>1, <1>2, <1>3, <1>4, <1>5, <1>6 DEF World

\* What a drain thread does preserves the types, as long as the buffer holds
\* what it can.
LEMMA TypeDrain ==
    ASSUME TypeOK, Buffered, NEW s \in Streams, Drain(s) PROVE TypeOK'
  <1>. USE DEF TypeOK
  <1>0. /\ pipe[s] \in Nat /\ got[s] \in Nat /\ bufPos[s] \in Nat /\ bufEnd[s] \in Nat
        /\ Wanted(s) \in Int /\ Lacks(s) \in Int
    BY LacksParts
  <1>1. CASE BeginRead(s)
    <2>. DEFINE n == LesserOf(Wanted(s), Ahead(s))
    <2>1. CASE open[s]
      <3>1. n \in Nat
        BY <1>1, SizesAssumption DEF BeginRead, Buffered, Ahead, Wanted, Target, LesserOf
      <3>. HIDE DEF n
      <3>2. /\ got' = [got EXCEPT ![s] = @ + n]
            /\ bufPos' = [bufPos EXCEPT ![s] = IF n < Ahead(s) THEN @ + n ELSE 0]
            /\ bufEnd' = [bufEnd EXCEPT ![s] = IF n < Ahead(s) THEN @ ELSE 0]
            /\ drain' = [drain EXCEPT ![s] = "reading"]
        BY <1>1, <2>1 DEF BeginRead, n
      <3>. QED  BY <1>0, <1>1, <3>1, <3>2 DEF BeginRead
    <2>2. CASE ~open[s]
      BY <1>1, <2>2 DEF BeginRead
    <2>. QED  BY <2>1, <2>2
  <1>2. CASE Take(s)
    <2>1. CASE TakeBlocks(s)
      <3>. DEFINE n == LesserOf(pipe[s], Lacks(s) - (Lacks(s) % BufSize))
      <3>1. n \in 0..pipe[s]
        BY <1>0, <2>1, LacksParts DEF TakeBlocks, LesserOf
      <3>. HIDE DEF n
      <3>2. /\ pipe' = [pipe EXCEPT ![s] = @ - n]
            /\ got' = [got EXCEPT ![s] = @ + n]
            /\ UNCHANGED reader
        BY <2>1 DEF TakeBlocks, n
      <3>3. pipe[s] - n \in Nat /\ got[s] + n \in Nat
        BY <1>0, <3>1
      <3>. QED  BY <1>2, <3>2, <3>3 DEF Take
    <2>2. CASE FillBuffer(s)
      <3>. DEFINE n == LesserOf(pipe[s], BufSize - bufEnd[s])
                  used == LesserOf(n, Lacks(s))
      <3>1. n \in 0..pipe[s] /\ used \in 0..n
        BY <1>0, <1>2, SizesAssumption DEF Take, Buffered, LesserOf
      <3>2. /\ pipe[s] - n \in Nat /\ got[s] + used \in Nat
            /\ bufEnd[s] + n \in Nat /\ bufPos[s] + used \in Nat
        BY <1>0, <3>1
      <3>. HIDE DEF n, used
      <3>3. /\ pipe' = [pipe EXCEPT ![s] = @ - n]
            /\ got' = [got EXCEPT ![s] = @ + used]
            /\ bufEnd' = [bufEnd EXCEPT ![s] = @ + n]
            /\ bufPos' = [bufPos EXCEPT ![s] = @ + used]
        BY <2>2 DEF FillBuffer, n, used
      <3>. QED  BY <1>2, <3>2, <3>3 DEF Take
    <2>. QED  BY <1>2, <2>1, <2>2 DEF Take
  <1>3. CASE ReadReturns(s)
    BY <1>3 DEF ReadReturns
  <1>4. CASE ReadEnough(s)
    BY <1>4 DEF ReadEnough
  <1>. QED  BY <1>1, <1>2, <1>3, <1>4 DEF Drain

\* What the calling thread does preserves the types.
LEMMA TypeMain == TypeOK /\ Main => TypeOK'
  <1>. SUFFICES ASSUME TypeOK, Main PROVE TypeOK'
    OBVIOUS
  <1>. USE DEF TypeOK
  <1>1. CASE Reject
    BY <1>1 DEF Reject, PcType
  <1>2. CASE Spawn
    BY <1>2 DEF Spawn, PcType
  <1>3. CASE ReadTimeout
    BY <1>3 DEF ReadTimeout, PcType
  <1>4. CASE WaitReturns
    BY <1>4 DEF WaitReturns, PcType
  <1>5. CASE WaitExpires
    BY <1>5 DEF WaitExpires, PcType
  <1>6. CASE Kill
    BY <1>6 DEF Kill, PcType, KilledExit
  <1>7. CASE Reap
    BY <1>7 DEF Reap, PcType
  <1>8. CASE Join("out", "join_out", "join_err")
    BY <1>8 DEF Join, PcType
  <1>9. CASE Join("err", "join_err", "collect")
    BY <1>9 DEF Join, PcType
  <1>10. CASE Collect
    BY <1>10, BoxFits DEF Collect, PcType
  <1>11. CASE Close("out", "close_out", "close_err")
    BY <1>11 DEF Close, PcType, Streams
  <1>12. CASE CloseLast
    BY <1>12 DEF CloseLast, Close, PcType, Streams
  <1>13. CASE Finish
    <2>1. /\ collected["out"] \in BoxType
          /\ collected["err"] \in BoxType
      BY DEF Streams
    <2>2. result' \in [stdout : 0..Cap, stderr : 0..Cap, marker : 0..MarkerLen,
                       exit : Int, truncated : BOOLEAN,
                       stderrTruncated : BOOLEAN]
      BY <1>13, <2>1, MarkedFits, SizesAssumption
         DEF Finish, Answer, BoxType, TimeoutExit
    <2>. QED  BY <1>13, <2>2 DEF Finish, PcType
  <1>. QED
    BY <1>1, <1>2, <1>3, <1>4, <1>5, <1>6, <1>7, <1>8, <1>9, <1>10, <1>11,
       <1>12, <1>13 DEF Main

-----------------------------------------------------------------------------
(* The inductive invariant.                                                *)

LEMMA IInvInit == Init => IInv
  <1>. SUFFICES ASSUME Init PROVE IInv
    OBVIOUS
  <1>1. TypeOK
    BY TypeInit
  <1>2. Accounts /\ Buffered
    BY SizesAssumption DEF Init, Accounts, Buffered, Ahead, Lacks, Target
  <1>3. OpenByStage
    BY Zenon DEF Init, OpenByStage, BothClosed, Streams
  <1>4. Stages /\ Joined /\ Taken /\ Reported
    BY DEF Init, Stages, Joined, Taken, Reported, Taking, OutDone, Settled
  <1>. QED  BY <1>1, <1>2, <1>3, <1>4 DEF IInv

\* A stream that nobody writes any more stays so.
LEMMA AccountsWorld == IInv /\ World => Accounts' /\ Buffered'
  <1>. SUFFICES ASSUME IInv, World PROVE Accounts' /\ Buffered'
    OBVIOUS
  <1>0. /\ UNCHANGED <<open, drain, total, got, bufPos, bufEnd>>
        /\ \A s \in Streams : NoWriter(s) => NoWriter(s)'
    BY DEF World, ChildWrites, HolderWrites, Put, ChildExits, ChildBrokenPipe,
           HolderReleases, HolderBrokenPipe, NoWriter, IInv, Stages
  <1>1. /\ Buffered'
        /\ \A s \in Streams : Ahead(s)' = Ahead(s) /\ Lacks(s)' = Lacks(s)
    BY <1>0 DEF IInv, Buffered, Ahead, Lacks, Wanted
  <1>. USE DEF IInv, TypeOK, Accounts
  <1>2. ASSUME NEW s \in Streams, ChildWrites(s) \/ HolderWrites(s) PROVE Accounts'
    <2>1. /\ pipe' = [pipe EXCEPT ![s] = @ + 1] /\ pipe[s] < PipeCap /\ ~NoWriter(s)
          /\ written' = [written EXCEPT ![s] = @ + 1]
      BY <1>2 DEF ChildWrites, HolderWrites, Put, NoWriter
    <2>2. \A q \in Streams : Ahead(q) \in Int
      BY LacksParts
    <2>. QED  BY <1>0, <1>1, <2>1, <2>2, SizesAssumption
  <1>3. CASE \/ ChildExits \/ ChildBrokenPipe \/ HolderReleases \/ HolderBrokenPipe
    <2>1. UNCHANGED <<pipe, written>>
      BY <1>3 DEF ChildExits, ChildBrokenPipe, HolderReleases, HolderBrokenPipe
    <2>. QED  BY <1>0, <1>1, <2>1
  <1>. QED  BY <1>1, <1>2, <1>3 DEF World

\* A step of one drain leaves the accounts of the other stream alone.
LEMMA AccountsOther ==
    ASSUME IInv, NEW s \in Streams, Drain(s), NEW q \in Streams, q # s
    PROVE  /\ UNCHANGED <<written[q], pipe[q], open[q], drain[q], total[q], got[q],
                          bufPos[q], bufEnd[q]>>
           /\ Ahead(q)' = Ahead(q) /\ Lacks(q)' = Lacks(q)
           /\ NoWriter(q)' = NoWriter(q)
  <1>1. /\ UNCHANGED <<written[q], pipe[q], open[q], drain[q], total[q], got[q],
                       bufPos[q], bufEnd[q]>>
        /\ UNCHANGED <<child, holder, inherits>>
    <2>. USE DEF IInv, TypeOK
    <2>1. CASE BeginRead(s)
      BY <2>1 DEF BeginRead
    <2>2. CASE Take(s)
      BY <2>2 DEF Take, TakeBlocks, FillBuffer
    <2>3. CASE ReadReturns(s) \/ ReadEnough(s)
      BY <2>3 DEF ReadReturns, ReadEnough
    <2>. QED  BY <2>1, <2>2, <2>3 DEF Drain
  <1>. QED  BY <1>1 DEF Ahead, Lacks, Wanted, NoWriter

\* What Accounts and Buffered say of one stream.
Kept(s) ==
    /\ written[s] = got[s] + Ahead(s) + pipe[s]
    /\ pipe[s] <= PipeCap
    /\ total[s] <= got[s] /\ got[s] <= Target
    /\ drain[s] # "reading" => got[s] = total[s]
    /\ drain[s] = "reading" => open[s] /\ total[s] < Target /\ Lacks(s) >= 0
    /\ drain[s] = "done" =>
          total[s] = Target \/ (Ahead(s) = 0 /\ pipe[s] = 0 /\ NoWriter(s))
    /\ bufPos[s] <= bufEnd[s] /\ bufEnd[s] <= BufSize
    /\ bufEnd[s] # 0 => bufPos[s] # 0
    /\ drain[s] = "reading" /\ Lacks(s) > 0 =>
          /\ Ahead(s) = 0
          /\ bufEnd[s] # 0 => bufEnd[s] + Lacks(s) < BufSize

LEMMA KeptByDrain ==
    ASSUME IInv, NEW s \in Streams, Drain(s) PROVE Kept(s)'
  <1>0. /\ Kept(s)
        /\ pipe[s] \in Nat /\ written[s] \in Nat /\ got[s] \in Nat /\ total[s] \in Nat
        /\ bufPos[s] \in Nat /\ bufEnd[s] \in Nat
    BY DEF IInv, TypeOK, Accounts, Buffered, Kept
  <1>. USE SizesAssumption DEF IInv, TypeOK
  <1>1. CASE BeginRead(s)
    <2>1. CASE open[s]
      <3>1. /\ drain'[s] = "reading" /\ open'[s]
            /\ got'[s] = got[s] + LesserOf(Wanted(s), Ahead(s))
            /\ bufPos'[s] = (IF LesserOf(Wanted(s), Ahead(s)) < Ahead(s)
                             THEN bufPos[s] + LesserOf(Wanted(s), Ahead(s)) ELSE 0)
            /\ bufEnd'[s] = (IF LesserOf(Wanted(s), Ahead(s)) < Ahead(s) THEN bufEnd[s] ELSE 0)
            /\ UNCHANGED <<written[s], pipe[s], total[s]>>
            /\ drain[s] = "loop" /\ total[s] < Target
        BY <1>1, <2>1 DEF BeginRead
      <3>2. Wanted(s)' = Wanted(s)
        BY <3>1 DEF Wanted
      <3>. QED  BY <1>0, <3>1, <3>2 DEF Kept, Ahead, Lacks, Wanted, LesserOf, Target
    <2>2. CASE ~open[s]
      <3>1. /\ drain'[s] = "failed" /\ drain[s] = "loop"
            /\ UNCHANGED <<written[s], pipe[s], total[s], got[s], bufPos[s], bufEnd[s]>>
        BY <1>1, <2>2 DEF BeginRead
      <3>. QED  BY <1>0, <3>1 DEF Kept, Ahead
    <2>. QED  BY <2>1, <2>2
  <1>2. CASE Take(s)
    <2>1. /\ drain[s] = "reading" /\ Lacks(s) > 0 /\ pipe[s] > 0
          /\ UNCHANGED <<written[s], total[s], drain[s], open[s]>>
          /\ Wanted(s)' = Wanted(s) /\ Wanted(s) \in Int
          /\ Lacks(s) = total[s] + Wanted(s) - got[s] /\ Lacks(s)' = total[s] + Wanted(s) - got'[s]
          /\ total[s] + Wanted(s) <= Target /\ Target \in Int
      BY <1>2 DEF Take, Wanted, Lacks, LesserOf, Target
    <2>2. CASE TakeBlocks(s)
      <3>. DEFINE n == LesserOf(pipe[s], Lacks(s) - (Lacks(s) % BufSize))
      <3>1. n \in 1..pipe[s] /\ n <= Lacks(s)
        BY <1>0, <2>1, <2>2, LacksParts DEF TakeBlocks, LesserOf
      <3>2. /\ pipe'[s] = pipe[s] - n /\ got'[s] = got[s] + n
            /\ UNCHANGED <<bufPos[s], bufEnd[s]>> /\ bufEnd[s] = 0
        BY <1>0, <2>1, <2>2 DEF TakeBlocks, Kept
      <3>. HIDE DEF n
      <3>3. bufPos[s] = 0 /\ Ahead(s) = 0 /\ Ahead(s)' = 0
        BY <1>0, <3>2 DEF Kept, Ahead
      <3>4. got[s] + n <= Target /\ Lacks(s)' = Lacks(s) - n
        BY <1>0, <2>1, <3>1, <3>2
      <3>5. /\ written'[s] = got'[s] + Ahead(s)' + pipe'[s]
            /\ pipe'[s] <= PipeCap /\ total[s] <= got'[s] /\ Lacks(s)' >= 0
        BY <1>0, <2>1, <3>1, <3>2, <3>3, <3>4 DEF Kept
      <3>. QED  BY <1>0, <2>1, <3>2, <3>3, <3>4, <3>5 DEF Kept
    <2>3. CASE FillBuffer(s)
      <3>. DEFINE n == LesserOf(pipe[s], BufSize - bufEnd[s])
                  used == LesserOf(n, Lacks(s))
      <3>1. bufEnd[s] < BufSize /\ Ahead(s) = 0 /\ bufPos[s] = bufEnd[s]
        <4>1. /\ Ahead(s) = 0
              /\ bufEnd[s] # 0 => bufEnd[s] + Lacks(s) < BufSize
          BY <1>0, <2>1 DEF Kept
        <4>. QED  BY <1>0, <2>1, <4>1 DEF Ahead
      <3>3. /\ n \in 1..pipe[s] /\ n <= BufSize - bufEnd[s]
            /\ used = LesserOf(n, Lacks(s))
        BY <1>0, <2>1, <3>1 DEF LesserOf
      <3>4. used \in 1..n /\ used <= Lacks(s) /\ (used = n \/ used = Lacks(s))
        BY <1>0, <2>1, <3>3 DEF LesserOf
      <3>2. /\ pipe'[s] = pipe[s] - n /\ got'[s] = got[s] + used
            /\ bufEnd'[s] = bufEnd[s] + n /\ bufPos'[s] = bufPos[s] + used
            /\ Lacks(s) < BufSize
        BY <2>3 DEF FillBuffer
      <3>. HIDE DEF n, used
      <3>5. /\ Ahead(s)' = n - used /\ Lacks(s)' = Lacks(s) - used
            /\ got[s] + used <= Target
        BY <1>0, <2>1, <3>1, <3>2, <3>3, <3>4 DEF Ahead
      <3>6. /\ written'[s] = got'[s] + Ahead(s)' + pipe'[s]
            /\ pipe'[s] <= PipeCap /\ total[s] <= got'[s] /\ Lacks(s)' >= 0
        <4>1. /\ written[s] = got[s] + pipe[s] /\ pipe[s] <= PipeCap /\ total[s] <= got[s]
              /\ n \in Nat /\ used \in Nat
          BY <1>0, <3>1, <3>3, <3>4 DEF Kept
        <4>2. written'[s] = got'[s] + Ahead(s)' + pipe'[s]
          BY <1>0, <2>1, <3>2, <3>5, <4>1
        <4>3. pipe'[s] <= PipeCap /\ total[s] <= got'[s]
          BY <1>0, <3>2, <4>1
        <4>4. Lacks(s)' >= 0
          BY <1>0, <2>1, <3>4, <3>5, <4>1
        <4>. QED  BY <4>2, <4>3, <4>4
      <3>7. /\ bufPos'[s] <= bufEnd'[s] /\ bufEnd'[s] <= BufSize /\ bufPos'[s] # 0
        BY <1>0, <3>1, <3>2, <3>3, <3>4
      <3>8. ASSUME Lacks(s)' > 0
            PROVE  Ahead(s)' = 0 /\ bufEnd'[s] + Lacks(s)' < BufSize
        <4>1. used = n
          BY <2>1, <3>4, <3>5, <3>8
        <4>2. bufEnd[s] = 0 \/ bufEnd[s] + Lacks(s) < BufSize
          BY <1>0, <2>1 DEF Kept
        <4>. QED  BY <1>0, <2>1, <3>2, <3>3, <3>5, <4>1, <4>2
      <3>. QED  BY <1>0, <2>1, <3>2, <3>5, <3>6, <3>7, <3>8 DEF Kept
    <2>. QED  BY <1>2, <2>2, <2>3 DEF Take
  <1>3. CASE ReadReturns(s)
    <2>1. /\ drain[s] = "reading" /\ (Lacks(s) = 0 \/ (pipe[s] = 0 /\ NoWriter(s)))
          /\ drain'[s] = (IF got[s] = total[s] THEN "done" ELSE "loop")
          /\ total'[s] = got[s]
          /\ UNCHANGED <<written[s], pipe[s], got[s], bufPos[s], bufEnd[s]>>
          /\ NoWriter(s)' = NoWriter(s)
      BY <1>3 DEF ReadReturns, NoWriter
    <2>2. got[s] = total[s] => Lacks(s) > 0
      BY <1>0, <2>1 DEF Lacks, Wanted, LesserOf, Kept, Target
    <2>. QED  BY <1>0, <2>1, <2>2 DEF Kept, Ahead
  <1>4. CASE ReadEnough(s)
    <2>1. /\ drain[s] = "loop" /\ total[s] >= Target /\ drain'[s] = "done"
          /\ UNCHANGED <<written[s], pipe[s], total[s], got[s], bufPos[s], bufEnd[s]>>
      BY <1>4 DEF ReadEnough
    <2>. QED  BY <1>0, <2>1 DEF Kept, Ahead, Target
  <1>. QED  BY <1>1, <1>2, <1>3, <1>4 DEF Drain

LEMMA AccountsDrain ==
    ASSUME IInv, NEW s \in Streams, Drain(s) PROVE Accounts' /\ Buffered'
  <1>1. ASSUME NEW q \in Streams PROVE Kept(q)'
    <2>1. CASE q = s
      BY <2>1, KeptByDrain
    <2>2. CASE q # s
      <3>1. Kept(q)
        BY DEF IInv, Accounts, Buffered, Kept
      <3>. QED  BY <2>2, <3>1, AccountsOther DEF Kept
    <2>. QED  BY <2>1, <2>2
  <1>. QED  BY <1>1 DEF Kept, Accounts, Buffered

LEMMA AccountsMain == IInv /\ Main => Accounts' /\ Buffered'
  <1>. SUFFICES ASSUME IInv, Main PROVE Accounts' /\ Buffered'
    OBVIOUS
  <1>0. /\ UNCHANGED <<total, got, bufPos, bufEnd, pipe, written>>
        /\ \A s \in Streams : Ahead(s)' = Ahead(s) /\ Lacks(s)' = Lacks(s)
    <2>1. UNCHANGED <<total, got, bufPos, bufEnd, pipe, written>>
      BY DEF Main, Reject, Spawn, ReadTimeout, WaitReturns, WaitExpires, Kill, Reap,
             Join, Collect, Close, CloseLast, Finish
    <2>. QED  BY <2>1 DEF Ahead, Lacks, Wanted
  <1>. USE DEF IInv, TypeOK, Accounts, Buffered
  <1>1. CASE Spawn
    BY <1>0, <1>1 DEF Spawn, Stages, NoWriter
  <1>2. CASE Kill
    BY <1>0, <1>2 DEF Kill, NoWriter
  <1>3. CASE Close("out", "close_out", "close_err")
    BY <1>0, <1>3 DEF Close, NoWriter
  <1>4. CASE CloseLast
    BY <1>0, <1>4 DEF CloseLast, Close, NoWriter
  <1>5. CASE \/ Reject \/ ReadTimeout \/ WaitReturns \/ WaitExpires \/ Reap
             \/ Join("out", "join_out", "join_err")
             \/ Join("err", "join_err", "collect")
             \/ Collect \/ Finish
    BY <1>0, <1>5 DEF Reject, ReadTimeout, WaitReturns, WaitExpires, Reap, Join,
                      Collect, Finish, NoWriter
  <1>. QED  BY <1>1, <1>2, <1>3, <1>4, <1>5 DEF Main

\* Where the calling thread is, what is open, and what it has done by then.
LEMMA StageWorld == IInv /\ World => OpenByStage' /\ Stages'
  <1>. SUFFICES ASSUME IInv, World PROVE OpenByStage' /\ Stages'
    OBVIOUS
  <1>. USE DEF IInv, OpenByStage, Stages
  <1>1. ASSUME NEW s \in Streams, ChildWrites(s) \/ HolderWrites(s)
        PROVE  OpenByStage' /\ Stages'
    BY <1>1 DEF ChildWrites, HolderWrites, Put
  <1>2. CASE ChildExits \/ ChildBrokenPipe
    BY <1>2 DEF ChildExits, ChildBrokenPipe
  <1>3. CASE HolderReleases \/ HolderBrokenPipe
    BY <1>3 DEF HolderReleases, HolderBrokenPipe
  <1>. QED  BY <1>1, <1>2, <1>3 DEF World

LEMMA StageDrain ==
    ASSUME IInv, NEW s \in Streams, Drain(s) PROVE OpenByStage' /\ Stages'
  <1>. USE DEF IInv, TypeOK, OpenByStage, Stages
  <1>1. CASE BeginRead(s)
    BY <1>1 DEF BeginRead
  <1>2. CASE Take(s)
    BY <1>2 DEF Take, TakeBlocks, FillBuffer
  <1>3. CASE ReadReturns(s)
    BY <1>3 DEF ReadReturns
  <1>4. CASE ReadEnough(s)
    BY <1>4 DEF ReadEnough
  <1>. QED  BY <1>1, <1>2, <1>3, <1>4 DEF Drain

LEMMA StageMain == IInv /\ Main => OpenByStage' /\ Stages'
  <1>. SUFFICES ASSUME IInv, Main PROVE OpenByStage' /\ Stages'
    OBVIOUS
  <1>. USE DEF IInv, TypeOK, Setups, Streams, OpenByStage, Stages, BothClosed,
               Taking, OutDone, Settled
  <1>1. CASE Reject
    BY <1>1 DEF Reject
  <1>2. CASE Spawn
    BY <1>2 DEF Spawn
  <1>3. CASE ReadTimeout
    BY <1>3 DEF ReadTimeout
  <1>4. CASE WaitReturns
    BY <1>4 DEF WaitReturns
  <1>5. CASE WaitExpires
    BY <1>5 DEF WaitExpires
  <1>6. CASE Kill
    BY <1>6 DEF Kill
  <1>7. CASE Reap
    BY <1>7 DEF Reap
  <1>8. CASE Join("out", "join_out", "join_err")
    BY <1>8 DEF Join
  <1>9. CASE Join("err", "join_err", "collect")
    BY <1>9 DEF Join
  <1>10. CASE Collect
    BY <1>10 DEF Collect
  <1>11. CASE Close("out", "close_out", "close_err")
    BY <1>11 DEF Close
  <1>12. CASE CloseLast
    BY <1>12 DEF CloseLast, Close
  <1>13. CASE Finish
    BY <1>13 DEF Finish
  <1>. QED
    BY <1>1, <1>2, <1>3, <1>4, <1>5, <1>6, <1>7, <1>8, <1>9, <1>10, <1>11,
       <1>12, <1>13 DEF Main

-----------------------------------------------------------------------------
(* The joins, and what is collected after them.                            *)

\* A thread that is stuck in a read after the client is gone is stuck on a
\* pipe a descendant inherited.
LEMMA StuckIsHeld ==
    ASSUME NEW s \in Streams, child = "exited", Blocked(s)
    PROVE  s \in inherits
  BY DEF Blocked, NoWriter

LEMMA JoinedWorld == IInv /\ World => Joined' /\ Taken' /\ Reported'
  <1>. SUFFICES ASSUME IInv, World PROVE Joined' /\ Taken' /\ Reported'
    OBVIOUS
  <1>. USE DEF IInv, TypeOK, Joined, Taken, Reported
  <1>1. ASSUME NEW s \in Streams, ChildWrites(s) \/ HolderWrites(s)
        PROVE  Joined' /\ Taken' /\ Reported'
    <2>1. Joined' /\ Reported'
      BY <1>1 DEF ChildWrites, HolderWrites, Put, Answer, Marked
    <2>2. /\ written' = [written EXCEPT ![s] = @ + 1]
          /\ UNCHANGED <<setup, inherits, pc, collected, got>>
      BY <1>1 DEF ChildWrites, HolderWrites, Put
    <2>3. \A q \in Streams : written'[q] \in Nat /\ written[q] <= written'[q]
      BY <2>2
    <2>4. Taken'
      BY <2>2, <2>3, SizesAssumption DEF BoxType
    <2>. QED  BY <2>1, <2>4
  <1>2. CASE ChildExits \/ ChildBrokenPipe
    <2>1. pc # "returned"
      BY <1>2 DEF ChildExits, ChildBrokenPipe, Stages, Settled, OutDone, Taking
    <2>. QED  BY <1>2, <2>1 DEF ChildExits, ChildBrokenPipe
  <1>3. CASE HolderReleases \/ HolderBrokenPipe
    BY <1>3 DEF HolderReleases, HolderBrokenPipe, Answer, Marked
  <1>. QED  BY <1>1, <1>2, <1>3 DEF World

LEMMA JoinedDrain ==
    ASSUME IInv, NEW s \in Streams, Drain(s)
    PROVE  Joined' /\ Taken' /\ Reported'
  <1>. USE DEF IInv, TypeOK, Joined, Taken, Reported
  <1>1. drain[s] # "done" /\ UNCHANGED <<setup, inherits, pc, collected, written,
                                        result, timedOut, rc>>
    BY DEF Drain, BeginRead, Take, TakeBlocks, FillBuffer, ReadReturns,
           ReadEnough
  <1>2. \A q \in Streams : q # s => drain'[q] = drain[q] /\ got'[q] = got[q]
    BY DEF Drain, BeginRead, Take, TakeBlocks, FillBuffer, ReadReturns,
           ReadEnough
  <1>3. Reported'
    BY <1>1 DEF Answer, Marked
  <1>4. setup = "ok" /\ drain'[s] = "failed" => s \in inherits
    <2>1. CASE BeginRead(s)
      <3>. SUFFICES ASSUME setup = "ok", drain'[s] = "failed"
                    PROVE  s \in inherits
        OBVIOUS
      <3>1. drain[s] = "loop" /\ ~open[s]
        BY <2>1 DEF BeginRead
      <3>2. pc \in {"close_err", "finish", "returned"}
        BY <3>1 DEF OpenByStage, BothClosed, Streams, Stages
      <3>. QED  BY <3>1, <3>2 DEF OutDone, Taking, Streams
    <2>2. CASE Take(s) \/ ReadReturns(s) \/ ReadEnough(s)
      BY <2>2 DEF Take, ReadReturns, ReadEnough
    <2>. QED  BY <2>1, <2>2 DEF Drain
  <1>5. Joined'
    BY <1>1, <1>2, <1>4 DEF Streams
  <1>6. setup = "ok" /\ pc \in Taking => s \in inherits
    BY <1>1 DEF Streams, OutDone, Taking
  <1>7. Taken'
    BY <1>1, <1>2, <1>6
  <1>. QED  BY <1>3, <1>5, <1>7

LEMMA JoinedMain == IInv /\ Main => Joined' /\ Taken' /\ Reported'
  <1>. SUFFICES ASSUME IInv, Main PROVE Joined' /\ Taken' /\ Reported'
    OBVIOUS
  <1>. USE DEF IInv, TypeOK, Joined, Taken, Reported, Taking, OutDone
  <1>1. CASE Reject \/ ReadTimeout
    BY <1>1 DEF Reject, ReadTimeout
  <1>2. CASE Spawn
    BY <1>2 DEF Spawn
  <1>3. CASE WaitReturns \/ WaitExpires \/ Kill \/ Reap
    BY <1>3 DEF WaitReturns, WaitExpires, Kill, Reap
  <1>4. CASE Join("out", "join_out", "join_err")
    BY <1>4, StuckIsHeld DEF Join, Stages, Settled, Streams
  <1>5. CASE Join("err", "join_err", "collect")
    BY <1>5, StuckIsHeld DEF Join, Stages, Settled, Streams
  <1>6. CASE Collect
    <2>1. /\ collected' = [q \in Streams |-> Box(q)]
          /\ UNCHANGED <<setup, inherits, drain, got, total, written>>
          /\ pc = "collect" /\ pc' = "close_out"
      BY <1>6 DEF Collect
    <2>2. ASSUME NEW q \in Streams, setup = "ok"
          PROVE  /\ collected'[q].len <= written[q]
                 /\ collected'[q].over => collected'[q].len = Cap /\ written[q] > Cap
                 /\ q \notin inherits =>
                       /\ collected'[q].len = LesserOf(got[q], Cap)
                       /\ collected'[q].over <=> got[q] > Cap
      <3>1. collected'[q] = Box(q)
        BY <2>1
      <3>2. CASE drain[q] = "done"
        <4>1. collected'[q].len = LesserOf(got[q], Cap)
              /\ collected'[q].over = (got[q] > Cap)
          BY <3>1, <3>2 DEF Box, Accounts
        <4>2. got[q] \in Nat /\ got[q] <= written[q] /\ Cap \in Nat
          BY SizesAssumption DEF Accounts, Buffered, Ahead
        <4>3. CASE got[q] > Cap
          <5>1. collected'[q].over = TRUE
            BY <4>1, <4>3, Zenon
          <5>2. collected'[q].len = Cap
            BY <4>1, <4>2, <4>3 DEF LesserOf
          <5>. QED  BY <4>1, <4>2, <4>3, <5>1, <5>2
        <4>4. CASE ~(got[q] > Cap)
          <5>1. ~collected'[q].over
            BY <4>1, <4>4, Zenon
          <5>2. collected'[q].len = got[q]
            BY <4>1, <4>2, <4>4 DEF LesserOf
          <5>. QED  BY <4>1, <4>2, <4>4, <5>1, <5>2
        <4>. QED  BY <4>3, <4>4
      <3>3. CASE drain[q] # "done"
        BY <3>1, <3>3, <2>1, <2>2, SizesAssumption
           DEF Box, EmptyBox, Streams
      <3>. QED  BY <3>2, <3>3
    <2>. QED  BY <2>1, <2>2
  <1>7. CASE Close("out", "close_out", "close_err")
    BY <1>7 DEF Close
  <1>8. CASE CloseLast
    BY <1>8 DEF CloseLast, Close
  <1>9. CASE Finish
    <2>1. setup = "ok"
      BY <1>9 DEF Finish, Stages, Setups
    <2>2. Answer' = Answer
      BY <1>9 DEF Finish, Answer, Marked
    <2>. QED  BY <1>9, <2>1, <2>2 DEF Finish
  <1>. QED
    BY <1>1, <1>2, <1>3, <1>4, <1>5, <1>6, <1>7, <1>8, <1>9 DEF Main

\* Every step of every process keeps the invariant.
LEMMA IInvStep == IInv /\ [Next]_vars => IInv'
  <1>. SUFFICES ASSUME IInv, [Next]_vars PROVE IInv'
    OBVIOUS
  <1>1. CASE World
    BY <1>1, TypeWorld, AccountsWorld, StageWorld, JoinedWorld DEF IInv
  <1>2. ASSUME NEW s \in Streams, Drain(s) PROVE IInv'
    BY <1>2, TypeDrain, AccountsDrain, StageDrain, JoinedDrain DEF IInv
  <1>3. CASE Main
    BY <1>3, TypeMain, AccountsMain, StageMain, JoinedMain DEF IInv
  <1>4. CASE UNCHANGED vars
    BY <1>4 DEF vars, IInv, TypeOK, Accounts, Buffered, OpenByStage, Stages, Joined,
                Taken, Reported, Answer, Marked, NoWriter, Wanted, Ahead, Lacks
  <1>. QED  BY <1>1, <1>2, <1>3, <1>4 DEF Next

\* The accounts of bytes, the stages of the call and the fate of the two
\* drain threads are related as IInv says in every reachable state
\* (ssh.py:142-227).
THEOREM IInvHolds == Spec => []IInv
  BY IInvInit, IInvStep, PTL DEF Spec

\* In every reachable state every variable has its type: in particular no
\* count of bytes is ever negative and no answer exceeds the cap
\* (ssh.py:142-156, 209-227).
THEOREM TypeCorrect == Spec => []TypeOK
  <1>1. IInv => TypeOK
    BY DEF IInv
  <1>. QED  BY <1>1, IInvHolds, PTL

-----------------------------------------------------------------------------
(* What follows from it.                                                   *)

\* What is written is the cap's worth that was reported, or more.
LEMMA DoneIsWhole ==
    ASSUME IInv, NEW s \in Streams, drain[s] = "done"
    PROVE  /\ LesserOf(got[s], Cap) = LesserOf(written[s], Cap)
           /\ got[s] > Cap <=> written[s] > Cap
  BY SizesAssumption DEF IInv, TypeOK, Accounts, Buffered, Ahead, LesserOf, Target

\* How the answer's stderr is made up.
LEMMA AnswerParts ==
    ASSUME IInv
    PROVE  /\ Answer.stderr - Answer.marker = collected["err"].len
           /\ Answer.marker \in Int
           /\ collected["out"] \in BoxType /\ collected["err"] \in BoxType
  <1>1. collected["out"] \in BoxType /\ collected["err"] \in BoxType
    BY DEF IInv, TypeOK, Streams
  <1>2. CASE timedOut
    <2>1. /\ Answer.stderr = Marked(collected["err"]).len
          /\ Answer.marker = Marked(collected["err"]).len - collected["err"].len
      BY <1>2 DEF Answer
    <2>2. Marked(collected["err"]).len \in Int /\ collected["err"].len \in Int
      BY <1>1, MarkedFits DEF BoxType
    <2>. QED  BY <1>1, <2>1, <2>2
  <1>3. CASE ~timedOut
    <2>1. /\ Answer.stderr = collected["err"].len
          /\ Answer.marker = collected["err"].len - collected["err"].len
      BY <1>3 DEF Answer
    <2>2. collected["err"].len \in Int
      BY <1>1 DEF BoxType
    <2>. QED  BY <1>1, <2>1, <2>2
  <1>. QED  BY <1>2, <1>3

LEMMA IInvFaithful == IInv => FaithfulAnswer
  <1>. SUFFICES ASSUME IInv, pc = "returned" PROVE FaithfulAnswer
    BY DEF FaithfulAnswer
  <1>1. setup = "ok" /\ result = Answer
    BY DEF IInv, Reported
  <1>2. ASSUME NEW s \in Streams, s \notin inherits
        PROVE  /\ collected[s].len = LesserOf(written[s], Cap)
               /\ collected[s].over <=> written[s] > Cap
    <2>1. drain[s] = "done"
      BY <1>1, <1>2 DEF IInv, Joined, OutDone, Taking, Streams
    <2>. QED  BY <1>1, <1>2, <2>1, DoneIsWhole DEF IInv, Taken, Taking
  <1>3. ASSUME "out" \notin inherits
        PROVE  /\ result.stdout = LesserOf(written["out"], Cap)
               /\ result.truncated <=> written["out"] > Cap
    <2>1. /\ result.stdout = collected["out"].len
          /\ result.truncated = collected["out"].over
      BY <1>1 DEF Answer
    <2>. QED  BY <1>2, <1>3, <2>1 DEF Streams
  <1>4. ASSUME "err" \notin inherits
        PROVE  /\ result.stderr - result.marker = LesserOf(written["err"], Cap)
               /\ written["err"] > Cap => result.stderrTruncated
               /\ result.stderrTruncated /\ ~timedOut => written["err"] > Cap
    <2>1. result.stderr - result.marker = collected["err"].len
      BY <1>1, AnswerParts
    <2>2. /\ collected["err"].over => result.stderrTruncated
          /\ result.stderrTruncated /\ ~timedOut => collected["err"].over
      BY <1>1 DEF Answer, Marked
    <2>. QED  BY <1>2, <1>4, <2>1, <2>2 DEF Streams
  <1>. QED  BY <1>3, <1>4 DEF FaithfulAnswer

\* Whatever the orders of writes, reads, exits, kills and joins, a stream no
\* descendant inherited is reported in full up to the cap, and flagged
\* exactly when something was cut (ssh.py:142-227).
THEOREM AnswerIsFaithful == Spec => []FaithfulAnswer
  BY IInvHolds, IInvFaithful, PTL

LEMMA IInvInvents == IInv => NothingInvented
  <1>. SUFFICES ASSUME IInv, pc = "returned" PROVE NothingInvented
    BY DEF NothingInvented
  <1>1. setup = "ok" /\ result = Answer
    BY DEF IInv, Reported
  <1>2. /\ result.stdout = collected["out"].len
        /\ result.truncated = collected["out"].over
        /\ result.stderr - result.marker = collected["err"].len
    BY <1>1, AnswerParts DEF Answer
  <1>. QED  BY <1>1, <1>2 DEF NothingInvented, IInv, Taken, Taking, Streams

\* No flag without a cause and no byte that was not written, also on the
\* streams a descendant holds (ssh.py:154-156, 200-201).
THEOREM AnswerInventsNothing == Spec => []NothingInvented
  BY IInvHolds, IInvInvents, PTL

LEMMA IInvMarked == IInv => MarkedOrFlagged
  <1>. SUFFICES ASSUME IInv, pc = "returned" PROVE MarkedOrFlagged
    BY DEF MarkedOrFlagged
  <1>1. result = Answer
    BY DEF IInv, Reported
  <1>2. collected["err"] \in BoxType
    BY AnswerParts
  <1>3. CASE timedOut
    <2>1. \/ Answer.marker = MarkerLen
          \/ Answer.stderrTruncated
      <3>1. /\ Answer.marker = Marked(collected["err"]).len - collected["err"].len
            /\ Answer.stderrTruncated = Marked(collected["err"]).over
        BY <1>3 DEF Answer
      <3>. QED
        BY <1>2, <3>1, MarkerCutOrWhole, SizesAssumption DEF BoxType
    <2>. QED  BY <1>1, <1>3, <2>1 DEF MarkedOrFlagged, Answer
  <1>4. CASE ~timedOut
    <2>1. Answer.marker = 0
      BY <1>2, <1>4 DEF Answer, BoxType
    <2>. QED  BY <1>1, <1>4, <2>1 DEF MarkedOrFlagged, Answer
  <1>. QED  BY <1>3, <1>4

\* A timeout shows as 124 with its marker, or with stderr flagged as cut, for
\* every cap however small (ssh.py:209-215).
THEOREM TimeoutIsMarked == Spec => []MarkedOrFlagged
  BY IInvHolds, IInvMarked, PTL

LEMMA IInvLeaves == IInv => NothingLeftBehind
  BY DEF IInv, NothingLeftBehind, Reported, Stages, Settled, OutDone, Taking,
         OpenByStage, BothClosed, Streams

\* No call answers before its client is collected and its pipes are closed,
\* so calls do not pile up zombies or descriptors (ssh.py:193-206).
THEOREM CallCleansUp == Spec => []NothingLeftBehind
  BY IInvHolds, IInvLeaves, PTL

LEMMA IInvDrains == IInv => DrainDiesOnlyIfHeld /\ UnreadOnlyPastCap /\ BoundedIntake
  <1>. SUFFICES ASSUME IInv
                PROVE  DrainDiesOnlyIfHeld /\ UnreadOnlyPastCap /\ BoundedIntake
    OBVIOUS
  <1>1. DrainDiesOnlyIfHeld
    BY DEF IInv, TypeOK, Setups, DrainDiesOnlyIfHeld, Joined, Stages
  <1>2. UnreadOnlyPastCap
    BY SizesAssumption DEF IInv, TypeOK, UnreadOnlyPastCap, Accounts, Buffered, Ahead, Target
  <1>3. BoundedIntake
    <2>. SUFFICES ASSUME NEW s \in Streams PROVE written[s] <= Cap + BufSize + PipeCap
      BY DEF BoundedIntake
    <2>1. /\ bufPos[s] \in Nat /\ bufEnd[s] \in Nat /\ got[s] \in Nat /\ pipe[s] \in Nat
          /\ bufEnd[s] <= BufSize /\ (bufEnd[s] # 0 => bufPos[s] # 0)
          /\ written[s] = got[s] + Ahead(s) + pipe[s] /\ got[s] <= Target /\ pipe[s] <= PipeCap
      BY DEF IInv, TypeOK, Accounts, Buffered
    <2>2. Ahead(s) <= BufSize - 1 /\ Ahead(s) \in Int
      BY <2>1, SizesAssumption DEF Ahead
    <2>. QED  BY <2>1, <2>2, SizesAssumption DEF Target
  <1>. QED  BY <1>1, <1>2, <1>3

\* What a host can make us accept is bounded by the cap, the reader's buffer and
\* one pipe, whatever it sends (ssh.py:142-153).
THEOREM IntakeIsBounded == Spec => []BoundedIntake
  BY IInvHolds, IInvDrains, PTL

\* The client can be blocked on an unread pipe only once it has overrun the
\* cap (ssh.py:146-150).
THEOREM UnreadIsOverrun == Spec => []UnreadOnlyPastCap
  BY IInvHolds, IInvDrains, PTL

\* A drain thread dies only of a held pipe or of a call that raises
\* (ssh.py:148, 202-206).
THEOREM DrainsSurvive == Spec => []DrainDiesOnlyIfHeld
  BY IInvHolds, IInvDrains, PTL

-----------------------------------------------------------------------------
(* Refinement of SshCall.                                                  *)

LEMMA RefineInit == Init => Call!Init
  BY Zenon DEF Init, Call!Init, Status, Ended, NoResult, Call!NoAnswer, Streams,
               Call!Streams

\* The answer the code composes is an honest one.
LEMMA AnswerIsHonest ==
    ASSUME IInv, setup = "ok", pc = "finish"
    PROVE  Call!Honest(Answer)
  <1>1. /\ collected["out"] \in BoxType /\ collected["err"] \in BoxType
        /\ written["out"] \in Nat /\ written["err"] \in Nat
    BY AnswerParts DEF IInv, TypeOK, Streams
  <1>2. ASSUME NEW s \in Streams
        PROVE  Call!Told(s, collected[s].len, collected[s].over)
    <2>1. CASE s \in inherits
      BY <2>1 DEF Call!Told, Call!Partial, Call!Capped, IInv, TypeOK, Taken,
                  Taking, BoxType
    <2>2. CASE s \notin inherits
      <3>1. drain[s] = "done"
        BY <2>2 DEF IInv, Joined, OutDone, Taking, Streams
      <3>2. /\ collected[s].len = LesserOf(written[s], Cap)
            /\ collected[s].over <=> written[s] > Cap
        BY <2>2, <3>1, DoneIsWhole DEF IInv, Taken, Taking
      <3>. QED  BY <2>2, <3>2 DEF Call!Told, Call!Whole, Call!Capped, LesserOf
    <2>. QED  BY <2>1, <2>2
  <1>3. Call!Told("out", Answer.stdout, Answer.truncated)
    BY <1>2 DEF Answer, Streams
  <1>4. CASE ~timedOut
    <2>1. /\ Answer.marker = 0
          /\ Answer.stderr = collected["err"].len
          /\ Answer.stderrTruncated = collected["err"].over
      BY <1>1, <1>4 DEF Answer, BoxType
    <2>. QED  BY <1>2, <1>3, <2>1 DEF Call!Honest, Call!Plain, Streams
  <1>5. CASE timedOut
    <2>1. /\ Answer.exit = TimeoutExit
          /\ Answer.stderr = Marked(collected["err"]).len
          /\ Answer.marker = Answer.stderr - collected["err"].len
          /\ Answer.stderrTruncated = Marked(collected["err"]).over
      BY <1>5 DEF Answer
    <2>2. Answer.stderr - Answer.marker = collected["err"].len
      BY AnswerParts
    <2>3. \/ /\ Answer.marker = MarkerLen
             /\ Answer.stderrTruncated = collected["err"].over
          \/ /\ Answer.marker < MarkerLen
             /\ Answer.stderr = Cap
             /\ Answer.stderrTruncated
      BY <1>1, <2>1, MarkerCutOrWhole, SizesAssumption DEF BoxType
    <2>4. collected["err"].over \in BOOLEAN
      BY <1>1 DEF BoxType
    <2>. QED
      BY <1>2, <1>3, <2>1, <2>2, <2>3, <2>4 DEF Call!Honest, Call!Late, Streams
  <1>. QED  BY <1>4, <1>5

\* Each step of the threads and processes is a step of the simple call, or
\* changes nothing its caller can tell.
LEMMA RefineStep == IInv /\ [Next]_vars => [Call!Next]_(Call!vars)
  <1>. SUFFICES ASSUME IInv, [Next]_vars PROVE [Call!Next]_(Call!vars)
    OBVIOUS
  <1>. USE DEF Call!vars
  <1>1. ASSUME NEW s \in Streams, ChildWrites(s) \/ HolderWrites(s)
        PROVE  Call!Next
    <2>1. open[s] /\ written' = [written EXCEPT ![s] = @ + 1]
          /\ UNCHANGED <<inherits, pc, result>>
      BY <1>1 DEF ChildWrites, HolderWrites, Put
    <2>2. ~Ended
      BY <2>1 DEF IInv, OpenByStage, BothClosed, Streams, Ended
    <2>3. Call!Say(s)
      BY <2>1, <2>2 DEF Call!Say, Status, Ended
    <2>. QED  BY <2>3 DEF Call!Next, Call!Streams, Streams
  <1>2. CASE \/ ChildExits \/ ChildBrokenPipe \/ HolderReleases
             \/ HolderBrokenPipe
    BY <1>2 DEF ChildExits, ChildBrokenPipe, HolderReleases, HolderBrokenPipe,
                Status, Ended
  <1>3. ASSUME NEW s \in Streams, Drain(s) PROVE UNCHANGED Call!vars
    BY <1>3 DEF Drain, BeginRead, Take, TakeBlocks, FillBuffer, ReadReturns,
           ReadEnough, Status, Ended
  <1>4. CASE Reject
    BY <1>4 DEF Reject, Call!Next, Call!Raise, Status, Ended
  <1>5. CASE \/ Spawn \/ ReadTimeout \/ WaitReturns \/ WaitExpires \/ Kill
             \/ Reap \/ Collect
             \/ Join("out", "join_out", "join_err")
             \/ Join("err", "join_err", "collect")
             \/ Close("out", "close_out", "close_err")
    BY <1>5 DEF Spawn, ReadTimeout, WaitReturns, WaitExpires, Kill, Reap,
                Collect, Join, Close, Status, Ended
  <1>6. CASE CloseLast
    BY <1>6 DEF CloseLast, Close, Call!Next, Call!Raise, Status, Ended
  <1>7. CASE Finish
    <2>1. setup = "ok"
      BY <1>7 DEF IInv, TypeOK, Stages, Setups, Finish
    <2>2. Call!Honest(result')
      BY <1>7, <2>1, AnswerIsHonest DEF Finish
    <2>. QED
      BY <1>7, <2>2 DEF Finish, Call!Next, Call!Return, Status, Ended
  <1>8. CASE UNCHANGED vars
    BY <1>8 DEF vars, Status, Ended
  <1>. QED
    BY <1>1, <1>2, <1>3, <1>4, <1>5, <1>6, <1>7, <1>8 DEF Next, World, Main

\* For every size of cap, read, pipe and marker, run_ssh is the simple call:
\* one honest answer or one exception, and nothing accepted afterwards
\* (ssh.py:159-249).
THEOREM CallImplemented == Spec => ImplementsSshCall
  BY RefineInit, RefineStep, IInvHolds, PTL
     DEF Spec, ImplementsSshCall, Call!Spec
=============================================================================
