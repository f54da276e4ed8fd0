------------------------ MODULE FindingLedgerProofs ------------------------
(***************************************************************************)
(* Proofs about FindingLedger for any number of processes, findings,       *)
(* timestamps and lines.  The histories are linear and graded correctly as *)
(* long as a failed flush is not repeated by close() after the lock has    *)
(* been released ("retry").                                                *)
(***************************************************************************)
EXTENDS MCFindingLedger, SequenceTheorems, FiniteSetTheorems, TLAPS

\* The lock holder is the one process between its checks and its fsync.
HolderOK ==
  \A p \in Procs : lock = p <=> pc[p] \in {"writing", "flushed"}

\* What a process has buffered matches what it is doing.
BufferOK ==
  \A p \in Procs :
    /\ pc[p] # "idle" => req[p] \in Revisions
    /\ pc[p] \in {"idle", "waiting", "flushed"} => buffer[p] = "none"
    /\ pc[p] = "writing" => buffer[p] # "none"

\* The checks a writer passed still hold of the file it is about to extend.
AdmissionOK ==
  \A p \in Procs : pc[p] = "writing" =>
    /\ buffer[p] = "line" => Extends(lines, Len(lines), req[p]) /\ tail # "partial"
    /\ buffer[p] = "rest" => Extends(lines, Len(lines), req[p]) /\ tail = "partial"
    /\ buffer[p] = "eol"  => tail = "noeol"

TailOK == tail = "noeol" => Len(lines) > 0

\* The inductive invariant.
IInv ==
  /\ TypeOK
  /\ HolderOK
  /\ BufferOK
  /\ AdmissionOK
  /\ TailOK
  /\ LinearHistory
  /\ GradeLadder

-----------------------------------------------------------------------------
\* Dropping lines from the end, or replacing the last one by Torn, keeps the
\* history linear and graded: each revision was checked against earlier lines.
LEMMA PrefixLinear ==
  ASSUME NEW s \in Seq(Revisions \cup {Torn}), NEW t \in Seq(Revisions \cup {Torn}),
         Len(t) <= Len(s),
         \A i \in 1..Len(t) : t[i] = s[i] \/ (t[i] = Torn /\ i = Len(t)),
         IsLinear(s), IsLadder(s)
  PROVE  IsLinear(t) /\ IsLadder(t)
<1>1. IsLinear(t)
  <2> SUFFICES ASSUME NEW j \in 1..Len(t), t[j] # Torn
               PROVE  Extends(t, j - 1, t[j])
    BY DEF IsLinear
  <2>1. \A i \in 1..j : t[i] = s[i]
    OBVIOUS
  <2>2. Extends(s, j - 1, s[j])
    BY <2>1 DEF IsLinear
  <2> QED BY <2>1, <2>2 DEF Extends, IsCurrent
<1>2. IsLadder(t)
  <2> SUFFICES ASSUME NEW i \in 1..Len(t), NEW j \in 1..Len(t),
                      i < j, t[i] # Torn, t[j] # Torn, t[i].finding = t[j].finding
               PROVE  t[i].at < t[j].at /\ ValidTransition(t[i].grade, t[j].grade)
    BY DEF IsLadder
  <2>1. t[i] = s[i] /\ t[j] = s[j]
    OBVIOUS
  <2> QED BY <2>1 DEF IsLadder
<1> QED BY <1>1, <1>2

\* Gluing bytes to the last line spoils that line and no other.
LEMMA TornLast ==
  ASSUME NEW s \in Seq(Revisions \cup {Torn}), Len(s) \in 1..Len(s),
         NEW t, t = [s EXCEPT ![Len(s)] = Torn]
  PROVE  /\ t \in Seq(Revisions \cup {Torn})
         /\ Len(t) = Len(s)
         /\ \A i \in 1..Len(t) : t[i] = s[i] \/ (t[i] = Torn /\ i = Len(t))
<1> DEFINE S == Revisions \cup {Torn}
<1>1. s \in Seq(S) /\ Torn \in S
  OBVIOUS
<1> HIDE DEF S
<1>2. [s EXCEPT ![Len(s)] = Torn] \in Seq(S)
  BY <1>1, ExceptSeq
<1>3. Len([s EXCEPT ![Len(s)] = Torn]) = Len(s)
  BY <1>1, ExceptSeq
<1>4. \A j \in 1..Len(s) : [s EXCEPT ![Len(s)] = Torn][j] = IF j = Len(s) THEN Torn ELSE s[j]
  BY <1>1, ExceptSeq
<1> QED BY <1>2, <1>3, <1>4 DEF S

\* The ladder is transitive.
LEMMA LadderTransitive ==
  ASSUME NEW a \in Grades, NEW b \in Grades, NEW c \in Grades,
         ValidTransition(a, b), ValidTransition(b, c)
  PROVE  ValidTransition(a, c)
BY DEF Grades, ValidTransition, Rank

\* A revision added where it may follow keeps the history linear and graded.
LEMMA AppendLinear ==
  ASSUME NEW s \in Seq(Revisions \cup {Torn}), NEW r \in Revisions,
         Extends(s, Len(s), r), IsLinear(s), IsLadder(s)
  PROVE  IsLinear(Append(s, r)) /\ IsLadder(Append(s, r))
<1> DEFINE t == Append(s, r)
<1>1. /\ Len(t) = Len(s) + 1
      /\ Len(s) \in Nat
      /\ t[Len(s) + 1] = r
      /\ \A i \in 1..Len(s) : t[i] = s[i]
  OBVIOUS
<1> HIDE DEF t
<1>2. IsLinear(t)
  <2> SUFFICES ASSUME NEW j \in 1..Len(t), t[j] # Torn
               PROVE  Extends(t, j - 1, t[j])
    BY DEF IsLinear
  <2>1. Extends(s, j - 1, t[j])
    BY <1>1 DEF IsLinear
  <2> QED BY <1>1, <2>1 DEF Extends, IsCurrent
<1>3. IsLadder(t)
  <2> SUFFICES ASSUME NEW i \in 1..Len(s), s[i] # Torn, s[i].finding = r.finding
               PROVE  s[i].at < r.at /\ ValidTransition(s[i].grade, r.grade)
    BY <1>1 DEF IsLadder
  <2>1. PICK k \in 1..Len(s) : IsCurrent(s, Len(s), k, r.finding) /\ Succeeds(s[k], r)
    BY DEF Extends
  <2>2. i <= k /\ s[k] # Torn /\ s[k].finding = r.finding
    BY <2>1 DEF IsCurrent
  <2>3. s[i] \in Revisions /\ s[k] \in Revisions
    BY <2>2
  <2>4. s[k].at < r.at /\ ValidTransition(s[k].grade, r.grade)
    BY <2>1 DEF Succeeds
  <2>5. ASSUME i < k
        PROVE  s[i].at < r.at /\ ValidTransition(s[i].grade, r.grade)
    <3>1. s[i].at < s[k].at /\ ValidTransition(s[i].grade, s[k].grade)
      BY <2>2, <2>5 DEF IsLadder
    <3>2. s[i].at \in Nat /\ s[k].at \in Nat /\ r.at \in Nat
      BY <2>3, ConstantsAssumption DEF Revisions
    <3>3. s[i].grade \in Grades /\ s[k].grade \in Grades /\ r.grade \in Grades
      BY <2>3 DEF Revisions
    <3>4. ValidTransition(s[i].grade, r.grade)
      BY <3>1, <3>3, <2>4, LadderTransitive
    <3> QED BY <3>1, <3>2, <3>4, <2>4
  <2> QED BY <2>2, <2>4, <2>5
<1> QED BY <1>2, <1>3 DEF t
-----------------------------------------------------------------------------
\* Init establishes the invariant.
LEMMA InitInv == Init => IInv
BY ConstantsAssumption
   DEF Init, IInv, TypeOK, HolderOK, BufferOK, AdmissionOK, TailOK,
       LinearHistory, IsLinear, GradeLadder, IsLadder

\* Starting a command touches only the state of its own process.
LEMMA StartInv ==
  ASSUME IInv, NEW p \in Procs, NEW r \in Revisions, Start(p, r)
  PROVE  IInv'
BY DEF Start, IInv, TypeOK, HolderOK, BufferOK, AdmissionOK, TailOK,
       LinearHistory, GradeLadder

\* Both commands build a revision.
LEMMA BuiltRevision ==
  ASSUME IInv, NEW p \in Procs, Create(p) \/ Revise(p)
  PROVE  \E r \in Revisions : Start(p, r)
<1>1. CASE Create(p)
  BY <1>1 DEF Create, Revisions
<1>2. CASE Revise(p)
  <2>1. PICK i \in 1..Len(lines), t \in Times, g \in Grades, c \in Contents :
          /\ lines[i] # Torn
          /\ Start(p, [finding |-> lines[i].finding, at |-> t, grade |-> g, says |-> c,
                       supersedes |-> RevisionId(lines[i])])
    BY <1>2 DEF Revise, Readable
  <2>2. lines[i] \in Revisions
    BY <2>1 DEF IInv, TypeOK
  <2>3. RevisionId(lines[i]) \in Ids /\ lines[i].finding \in Findings
    BY <2>2 DEF RevisionId, Ids, Revisions
  <2> QED BY <2>1, <2>3 DEF Revisions
<1> QED BY <1>1, <1>2

\* Under the lock every check passed, so the line may follow the file.
LEMMA AdmitInv ==
  ASSUME IInv, NEW p \in Procs, Admit(p)
  PROVE  IInv'
<1>1. /\ Extends(lines, Len(lines), req[p])
      /\ tail # "partial"
  BY DEF Admit, Accepts, Readable
<1>2. \A q \in Procs : pc[q] \notin {"writing", "flushed"}
  BY ConstantsAssumption DEF Admit, IInv, HolderOK
<1>3. TypeOK' /\ TailOK' /\ LinearHistory' /\ GradeLadder'
  BY DEF Admit, IInv, TypeOK, TailOK, LinearHistory, GradeLadder
<1>4. HolderOK'
  BY <1>2 DEF Admit, IInv, TypeOK, HolderOK
<1>5. BufferOK'
  BY DEF Admit, IInv, TypeOK, BufferOK
<1>6. AdmissionOK'
  BY <1>1, <1>2 DEF Admit, IInv, TypeOK, AdmissionOK
<1> QED BY <1>3, <1>4, <1>5, <1>6 DEF IInv

\* Leaving append without writing.
LEMMA RefuseInv ==
  ASSUME IInv, NEW p \in Procs, Refuse(p)
  PROVE  IInv'
BY DEF Refuse, IInv, TypeOK, HolderOK, BufferOK, AdmissionOK, TailOK,
       LinearHistory, GradeLadder

\* The one writer adds a line, or part of it.
LEMMA WritePartInv ==
  ASSUME IInv, NEW p \in Procs, WritePart(p)
  PROVE  IInv'
<1> USE DEF IInv, TypeOK
<1>1. /\ req[p] \in Revisions
      /\ Extends(lines, Len(lines), req[p])
      /\ \A q \in Procs : q # p => pc[q] # "writing"
  BY DEF WritePart, BufferOK, AdmissionOK, HolderOK
<1>2. CASE tail' = "partial"
  BY <1>1, <1>2 DEF WritePart, HolderOK, BufferOK, AdmissionOK, TailOK,
                    LinearHistory, GradeLadder
<1>3. CASE tail' = "noeol"
  <2>1. lines' = Append(lines, req[p]) /\ buffer' = [buffer EXCEPT ![p] = "eol"]
    BY <1>3 DEF WritePart
  <2>2. LinearHistory' /\ GradeLadder'
    BY <1>1, <2>1, AppendLinear DEF LinearHistory, GradeLadder
  <2>3. TypeOK' /\ TailOK'
    BY <1>1, <1>3, <2>1 DEF WritePart, TailOK
  <2>4. HolderOK' /\ BufferOK' /\ AdmissionOK'
    BY <1>1, <1>3, <2>1 DEF WritePart, HolderOK, BufferOK, AdmissionOK
  <2> QED BY <2>2, <2>3, <2>4
<1> QED BY <1>2, <1>3 DEF WritePart

\* What the lock holder's flush does to the file.
LEMMA FlushFile ==
  ASSUME IInv, NEW p \in Procs, Flush(p)
  PROVE  /\ lines' \in Seq(Revisions \cup {Torn})
         /\ Len(lines') >= Len(lines)
         /\ tail' = "clean"
         /\ LinearHistory' /\ GradeLadder'
<1> USE DEF IInv, TypeOK
<1>1. req[p] \in Revisions /\ pc[p] = "writing"
  BY DEF Flush, BufferOK
<1>2. CASE (buffer[p] = "line" /\ tail = "clean") \/ buffer[p] = "rest"
  <2>1. lines' = Append(lines, req[p]) /\ Extends(lines, Len(lines), req[p])
    BY <1>1, <1>2 DEF Flush, Put, PutLine, PutRest, AdmissionOK
  <2>2. LinearHistory' /\ GradeLadder'
    BY <1>1, <2>1, AppendLinear DEF LinearHistory, GradeLadder
  <2> QED BY <1>1, <1>2, <2>1, <2>2 DEF Flush, Put, PutLine, PutRest
<1>3. CASE buffer[p] = "line" /\ tail = "noeol"
  <2>1. lines' = [lines EXCEPT ![Len(lines)] = Torn] /\ tail' = "clean"
    BY <1>3 DEF Flush, Put, PutLine
  <2>2. Len(lines) \in 1..Len(lines)
    BY <1>3 DEF TailOK
  <2>3. /\ lines' \in Seq(Revisions \cup {Torn})
        /\ Len(lines') = Len(lines)
        /\ \A i \in 1..Len(lines') : lines'[i] = lines[i] \/ (lines'[i] = Torn /\ i = Len(lines'))
    <3> DEFINE t == [lines EXCEPT ![Len(lines)] = Torn]
    <3>1. lines \in Seq(Revisions \cup {Torn})
      OBVIOUS
    <3>2. /\ t \in Seq(Revisions \cup {Torn})
          /\ Len(t) = Len(lines)
          /\ \A i \in 1..Len(t) : t[i] = lines[i] \/ (t[i] = Torn /\ i = Len(t))
      BY <2>2, <3>1, TornLast
    <3>3. lines' = t
      BY <2>1
    <3> HIDE DEF t
    <3> QED BY <3>2, <3>3
  <2>4. LinearHistory' /\ GradeLadder'
    BY <2>3, PrefixLinear DEF LinearHistory, GradeLadder
  <2>5. Len(lines') >= Len(lines)
    BY <2>2, <2>3
  <2> HIDE DEF IInv, TypeOK
  <2> QED BY <2>1, <2>3, <2>4, <2>5
<1>4. CASE buffer[p] = "eol"
  BY <1>4 DEF Flush, Put, PutEol, LinearHistory, GradeLadder
<1>5. buffer[p] = "line" => tail # "partial"
  BY <1>1 DEF AdmissionOK
<1> QED BY <1>1, <1>2, <1>3, <1>4, <1>5 DEF BufferOK

\* What reaches the file completes an admitted revision or spoils one line.
LEMMA FlushInv ==
  ASSUME IInv, NEW p \in Procs, Flush(p)
  PROVE  IInv'
<1>1. \A q \in Procs : q # p => pc[q] # "writing"
  BY DEF Flush, IInv, HolderOK
<1>2. durable \in 0..Len(lines')
  BY FlushFile DEF IInv, TypeOK
<1>3. TypeOK'
  BY FlushFile, <1>2 DEF Flush, IInv, TypeOK
<1>4. HolderOK' /\ BufferOK'
  BY DEF Flush, IInv, TypeOK, HolderOK, BufferOK
<1>5. AdmissionOK' /\ TailOK'
  BY <1>1, FlushFile DEF Flush, IInv, TypeOK, AdmissionOK, TailOK
<1> QED BY <1>3, <1>4, <1>5, FlushFile DEF IInv

\* After the fsync every line is durable.
LEMMA SyncInv ==
  ASSUME IInv, NEW p \in Procs, Sync(p)
  PROVE  IInv'
<1>1. req[p] \in Revisions /\ lock = p
  BY DEF Sync, IInv, BufferOK, HolderOK
<1> QED BY <1>1, ConstantsAssumption
        DEF Sync, Release, IInv, TypeOK, HolderOK, BufferOK, AdmissionOK, TailOK,
            LinearHistory, GradeLadder

\* A failed write gives the lock back before the file is closed.
LEMMA FailInv ==
  ASSUME IInv, NEW p \in Procs, Fail(p)
  PROVE  IInv'
<1>1. lock = p
  BY DEF Fail, IInv, HolderOK
<1> QED BY <1>1, ConstantsAssumption
        DEF Fail, Release, IInv, TypeOK, HolderOK, BufferOK, AdmissionOK, TailOK,
            LinearHistory, GradeLadder

\* Without "retry" the buffer is dropped.
LEMMA CloseInv ==
  ASSUME IInv, NEW p \in Procs, Close(p), "retry" \notin Faults
  PROVE  IInv'
BY DEF Close, file, IInv, TypeOK, HolderOK, BufferOK, AdmissionOK, TailOK,
       LinearHistory, GradeLadder

\* A killed process leaves the file as it is.
LEMMA CrashInv ==
  ASSUME IInv, NEW p \in Procs, Crash(p)
  PROVE  IInv'
<1>1. TypeOK' /\ TailOK' /\ LinearHistory' /\ GradeLadder'
  BY DEF Crash, Release, IInv, TypeOK, TailOK, LinearHistory, GradeLadder
<1>2. HolderOK' /\ BufferOK' /\ AdmissionOK'
  BY ConstantsAssumption
     DEF Crash, Release, IInv, TypeOK, HolderOK, BufferOK, AdmissionOK
<1> QED BY <1>1, <1>2 DEF IInv

\* A power loss keeps a prefix of the file.
LEMMA PowerLossInv ==
  ASSUME IInv, PowerLoss
  PROVE  IInv'
<1> USE DEF IInv, TypeOK
<1>1. PICK n \in durable..Len(lines) :
        /\ lines' = SubSeq(lines, 1, n)
        /\ tail' \in {"clean", "partial", "noeol"}
        /\ tail' = "noeol" => n > durable
  BY DEF PowerLoss
<1>2. /\ lines' \in Seq(Revisions \cup {Torn})
      /\ Len(lines') = n
      /\ \A i \in 1..n : lines'[i] = lines[i]
  BY <1>1
<1>3. LinearHistory' /\ GradeLadder'
  <2>1. n \in Nat /\ Len(lines') <= Len(lines)
    BY <1>1, <1>2
  <2> QED BY <1>2, <2>1, PrefixLinear DEF LinearHistory, GradeLadder
<1>4. TypeOK' /\ TailOK'
  BY <1>1, <1>2 DEF PowerLoss, TailOK
<1>5. HolderOK' /\ BufferOK' /\ AdmissionOK'
  BY ConstantsAssumption DEF PowerLoss, HolderOK, BufferOK, AdmissionOK
<1> QED BY <1>3, <1>4, <1>5

-----------------------------------------------------------------------------
\* Every reachable state satisfies the invariant, for any processes, faults and
\* short writes, provided close() does not repeat a failed flush.
THEOREM Invariance ==
  ASSUME "retry" \notin Faults
  PROVE  Spec => []IInv
<1>1. Init => IInv
  BY InitInv
<1>2. IInv /\ [Next]_vars => IInv'
  <2> SUFFICES ASSUME IInv, [Next]_vars PROVE IInv'
    OBVIOUS
  <2>1. ASSUME NEW p \in Procs, Create(p) \/ Revise(p) PROVE IInv'
    BY <2>1, BuiltRevision, StartInv
  <2>2. ASSUME NEW p \in Procs, Step(p) PROVE IInv'
    BY <2>2, AdmitInv, RefuseInv, WritePartInv, FlushInv, SyncInv, CloseInv DEF Step
  <2>3. ASSUME NEW p \in Procs, Fail(p) \/ Crash(p) PROVE IInv'
    BY <2>3, FailInv, CrashInv
  <2>4. CASE PowerLoss
    BY <2>4, PowerLossInv
  <2>5. CASE UNCHANGED vars
    BY <2>5 DEF vars, IInv, TypeOK, HolderOK, BufferOK, AdmissionOK, TailOK,
                LinearHistory, GradeLadder
  <2> QED BY <2>1, <2>2, <2>3, <2>4, <2>5 DEF Next
<1> QED BY <1>1, <1>2, PTL DEF Spec

\* The state keeps its types.
THEOREM TypeCorrect ==
  ASSUME "retry" \notin Faults
  PROVE  Spec => []TypeOK
BY Invariance, PTL DEF IInv

\* Each finding's revisions form one chain (append's supersedes check), however
\* many processes revise it from stale reads, and wherever they are stopped.
THEOREM HistoryIsLinear ==
  ASSUME "retry" \notin Faults
  PROVE  Spec => []LinearHistory
BY Invariance, PTL DEF IInv

\* No pair of revisions of a finding goes back in time or down the ladder, and
\* refuted is final (_validate_transition), between any two, not only neighbours.
THEOREM LadderHolds ==
  ASSUME "retry" \notin Faults
  PROVE  Spec => []GradeLadder
BY Invariance, PTL DEF IInv
-----------------------------------------------------------------------------
(* Durability.  It needs a second assumption: no line is ever cut exactly  *)
(* before its newline ("noeol"), since the next append is glued to it.     *)

\* A revision that was flushed is the last line until its writer has fsynced.
FlushedOK ==
  \A p \in Procs : pc[p] = "flushed" =>
    Len(lines) > 0 /\ lines[Len(lines)] = req[p]

Terminated == tail # "noeol" /\ \A p \in Procs : buffer[p] # "eol"

DInv == IInv /\ FlushedOK /\ Terminated /\ AckedDurable

\* Growing the file keeps what is below the fsync mark.
LEMMA DurableGrows ==
  ASSUME AckedDurable, acked' = acked, durable' = durable, TypeOK,
         \A i \in 1..Len(lines) : lines'[i] = lines[i]
  PROVE  AckedDurable'
BY DEF AckedDurable, TypeOK

\* The line just flushed is the last one.
LEMMA FlushDurable ==
  ASSUME DInv, NEW p \in Procs, Flush(p), IInv'
  PROVE  DInv'
<1>1. /\ req[p] \in Revisions
      /\ pc[p] = "writing"
      /\ \A q \in Procs : q # p => pc[q] # "flushed"
      /\ lines \in Seq(Revisions \cup {Torn})
      /\ pc' = [pc EXCEPT ![p] = "flushed"]
      /\ pc \in [Procs -> {"idle", "waiting", "writing", "flushed", "closing"}]
      /\ req' = req
  BY DEF Flush, DInv, IInv, TypeOK, BufferOK, HolderOK
<1>2. lines' = Append(lines, req[p]) /\ tail' = "clean"
  BY <1>1 DEF Flush, Put, PutLine, PutRest, DInv, IInv, TypeOK, AdmissionOK, BufferOK, Terminated
<1>3. /\ Len(lines') = Len(lines) + 1
      /\ Len(lines) \in Nat
      /\ lines'[Len(lines')] = req[p]
      /\ \A i \in 1..Len(lines) : lines'[i] = lines[i]
  BY <1>1, <1>2
<1>4. FlushedOK'
  BY <1>1, <1>3 DEF FlushedOK
<1>5. Terminated'
  BY <1>2 DEF Flush, DInv, IInv, TypeOK, Terminated
<1>6. AckedDurable'
  BY <1>3, DurableGrows DEF Flush, DInv, IInv
<1> QED BY <1>4, <1>5, <1>6 DEF DInv

\* Under the lock nothing was written after the line that is fsynced.
LEMMA SyncDurable ==
  ASSUME DInv, NEW p \in Procs, Sync(p), IInv'
  PROVE  DInv'
<1> USE DEF DInv, IInv, TypeOK
<1>1. lines[Len(lines)] = req[p] /\ Len(lines) \in 1..Len(lines)
  BY DEF Sync, FlushedOK
<1>2. AckedDurable'
  BY <1>1 DEF Sync, AckedDurable
<1>3. FlushedOK' /\ Terminated'
  BY DEF Sync, FlushedOK, Terminated
<1> QED BY <1>2, <1>3

\* A power loss keeps every fsynced line.
LEMMA PowerLossDurable ==
  ASSUME DInv, PowerLoss, IInv', "noeol" \notin Splits
  PROVE  DInv'
<1> USE DEF DInv, IInv, TypeOK
<1>1. PICK n \in durable..Len(lines) : lines' = SubSeq(lines, 1, n)
  BY DEF PowerLoss
<1>2. \A i \in 1..durable : lines'[i] = lines[i]
  BY <1>1
<1>3. AckedDurable'
  BY <1>2 DEF PowerLoss, AckedDurable
<1>4. FlushedOK' /\ Terminated'
  BY DEF PowerLoss, FlushedOK, Terminated
<1> QED BY <1>3, <1>4

\* The steps of one process that leave the fsynced lines alone.
LEMMA OtherDurable ==
  ASSUME DInv, NEW p \in Procs, IInv', "noeol" \notin Splits, "retry" \notin Faults,
         \/ \E r \in Revisions : Start(p, r)
         \/ Admit(p) \/ Refuse(p) \/ WritePart(p) \/ Close(p) \/ Fail(p) \/ Crash(p)
  PROVE  DInv'
<1> USE DEF DInv, IInv, TypeOK
<1>1. UNCHANGED <<lines, acked, durable>>
  BY DEF Start, Admit, Refuse, WritePart, Close, Fail, Crash, file
<1>2. AckedDurable'
  BY <1>1 DEF AckedDurable
<1>3. FlushedOK'
  BY <1>1 DEF FlushedOK, Start, Admit, Refuse, WritePart, Close, Fail, Crash
<1>4. Terminated'
  BY DEF Terminated, Start, Admit, Refuse, WritePart, Close, file, Fail, Crash
<1> QED BY <1>2, <1>3, <1>4

\* An acknowledged revision stays on a line of its own below the fsync mark
\* (append returns True only after os.fsync), through crashes and power losses.
THEOREM AcknowledgedIsDurable ==
  ASSUME "retry" \notin Faults, "noeol" \notin Splits
  PROVE  Spec => []AckedDurable
<1>1. Init => FlushedOK /\ Terminated /\ AckedDurable
  BY DEF Init, FlushedOK, Terminated, AckedDurable
<1>2. DInv /\ IInv' /\ [Next]_vars => DInv'
  <2> SUFFICES ASSUME DInv, IInv', [Next]_vars PROVE DInv'
    OBVIOUS
  <2>1. ASSUME NEW p \in Procs, Create(p) \/ Revise(p) PROVE DInv'
    BY <2>1, BuiltRevision, OtherDurable DEF DInv
  <2>2. ASSUME NEW p \in Procs, Step(p) PROVE DInv'
    BY <2>2, FlushDurable, SyncDurable, OtherDurable DEF Step
  <2>3. ASSUME NEW p \in Procs, Fail(p) \/ Crash(p) PROVE DInv'
    BY <2>3, OtherDurable
  <2>4. CASE PowerLoss
    BY <2>4, PowerLossDurable
  <2>5. CASE UNCHANGED vars
    BY <2>5 DEF vars, DInv, FlushedOK, Terminated, AckedDurable
  <2> QED BY <2>1, <2>2, <2>3, <2>4, <2>5 DEF Next
<1>3. IInv /\ FlushedOK /\ Terminated /\ AckedDurable <=> DInv
  BY DEF DInv
<1>4. DInv => AckedDurable
  BY DEF DInv
<1> QED BY <1>1, <1>2, <1>3, <1>4, Invariance, PTL DEF Spec
-----------------------------------------------------------------------------
(* Damage. *)

\* A process that still has revision bytes to write read a file without damage,
\* and holds the lock since.
WriterRead ==
  \A p \in Procs : pc[p] = "writing" /\ buffer[p] # "eol" =>
    \A i \in 1..Len(lines) : lines[i] # Torn

\* The steps that may change the file, or become the writer.
LEMMA DamageStep ==
  ASSUME IInv, WriterRead, FailsClosed, NEW p \in Procs,
         Admit(p) \/ WritePart(p) \/ Flush(p)
  PROVE  WriterRead' /\ FailsClosed'
<1> USE DEF IInv, TypeOK
<1>1. CASE Admit(p)
  BY <1>1 DEF Admit, Accepts, Readable, WriterRead, FailsClosed
<1>2. ASSUME WritePart(p) \/ Flush(p)
      PROVE  \A q \in Procs : q # p => pc'[q] # "writing"
  BY <1>2 DEF HolderOK, WritePart, Flush
<1>3. CASE WritePart(p)
  <2>1. \/ UNCHANGED lines
        \/ lines' = Append(lines, req[p]) /\ buffer'[p] = "eol"
    BY <1>3 DEF WritePart
  <2>2. pc[p] = "writing" /\ buffer[p] = "line" /\ req[p] \in Revisions
    BY <1>3 DEF WritePart, BufferOK
  <2>3. \A i \in 1..Len(lines) : lines[i] # Torn
    BY <2>2 DEF WriterRead
  <2>4. FailsClosed'
    <3>1. CASE UNCHANGED lines
      BY <2>3, <3>1 DEF FailsClosed
    <3>2. CASE lines' = Append(lines, req[p])
      <4>1. Len(lines') = Len(lines) + 1 /\ \A i \in 1..Len(lines) : lines'[i] = lines[i]
        BY <3>2
      <4> QED BY <2>3, <4>1 DEF FailsClosed
    <3> QED BY <2>1, <3>1, <3>2
  <2>5. WriterRead'
    <3>1. SUFFICES ASSUME NEW q \in Procs, pc'[q] = "writing", buffer'[q] # "eol"
                   PROVE  \A i \in 1..Len(lines') : lines'[i] # Torn
      BY DEF WriterRead
    <3>2. q = p
      BY <1>2, <1>3, <3>1
    <3>3. UNCHANGED lines
      BY <2>1, <3>1, <3>2
    <3> QED BY <2>3, <3>3
  <2> QED BY <2>4, <2>5
<1>4. CASE Flush(p)
  <2>1. pc'[p] = "flushed" /\ pc[p] = "writing"
    BY <1>4 DEF Flush
  <2>2. WriterRead'
    BY <1>2, <1>4, <2>1 DEF WriterRead
  <2>3. CASE buffer[p] = "eol"
    BY <1>4, <2>2, <2>3 DEF Flush, Put, PutEol, FailsClosed
  <2>4. CASE buffer[p] # "eol"
    <3>1. \A i \in 1..Len(lines) : lines[i] # Torn
      BY <2>1, <2>4 DEF WriterRead
    <3>2. \/ \E r \in Revisions \cup {Torn} : lines' = Append(lines, r)
          \/ lines' = [lines EXCEPT ![Len(lines)] = Torn]
      BY <1>4, <2>1, <2>4 DEF Flush, Put, PutLine, PutRest, BufferOK
    <3>3. CASE \E r \in Revisions \cup {Torn} : lines' = Append(lines, r)
      BY <2>2, <3>1, <3>3 DEF FailsClosed
    <3>4. CASE lines' = [lines EXCEPT ![Len(lines)] = Torn]
      <4>1. Len(lines') = Len(lines)
            /\ \A i \in 1..Len(lines) : i # Len(lines) => lines'[i] = lines[i]
        BY <3>4
      <4> QED BY <2>2, <3>1, <4>1 DEF FailsClosed
    <3> QED BY <3>2, <3>3, <3>4
  <2> QED BY <2>2, <2>3, <2>4
<1> QED BY <1>1, <1>3, <1>4

\* Nothing is written after a line that does not parse: append refuses a damaged
\* file, so damage stays at its end, where an operator finds it.
THEOREM DamageStaysLast ==
  ASSUME "retry" \notin Faults
  PROVE  Spec => []FailsClosed
<1>1. Init => WriterRead /\ FailsClosed
  BY DEF Init, WriterRead, FailsClosed
<1>2. IInv /\ WriterRead /\ FailsClosed /\ [Next]_vars => WriterRead' /\ FailsClosed'
  <2> SUFFICES ASSUME IInv, WriterRead, FailsClosed, [Next]_vars
               PROVE  WriterRead' /\ FailsClosed'
    OBVIOUS
  <2> USE DEF IInv, TypeOK
  <2>1. ASSUME NEW p \in Procs, Create(p) \/ Revise(p) PROVE WriterRead' /\ FailsClosed'
    <3>1. PICK r \in Revisions : Start(p, r)
      BY <2>1, BuiltRevision
    <3> QED BY <3>1 DEF Start, WriterRead, FailsClosed
  <2>2. ASSUME NEW p \in Procs, Step(p) PROVE WriterRead' /\ FailsClosed'
    <3>1. CASE Refuse(p) \/ Sync(p) \/ Close(p)
      BY <3>1 DEF Refuse, Sync, Close, file, WriterRead, FailsClosed
    <3> QED BY <2>2, <3>1, DamageStep DEF Step
  <2>3. ASSUME NEW p \in Procs, Fail(p) \/ Crash(p) PROVE WriterRead' /\ FailsClosed'
    BY <2>3 DEF Fail, Crash, WriterRead, FailsClosed
  <2>4. CASE PowerLoss
    <3>1. PICK n \in durable..Len(lines) : lines' = SubSeq(lines, 1, n)
      BY <2>4 DEF PowerLoss
    <3>2. Len(lines') = n /\ n <= Len(lines) /\ \A i \in 1..n : lines'[i] = lines[i]
      BY <3>1
    <3> QED BY <2>4, <3>2 DEF PowerLoss, WriterRead, FailsClosed
  <2>5. CASE UNCHANGED vars
    BY <2>5 DEF vars, WriterRead, FailsClosed
  <2> QED BY <2>1, <2>2, <2>3, <2>4, <2>5 DEF Next
<1> QED BY <1>1, <1>2, Invariance, PTL DEF Spec
-----------------------------------------------------------------------------
(* The ledger implements FindingHistory.                                   *)

LEMMA MineFinite ==
  ASSUME NEW s \in Seq(Revisions \cup {Torn}), NEW f
  PROVE  /\ Mine(s, f) \subseteq 1..Len(s)
         /\ IsFiniteSet(Mine(s, f)) /\ Cardinality(Mine(s, f)) \in Nat
<1>1. Mine(s, f) \subseteq 1..Len(s)
  BY DEF Mine
<1>2. IsFiniteSet(1..Len(s))
  BY FS_Interval
<1> QED BY <1>1, <1>2, FS_Subset, FS_CardinalityType

\* The members of a set of numbers up to one of them.
UpTo(S, i) == {j \in S : j <= i}

LEMMA Counts ==
  ASSUME NEW S \in SUBSET Nat, IsFiniteSet(S)
  PROVE  /\ \A i \in S : Cardinality(UpTo(S, i)) \in 1..Cardinality(S)
         /\ \A i, j \in S : i < j => Cardinality(UpTo(S, i)) < Cardinality(UpTo(S, j))
<1>1. \A i \in Nat : /\ UpTo(S, i) \in SUBSET S /\ IsFiniteSet(UpTo(S, i))
                     /\ Cardinality(UpTo(S, i)) \in Nat
                     /\ Cardinality(UpTo(S, i)) <= Cardinality(S)
  <2> SUFFICES ASSUME NEW i \in Nat
               PROVE  /\ UpTo(S, i) \in SUBSET S /\ IsFiniteSet(UpTo(S, i))
                      /\ Cardinality(UpTo(S, i)) \in Nat
                      /\ Cardinality(UpTo(S, i)) <= Cardinality(S)
    OBVIOUS
  <2>1. UpTo(S, i) \in SUBSET S
    BY DEF UpTo
  <2> QED BY <2>1, FS_Subset, FS_CardinalityType
<1>2. ASSUME NEW i \in S PROVE Cardinality(UpTo(S, i)) # 0
  <2>1. i \in UpTo(S, i) /\ i \in Nat
    BY DEF UpTo
  <2> QED BY <1>1, <2>1, FS_EmptySet
<1>3. ASSUME NEW i \in S, NEW j \in S, i < j
      PROVE  Cardinality(UpTo(S, i)) < Cardinality(UpTo(S, j))
  <2>1. UpTo(S, i) \in SUBSET UpTo(S, j)
    <3>1. i \in Nat /\ j \in Nat /\ \A x \in S : x \in Nat
      OBVIOUS
    <3>2. \A x \in S : x <= i => x <= j
      BY <1>3, <3>1
    <3> QED BY <3>2 DEF UpTo
  <2>2. UpTo(S, i) # UpTo(S, j)
    <3>1. j \in UpTo(S, j) /\ j \notin UpTo(S, i)
      BY <1>3 DEF UpTo
    <3> QED BY <3>1
  <2>3. /\ Cardinality(UpTo(S, i)) <= Cardinality(UpTo(S, j))
        /\ Cardinality(UpTo(S, i)) # Cardinality(UpTo(S, j))
    BY <1>1, <2>1, <2>2, FS_Subset
  <2> QED BY <1>1, <2>3
<1>4. Cardinality(S) \in Nat
  BY FS_CardinalityType
<1> QED BY <1>1, <1>2, <1>3, <1>4

\* A finite set of numbers has an n-th for every n up to its size.
LEMMA NthExists ==
  ASSUME NEW S \in SUBSET Nat, IsFiniteSet(S), NEW n \in 1..Cardinality(S)
  PROVE  Nth(S, n) \in S /\ Cardinality(UpTo(S, Nth(S, n))) = n
<1> DEFINE K == 1..Cardinality(S)
           c == [i \in S |-> Cardinality(UpTo(S, i))]
<1>1. Cardinality(S) \in Nat
  BY FS_CardinalityType
<1>2. c \in Injection(S, K)
  <2>1. c \in [S -> K]
    BY Counts
  <2>2. ASSUME NEW i \in S, NEW j \in S, c[i] = c[j] PROVE i = j
    <3>1. ~(i < j) /\ ~(j < i)
      BY <2>2, Counts
    <3> QED BY <3>1
  <2> QED BY <2>1, <2>2 DEF Injection, IsInjective
<1>3. IsFiniteSet(K) /\ Cardinality(K) = Cardinality(S)
  BY <1>1, FS_Interval
<1> HIDE DEF K
<1>4. c \in Surjection(S, K)
  BY <1>2, <1>3, FS_Injection
<1>5. n \in K
  BY DEF K
<1>6. PICK i \in S : c[i] = n
  BY <1>4, <1>5 DEF Surjection
<1>7. Cardinality({j \in S : j <= i}) = n
  BY <1>6 DEF UpTo
<1> QED BY <1>7 DEF Nth, UpTo

LEMMA NthIs ==
  ASSUME NEW S \in SUBSET Nat, IsFiniteSet(S), NEW i \in S
  PROVE  Nth(S, Cardinality(UpTo(S, i))) = i
<1> DEFINE n == Cardinality(UpTo(S, i))
           k == Nth(S, n)
<1>1. n \in 1..Cardinality(S)
  BY Counts
<1>2. k \in S /\ Cardinality(UpTo(S, k)) = n
  BY <1>1, NthExists
<1>3. i \in Nat /\ k \in Nat
  BY <1>2
<1>4. n \in Nat
  BY <1>1, FS_CardinalityType
<1>5. n = Cardinality(UpTo(S, i))
  OBVIOUS
<1> HIDE DEF n, k
<1>6. ~(i < k) /\ ~(k < i)
  BY <1>2, <1>4, <1>5, Counts
<1> QED BY <1>3, <1>6 DEF k, n

\* What is cut off at the end leaves the n-th where it was.
LEMMA NthPrefix ==
  ASSUME NEW S \in SUBSET Nat, IsFiniteSet(S), NEW m \in Nat, NEW n \in 1..Cardinality(UpTo(S, m))
  PROVE  Nth(UpTo(S, m), n) = Nth(S, n) /\ Nth(S, n) \in UpTo(S, m)
<1> DEFINE M == UpTo(S, m)
           k == Nth(M, n)
<1>1. M \in SUBSET S /\ IsFiniteSet(M) /\ M \in SUBSET Nat
  <2>1. M \in SUBSET S
    BY DEF UpTo
  <2> QED BY <2>1, FS_Subset
<1>2. k \in M /\ Cardinality(UpTo(M, k)) = n
  <2> HIDE DEF M
  <2> QED BY <1>1, NthExists DEF M
<1>3. UpTo(M, k) = UpTo(S, k)
  <2>1. k \in Nat /\ k <= m /\ \A x \in S : x \in Nat
    BY <1>1, <1>2 DEF UpTo
  <2> HIDE DEF k
  <2>2. \A x \in S : x <= k => x <= m
    BY <2>1
  <2> QED BY <2>2 DEF UpTo
<1>4. Nth(S, n) = k
  BY <1>1, <1>2, <1>3, NthIs
<1> QED BY <1>2, <1>4
-----------------------------------------------------------------------------
LEMMA HistoryTyped ==
  ASSUME NEW s \in Seq(Revisions \cup {Torn}), NEW f
  PROVE  /\ RevisionsOf(s, f) \in Seq([at : Times, grade : Grades])
         /\ Len(RevisionsOf(s, f)) = Cardinality(Mine(s, f))
         /\ \A n \in 1..Cardinality(Mine(s, f)) :
              RevisionsOf(s, f)[n] = [at |-> s[Nth(Mine(s, f), n)].at,
                                      grade |-> s[Nth(Mine(s, f), n)].grade]
<1> DEFINE M == Mine(s, f)
           h == RevisionsOf(s, f)
<1>1. M \in SUBSET Nat /\ IsFiniteSet(M) /\ Cardinality(M) \in Nat
  BY MineFinite
<1>2. h = [n \in 1..Cardinality(M) |-> [at |-> s[Nth(M, n)].at, grade |-> s[Nth(M, n)].grade]]
  BY DEF RevisionsOf
<1>3. ASSUME NEW n \in 1..Cardinality(M)
      PROVE  [at |-> s[Nth(M, n)].at, grade |-> s[Nth(M, n)].grade] \in [at : Times, grade : Grades]
  <2>1. Nth(M, n) \in M
    BY <1>1, NthExists
  <2>2. s[Nth(M, n)] \in Revisions
    BY <2>1 DEF Mine
  <2> QED BY <2>2 DEF Revisions
<1>4. h \in [1..Cardinality(M) -> [at : Times, grade : Grades]]
  BY <1>2, <1>3
<1>5. h \in Seq([at : Times, grade : Grades]) /\ Len(h) = Cardinality(M)
  <2> DEFINE N == Cardinality(M)
             X == [at : Times, grade : Grades]
  <2>1. N \in Nat /\ h \in [1..N -> X]
    BY <1>1, <1>4
  <2> HIDE DEF N, X, h
  <2>2. h \in Seq(X) /\ Len(h) = N
    BY <2>1
  <2> QED BY <2>2 DEF N, X
<1> HIDE DEF M, h
<1> QED BY <1>2, <1>5 DEF M, h

\* A file that was cut off holds the beginning of each history.
LEMMA HistoryPrefix ==
  ASSUME NEW s \in Seq(Revisions \cup {Torn}), NEW t \in Seq(Revisions \cup {Torn}), NEW f,
         NEW m \in Nat, Mine(t, f) = UpTo(Mine(s, f), m), \A i \in Mine(t, f) : t[i] = s[i]
  PROVE  /\ Cardinality(Mine(t, f)) \in 0..Cardinality(Mine(s, f))
         /\ RevisionsOf(t, f) = SubSeq(RevisionsOf(s, f), 1, Cardinality(Mine(t, f)))
<1> DEFINE S == Mine(s, f)
           M == Mine(t, f)
<1>1. S \in SUBSET Nat /\ IsFiniteSet(S) /\ Cardinality(S) \in Nat
  BY MineFinite
<1>2. M = UpTo(S, m) /\ Cardinality(M) \in Nat
  BY MineFinite
<1>3. M \in SUBSET S
  BY DEF UpTo
<1> HIDE DEF S, M
<1>4. Cardinality(M) \in 0..Cardinality(S)
  BY <1>1, <1>2, <1>3, FS_Subset
<1>5. \A n \in 1..Cardinality(M) : Nth(M, n) = Nth(S, n) /\ Nth(M, n) \in M
  BY <1>1, <1>2, NthPrefix
<1> DEFINE H == RevisionsOf(s, f)
           h == RevisionsOf(t, f)
<1>6. /\ H \in Seq([at : Times, grade : Grades]) /\ Len(H) = Cardinality(S)
      /\ h \in Seq([at : Times, grade : Grades]) /\ Len(h) = Cardinality(M)
      /\ \A n \in 1..Cardinality(M) : h[n] = [at |-> t[Nth(M, n)].at, grade |-> t[Nth(M, n)].grade]
      /\ \A n \in 1..Cardinality(S) : H[n] = [at |-> s[Nth(S, n)].at, grade |-> s[Nth(S, n)].grade]
  BY HistoryTyped DEF S, M
<1> HIDE DEF H, h
<1>7. \A i \in M : t[i] = s[i]
  BY DEF M
<1>8. ASSUME NEW n \in 1..Cardinality(M) PROVE h[n] = H[n]
  <2>1. n \in 1..Cardinality(S)
    BY <1>1, <1>4
  <2> QED BY <1>5, <1>6, <1>7, <2>1
<1>9. h = SubSeq(H, 1, Cardinality(M))
  BY <1>2, <1>4, <1>6, <1>8
<1> QED BY <1>4, <1>9 DEF h, H, S, M

\* A revision that is added ends the history of its finding, and of no other.
LEMMA HistoryAppends ==
  ASSUME NEW s \in Seq(Revisions \cup {Torn}), NEW r \in Revisions, NEW f
  PROVE  RevisionsOf(Append(s, r), f) =
           IF f = r.finding THEN Append(RevisionsOf(s, f), [at |-> r.at, grade |-> r.grade])
                            ELSE RevisionsOf(s, f)
<1> DEFINE t == Append(s, r)
           S == Mine(s, f)
           T == Mine(t, f)
           L == Len(s) + 1
           H == RevisionsOf(s, f)
           h == RevisionsOf(t, f)
<1>1. /\ t \in Seq(Revisions \cup {Torn}) /\ Len(t) = L /\ t[L] = r /\ L \in Nat
      /\ \A i \in 1..Len(s) : t[i] = s[i]
  OBVIOUS
<1>2. r # Torn
  BY ConstantsAssumption
<1>3. T = S \cup (IF f = r.finding THEN {L} ELSE {})
  <2> HIDE DEF t, L
  <2>1. 1..L = 1..Len(s) \cup {L}
    BY DEF L
  <2> QED BY <1>1, <1>2, <2>1 DEF Mine
<1>4. /\ S \in SUBSET 1..Len(s) /\ IsFiniteSet(S) /\ Cardinality(S) \in Nat
      /\ T \in SUBSET Nat /\ IsFiniteSet(T) /\ Cardinality(T) \in Nat
  <2>1. S \in SUBSET 1..Len(s) /\ IsFiniteSet(S) /\ Cardinality(S) \in Nat
    BY MineFinite
  <2> HIDE DEF S, t
  <2>2. Mine(t, f) \subseteq 1..Len(t) /\ IsFiniteSet(Mine(t, f)) /\ Cardinality(Mine(t, f)) \in Nat
    BY <1>1, MineFinite
  <2> QED BY <1>1, <2>1, <2>2
<1>5. S = UpTo(T, Len(s))
  <2>1. \A i \in S : i <= Len(s)
    BY <1>4
  <2>2. ~(L <= Len(s))
    BY <1>1
  <2> HIDE DEF S, T, L
  <2> QED BY <1>3, <2>1, <2>2 DEF UpTo
<1>6. \A i \in S : s[i] = t[i]
  BY <1>1, <1>4
<1> HIDE DEF t, L
<1>7. H = SubSeq(h, 1, Cardinality(S)) /\ Cardinality(S) \in 0..Cardinality(T)
  BY <1>1, <1>5, <1>6, HistoryPrefix
<1>8. /\ h \in Seq([at : Times, grade : Grades]) /\ Len(h) = Cardinality(T)
      /\ \A n \in 1..Cardinality(T) : h[n] = [at |-> t[Nth(T, n)].at, grade |-> t[Nth(T, n)].grade]
  BY <1>1, HistoryTyped
<1> HIDE DEF S, T, H, h
<1>9. CASE f # r.finding
  <2>1. S = T
    BY <1>3, <1>9
  <2>2. H = h
    BY <1>4, <1>7, <1>8, <2>1
  <2> QED BY <1>9, <2>2 DEF t, H, h
<1>10. CASE f = r.finding
  <2>1. T = S \cup {L} /\ L \notin S
    BY <1>1, <1>3, <1>4, <1>10 DEF L
  <2>2. Cardinality(T) = Cardinality(S) + 1
    BY <1>4, <2>1, FS_AddElement
  <2>3. UpTo(T, L) = T
    <3>1. \A i \in T : i <= L
      BY <1>1, <1>4, <2>1 DEF L
    <3> QED BY <3>1 DEF UpTo
  <2>4. Nth(T, Cardinality(T)) = L
    BY <1>4, <2>1, <2>3, NthIs
  <2>5. h[Cardinality(T)] = [at |-> r.at, grade |-> r.grade]
    BY <1>1, <1>4, <1>8, <2>2, <2>4
  <2>6. h = Append(SubSeq(h, 1, Len(h) - 1), h[Len(h)])
    BY <1>4, <1>8, <2>2
  <2>7. h = Append(H, [at |-> r.at, grade |-> r.grade])
    BY <1>4, <1>7, <1>8, <2>2, <2>5, <2>6
  <2> QED BY <1>10, <2>7 DEF t, H, h
<1> QED BY <1>9, <1>10

\* The current revision is the last of its history.
LEMMA HistoryEnds ==
  ASSUME NEW s \in Seq(Revisions \cup {Torn}), NEW f, NEW i, IsCurrent(s, Len(s), i, f)
  PROVE  /\ Cardinality(Mine(s, f)) > 0
         /\ RevisionsOf(s, f)[Cardinality(Mine(s, f))] = [at |-> s[i].at, grade |-> s[i].grade]
<1> DEFINE S == Mine(s, f)
<1>1. S \in SUBSET Nat /\ IsFiniteSet(S) /\ Cardinality(S) \in Nat /\ S \subseteq 1..Len(s)
  BY MineFinite
<1>2. i \in S /\ i \in Nat
  BY DEF IsCurrent, Mine
<1>3. ASSUME NEW k \in S PROVE k <= i
  <2>1. k \in 1..Len(s) /\ s[k] # Torn /\ s[k].finding = f
    BY DEF Mine
  <2>2. k \notin (i + 1)..Len(s)
    BY <2>1 DEF IsCurrent
  <2> QED BY <1>2, <2>1, <2>2
<1> HIDE DEF S
<1>4. UpTo(S, i) = S
  BY <1>3 DEF UpTo
<1>5. Nth(S, Cardinality(S)) = i
  BY <1>1, <1>2, <1>4, NthIs
<1>6. Cardinality(S) > 0
  BY <1>1, <1>2, FS_EmptySet
<1> QED BY <1>1, <1>5, <1>6, HistoryTyped DEF S
-----------------------------------------------------------------------------
\* What is on file, and below the fsync mark, is what the promise is about.
LEMMA MappedTypes ==
  ASSUME TypeOK, NEW f \in Findings
  PROVE  /\ Histories[f] = RevisionsOf(lines, f) /\ Len(Histories[f]) = Cardinality(Mine(lines, f))
         /\ Fsynced[f] = Cardinality(UpTo(Mine(lines, f), durable))
         /\ Fsynced[f] \in 0..Cardinality(Mine(lines, f))
<1>1. lines \in Seq(Revisions \cup {Torn}) /\ durable \in Nat
  BY DEF TypeOK
<1> DEFINE S == Mine(lines, f)
<1>2. S \in SUBSET Nat /\ IsFiniteSet(S) /\ Cardinality(S) \in Nat
  BY <1>1, MineFinite
<1> HIDE DEF S
<1>3. Fsynced[f] = Cardinality(UpTo(S, durable))
  BY DEF Fsynced, UpTo, S
<1>4. UpTo(S, durable) \in SUBSET S
  BY DEF UpTo
<1>5. Cardinality(UpTo(S, durable)) \in 0..Cardinality(S)
  BY <1>2, <1>4, FS_Subset, FS_CardinalityType
<1>6. Histories[f] = RevisionsOf(lines, f)
  BY DEF Histories
<1> QED BY <1>1, <1>3, <1>5, <1>6, HistoryTyped DEF S

\* Nothing is promised yet, and there is nothing.
LEMMA InitMaps == Init => Promises!Init
<1> SUFFICES ASSUME Init PROVE Promises!Init
  OBVIOUS
<1>1. lines = <<>> /\ durable = 0 /\ TypeOK
  BY InitInv DEF Init, IInv
<1>2. ASSUME NEW f \in Findings PROVE Histories[f] = <<>> /\ Fsynced[f] = 0
  <2>1. Mine(lines, f) = {}
    BY <1>1 DEF Mine
  <2>2. Cardinality(Mine(lines, f)) = 0
    BY <2>1, FS_EmptySet
  <2>3. RevisionsOf(lines, f) \in Seq([at : Times, grade : Grades]) /\ Len(RevisionsOf(lines, f)) = 0
    BY <1>1, <2>2, HistoryTyped DEF TypeOK
  <2> QED BY <1>1, <2>2, <2>3, MappedTypes
<1>3. Histories = [f \in Findings |-> <<>>] /\ Fsynced = [f \in Findings |-> 0]
  BY <1>2 DEF Histories, Fsynced
<1> QED BY <1>3 DEF Promises!Init

\* The marks of the fsync stay while the lines below it do.
LEMMA FsyncedStays ==
  ASSUME TypeOK, TypeOK', durable' = durable,
         \A i \in 1..durable : i <= Len(lines') /\ lines'[i] = lines[i]
  PROVE  Fsynced' = Fsynced
<1>1. ASSUME NEW f \in Findings
      PROVE  {i \in Mine(lines', f) : i <= durable'} = {i \in Mine(lines, f) : i <= durable}
  <2>1. /\ durable \in 0..Len(lines) /\ Len(lines) \in Nat
        /\ durable \in 0..Len(lines') /\ Len(lines') \in Nat
    BY DEF TypeOK
  <2>2. \A i \in 1..Len(lines) : i <= durable => i \in 1..Len(lines') /\ lines'[i] = lines[i]
    BY <2>1
  <2>3. \A i \in 1..Len(lines') : i <= durable => i \in 1..Len(lines) /\ lines'[i] = lines[i]
    BY <2>1
  <2> QED BY <2>2, <2>3 DEF Mine
<1> QED BY <1>1 DEF Fsynced

\* A line added is a revision recorded, which its finding's history admits.
LEMMA RecordMaps ==
  ASSUME TypeOK, TypeOK', NEW r \in Revisions, Extends(lines, Len(lines), r),
         lines' = Append(lines, r), durable' = durable
  PROVE  Promises!Next
<1> DEFINE f == r.finding
           new == [at |-> r.at, grade |-> r.grade]
<1>1. /\ f \in Findings /\ r.at \in Times /\ r.grade \in Grades /\ r.at \in Nat
      /\ lines \in Seq(Revisions \cup {Torn}) /\ durable \in 0..Len(lines) /\ Len(lines) \in Nat
  <2>1. f \in Findings /\ r.at \in Times /\ r.grade \in Grades
    BY DEF Revisions
  <2>2. r.at \in Nat
    BY <2>1, ConstantsAssumption
  <2> QED BY <2>1, <2>2 DEF TypeOK
<1>2. \A i \in 1..durable : i <= Len(lines') /\ lines'[i] = lines[i]
  BY <1>1
<1>3. UNCHANGED Fsynced
  BY <1>2, FsyncedStays
<1>4. \A g \in Findings : RevisionsOf(lines', g) =
        IF g = f THEN Append(RevisionsOf(lines, g), new) ELSE RevisionsOf(lines, g)
  BY <1>1, HistoryAppends
<1>5. Histories' = [Histories EXCEPT ![f] = Append(@, new)]
  <2> HIDE DEF new, f
  <2> QED BY <1>1, <1>4 DEF Histories
<1>6. Promises!MayFollow(Histories[f], r.at, r.grade)
  <2>1. CASE \A i \in 1..Len(lines) : lines[i] # Torn => lines[i].finding # f
    <3>1. Mine(lines, f) = {}
      BY <2>1 DEF Mine
    <3>2. Cardinality(Mine(lines, f)) = 0
      BY <3>1, FS_EmptySet
    <3>3. RevisionsOf(lines, f) \in Seq([at : Times, grade : Grades]) /\ Len(RevisionsOf(lines, f)) = 0
      BY <1>1, <3>2, HistoryTyped
    <3> QED BY <1>1, <3>3, MappedTypes DEF Promises!MayFollow
  <2>2. ASSUME NEW i \in 1..Len(lines), IsCurrent(lines, Len(lines), i, f), Succeeds(lines[i], r)
        PROVE  Promises!MayFollow(Histories[f], r.at, r.grade)
    <3>1. lines[i] \in Revisions
      BY <1>1, <2>2 DEF IsCurrent
    <3>2. Histories[f][Len(Histories[f])] = [at |-> lines[i].at, grade |-> lines[i].grade]
      BY <1>1, <2>2, MappedTypes, HistoryEnds
    <3>3. r.at > lines[i].at /\ ValidTransition(lines[i].grade, r.grade)
      BY <2>2 DEF Succeeds
    <3>4. Promises!Rank[r.grade] >= Promises!Rank[lines[i].grade]
      <4>1. lines[i].grade \in Grades
        BY <3>1 DEF Revisions
      <4> QED BY <1>1, <3>3, <4>1 DEF Promises!Rank, Grades, ValidTransition, Rank
    <3> QED BY <3>2, <3>3, <3>4 DEF Promises!MayFollow
  <2> QED BY <2>1, <2>2 DEF Extends
<1>7. r.grade \in Promises!Grades
  BY <1>1 DEF Promises!Grades, Promises!Rank, Grades
<1>8. Promises!Record(f, r.at, r.grade)
  BY <1>3, <1>5, <1>6 DEF Promises!Record
<1> QED BY <1>1, <1>7, <1>8 DEF Promises!Next

\* Lines lost from the end, none of them fsynced, are revisions lost.
LEMMA LoseMaps ==
  ASSUME TypeOK, TypeOK', durable' = durable, NEW m \in Nat, durable <= m, m <= Len(lines),
         m <= Len(lines'),
         \A i \in 1..m : lines'[i] = lines[i],
         \A i \in 1..Len(lines') : i > m => lines'[i] = Torn
  PROVE  Promises!Next
<1>1. /\ lines \in Seq(Revisions \cup {Torn}) /\ Len(lines) \in Nat
      /\ lines' \in Seq(Revisions \cup {Torn}) /\ Len(lines') \in Nat
      /\ durable \in 0..Len(lines)
  BY DEF TypeOK
<1>2. UNCHANGED Fsynced
  <2>1. \A i \in 1..durable : i <= Len(lines') /\ lines'[i] = lines[i]
    BY <1>1
  <2> QED BY <2>1, FsyncedStays
<1>3. ASSUME NEW f \in Findings
      PROVE  \E n \in Fsynced[f]..Len(Histories[f]) : Histories'[f] = SubSeq(Histories[f], 1, n)
  <2> DEFINE S == Mine(lines, f)
             T == Mine(lines', f)
  <2>1. T = UpTo(S, m) /\ \A i \in T : lines'[i] = lines[i]
    <3>1. \A i \in 1..Len(lines') : lines'[i] # Torn => i \in 1..Len(lines) /\ i <= m /\ lines'[i] = lines[i]
      BY <1>1
    <3>2. \A i \in 1..Len(lines) : i <= m => i \in 1..Len(lines') /\ lines'[i] = lines[i]
      BY <1>1
    <3> QED BY <3>1, <3>2 DEF Mine, UpTo
  <2> HIDE DEF S, T
  <2>2. /\ Cardinality(T) \in 0..Cardinality(S)
        /\ RevisionsOf(lines', f) = SubSeq(RevisionsOf(lines, f), 1, Cardinality(T))
    BY <1>1, <2>1, HistoryPrefix DEF S, T
  <2>3. Fsynced[f] <= Cardinality(T)
    <3>1. UpTo(S, durable) \in SUBSET T
      <4>1. \A i \in S : i <= durable => i <= m
        BY <1>1, MineFinite DEF S
      <4> QED BY <2>1, <4>1 DEF UpTo
    <3>2. IsFiniteSet(T)
      BY <1>1, MineFinite DEF T
    <3> QED BY <3>1, <3>2, MappedTypes, FS_Subset DEF S
  <2>4. Histories'[f] = RevisionsOf(lines', f)
    BY DEF Histories
  <2>5. Fsynced[f] \in Nat
    BY MappedTypes
  <2>6. Len(Histories[f]) = Cardinality(S) /\ Histories[f] = RevisionsOf(lines, f)
    BY MappedTypes DEF S
  <2>7. Cardinality(S) \in Nat
    BY <1>1, MineFinite DEF S
  <2>8. Cardinality(T) \in Fsynced[f]..Len(Histories[f])
    BY <2>2, <2>3, <2>5, <2>6, <2>7
  <2> QED BY <2>2, <2>4, <2>6, <2>8
<1>4. DOMAIN Histories' = Findings
  BY DEF Histories
<1>5. Promises!Lose
  BY <1>2, <1>3, <1>4 DEF Promises!Lose
<1> QED BY <1>5 DEF Promises!Next

\* An fsync promises all that is there.
LEMMA PromiseMaps ==
  ASSUME TypeOK, TypeOK', lines' = lines, durable' = Len(lines)
  PROVE  Promises!Next
<1>1. /\ lines \in Seq(Revisions \cup {Torn}) /\ durable \in 0..Len(lines) /\ Len(lines) \in Nat
  BY DEF TypeOK
<1>2. UNCHANGED Histories
  BY DEF Histories
<1>3. ASSUME NEW f \in Findings
      PROVE  Fsynced'[f] \in Nat /\ Fsynced'[f] \in Fsynced[f]..Len(Histories[f])
  <2> DEFINE S == Mine(lines, f)
  <2>1. S \subseteq 1..Len(lines) /\ Cardinality(S) \in Nat
    BY <1>1, MineFinite
  <2> HIDE DEF S
  <2>2. UpTo(S, Len(lines)) = S
    <3>1. \A i \in S : i <= Len(lines)
      BY <1>1, <2>1
    <3> QED BY <3>1 DEF UpTo
  <2>3. Fsynced'[f] = Cardinality(S)
    BY <2>2 DEF Fsynced, UpTo, S
  <2> QED BY <2>1, <2>3, MappedTypes DEF S
<1>4. Fsynced' \in [Findings -> Nat]
  BY <1>3 DEF Fsynced
<1>5. Promises!Promise
  BY <1>2, <1>3, <1>4 DEF Promises!Promise
<1> QED BY <1>5 DEF Promises!Next
-----------------------------------------------------------------------------
\* A flushed line is terminated, and an unterminated one is not fsynced.
UnfsyncedTail ==
  /\ \A p \in Procs : pc[p] = "flushed" => tail = "clean"
  /\ tail = "noeol" => durable < Len(lines)

\* A step of append is a step of the histories, or none.
LEMMA AppendMaps ==
  ASSUME IInv, IInv', UnfsyncedTail, NEW p \in Procs, Step(p), "retry" \notin Faults
  PROVE  UnfsyncedTail' /\ (Promises!Next \/ UNCHANGED Promises!vars)
<1> USE DEF IInv
<1>1. /\ lines \in Seq(Revisions \cup {Torn}) /\ durable \in 0..Len(lines) /\ Len(lines) \in Nat
      /\ pc \in [Procs -> {"idle", "waiting", "writing", "flushed", "closing"}]
  BY DEF TypeOK
<1>2. UNCHANGED <<lines, durable>> => UNCHANGED Promises!vars
  BY DEF Promises!vars, Histories, Fsynced
<1>3. CASE Admit(p) \/ Refuse(p) \/ Close(p)
  <2>1. UNCHANGED <<lines, tail, durable>>
    BY <1>3 DEF Admit, Refuse, Close, file
  <2>2. UnfsyncedTail'
    BY <1>1, <1>3, <2>1 DEF Admit, Refuse, Close, UnfsyncedTail
  <2> QED BY <1>2, <2>1, <2>2
<1>4. ASSUME WritePart(p) \/ Flush(p)
      PROVE  /\ pc[p] = "writing" /\ req[p] \in Revisions
             /\ \A q \in Procs : pc[q] # "flushed"
             /\ durable' = durable
  BY <1>4 DEF WritePart, Flush, BufferOK, HolderOK
<1>5. CASE WritePart(p)
  <2>1. buffer[p] = "line" /\ tail = "clean" /\ Extends(lines, Len(lines), req[p]) /\ pc' = pc
    BY <1>4, <1>5 DEF WritePart, AdmissionOK
  <2>2. CASE tail' = "partial"
    <3>1. UNCHANGED lines
      BY <1>5, <2>2 DEF WritePart
    <3> QED BY <1>2, <1>4, <1>5, <2>1, <2>2, <3>1 DEF UnfsyncedTail
  <2>3. CASE lines' = Append(lines, req[p])
    <3>1. Promises!Next
      BY <1>4, <1>5, <2>1, <2>3, RecordMaps
    <3>2. durable' < Len(lines')
      BY <1>1, <1>4, <1>5, <2>3
    <3> QED BY <1>4, <1>5, <2>1, <3>1, <3>2 DEF UnfsyncedTail
  <2> QED BY <1>5, <2>2, <2>3 DEF WritePart
<1>6. CASE Flush(p)
  <2>1. tail' = "clean" /\ UnfsyncedTail'
    BY <1>6, FlushFile DEF UnfsyncedTail
  <2>2. CASE (buffer[p] = "line" /\ tail = "clean") \/ buffer[p] = "rest"
    <3>1. lines' = Append(lines, req[p]) /\ Extends(lines, Len(lines), req[p])
      BY <1>4, <1>6, <2>2 DEF Flush, Put, PutLine, PutRest, AdmissionOK
    <3> QED BY <1>4, <1>6, <2>1, <3>1, RecordMaps
  <2>3. CASE buffer[p] = "line" /\ tail = "noeol"
    <3>1. lines' = [lines EXCEPT ![Len(lines)] = Torn] /\ durable < Len(lines)
      BY <1>6, <2>3 DEF Flush, Put, PutLine, UnfsyncedTail
    <3>2. /\ Len(lines') = Len(lines) /\ lines'[Len(lines)] = Torn
          /\ \A i \in 1..(Len(lines) - 1) : lines'[i] = lines[i]
      BY <1>1, <3>1
    <3>3. Promises!Next
      <4> DEFINE m == Len(lines) - 1
      <4>1. m \in Nat /\ durable <= m /\ m <= Len(lines) /\ m <= Len(lines')
        <5>1. durable < Len(lines) /\ Len(lines') = Len(lines)
          BY <3>1, <3>2
        <5> HIDE DEF IInv
        <5> QED BY <1>1, <5>1
      <4>2. \A i \in 1..Len(lines') : i > m => lines'[i] = Torn
        BY <1>1, <3>2
      <4>3. \A i \in 1..m : lines'[i] = lines[i]
        BY <3>2
      <4> HIDE DEF m
      <4> QED BY <1>4, <1>6, <4>1, <4>2, <4>3, LoseMaps
    <3> QED BY <2>1, <3>3
  <2>4. CASE buffer[p] = "eol"
    <3>1. UNCHANGED lines
      BY <1>6, <2>4 DEF Flush, Put, PutEol
    <3> QED BY <1>2, <1>4, <1>6, <2>1, <3>1
  <2>5. buffer[p] = "line" => tail # "partial"
    BY <1>4, <1>6 DEF AdmissionOK
  <2> QED BY <1>4, <1>6, <2>1, <2>2, <2>3, <2>4, <2>5 DEF BufferOK, TypeOK
<1>7. CASE Sync(p)
  <2>1. lines' = lines /\ durable' = Len(lines) /\ tail' = "clean"
    BY <1>7 DEF Sync, UnfsyncedTail
  <2>2. Promises!Next
    BY <2>1, PromiseMaps
  <2> QED BY <2>1, <2>2 DEF UnfsyncedTail
<1> QED BY <1>3, <1>5, <1>6, <1>7 DEF Step

\* A power loss loses the end of histories.
LEMMA PowerLossMaps ==
  ASSUME IInv, IInv', UnfsyncedTail, PowerLoss
  PROVE  UnfsyncedTail' /\ (Promises!Next \/ UNCHANGED Promises!vars)
<1>1. /\ lines \in Seq(Revisions \cup {Torn}) /\ durable \in 0..Len(lines) /\ Len(lines) \in Nat
  BY DEF IInv, TypeOK
<1>2. PICK n \in durable..Len(lines) :
        lines' = SubSeq(lines, 1, n) /\ (tail' = "noeol" => n > durable)
  BY DEF PowerLoss
<1>3. n \in Nat /\ durable <= n /\ n <= Len(lines) /\ Len(lines') = n /\ \A i \in 1..n : lines'[i] = lines[i]
  BY <1>1, <1>2
<1>4. durable' = durable /\ \A p \in Procs : pc'[p] = "idle"
  BY DEF PowerLoss
<1>5. UnfsyncedTail'
  BY <1>1, <1>2, <1>3, <1>4 DEF UnfsyncedTail
<1>6. \A i \in 1..Len(lines') : i > n => lines'[i] = Torn
  BY <1>3
<1>7. Promises!Next
  BY <1>3, <1>4, <1>6, LoseMaps DEF IInv
<1> QED BY <1>5, <1>7

\* What a command does without writing.
LEMMA QuietMaps ==
  ASSUME IInv, UnfsyncedTail, NEW p \in Procs,
         (\E r \in Revisions : Start(p, r)) \/ Fail(p) \/ Crash(p)
  PROVE  UnfsyncedTail' /\ UNCHANGED Promises!vars
<1>1. UNCHANGED <<lines, tail, durable>>
  BY DEF Start, Fail, Crash
<1>2. \A q \in Procs : pc'[q] = "flushed" => pc[q] = "flushed"
  BY DEF Start, Fail, Crash, IInv, TypeOK
<1> QED BY <1>1, <1>2 DEF UnfsyncedTail, Promises!vars, Histories, Fsynced

\* Whatever processes interleave and wherever they stop, the file holds for each
\* finding one history that is extended at its end only, as the ladder allows,
\* and loses nothing of it that was fsynced (ImplementsHistory).
THEOREM LedgerImplementsHistory ==
  ASSUME "retry" \notin Faults
  PROVE  Spec => ImplementsHistory
<1>1. Init => Promises!Init /\ UnfsyncedTail
  BY InitMaps DEF Init, UnfsyncedTail
<1>2. IInv /\ IInv' /\ UnfsyncedTail /\ [Next]_vars
        => UnfsyncedTail' /\ [Promises!Next]_Promises!vars
  <2> SUFFICES ASSUME IInv, IInv', UnfsyncedTail, [Next]_vars
               PROVE  UnfsyncedTail' /\ (Promises!Next \/ UNCHANGED Promises!vars)
    OBVIOUS
  <2>1. ASSUME NEW p \in Procs, Create(p) \/ Revise(p)
        PROVE  UnfsyncedTail' /\ UNCHANGED Promises!vars
    BY <2>1, BuiltRevision, QuietMaps
  <2>2. CASE UNCHANGED vars
    BY <2>2 DEF vars, UnfsyncedTail, Promises!vars, Histories, Fsynced
  <2> QED BY <2>1, <2>2, AppendMaps, QuietMaps, PowerLossMaps DEF Next
<1> QED BY <1>1, <1>2, Invariance, PTL DEF Spec, ImplementsHistory, Promises!Spec

-----------------------------------------------------------------------------
(* Without failures the file only grows.  A line that lacks its newline is   *)
(* the one danger: the next append would be glued to it.                     *)

\* No line is ever cut before its newline, or its writer is still there.
Quiet == "noeol" \in Splits => Faults = {}

Finishing ==
  tail = "noeol" => /\ "noeol" \in Splits
                    /\ \E p \in Procs : pc[p] = "writing" /\ buffer[p] = "eol"

LEMMA LinesGrow ==
  ASSUME IInv, Finishing, NEW p \in Procs, Quiet, "retry" \notin Faults,
         Step(p) \/ (\E r \in Revisions : Start(p, r)) \/ Fail(p) \/ Crash(p)
  PROVE  /\ Finishing'
         /\ Len(lines') >= Len(lines) /\ \A i \in 1..Len(lines) : lines'[i] = lines[i]
<1> USE DEF IInv, TypeOK
<1>1. lines \in Seq(Revisions \cup {Torn}) /\ Len(lines) \in Nat
  OBVIOUS
<1>2. pc[p] = "writing" => \A q \in Procs : pc[q] = "writing" => q = p
  BY DEF HolderOK
<1>3. CASE WritePart(p)
  <2>1. Finishing'
    BY <1>3 DEF WritePart, Finishing
  <2>2. lines' = lines \/ lines' = Append(lines, req[p])
    BY <1>3 DEF WritePart
  <2> QED BY <1>1, <2>1, <2>2
<1>4. CASE Flush(p)
  <2>1. tail' = "clean" /\ Finishing'
    BY <1>4, FlushFile DEF Finishing
  <2>2. buffer[p] = "line" => tail # "noeol"
    BY <1>2, <1>4 DEF Flush, Finishing
  <2>3. lines' = lines \/ lines' = Append(lines, req[p]) \/ lines' = Append(lines, Torn)
    BY <1>4, <2>2 DEF Flush, Put, PutLine, PutRest, PutEol, file
  <2> QED BY <1>1, <2>1, <2>3
<1>5. CASE Admit(p) \/ Refuse(p) \/ Sync(p) \/ Close(p) \/ \E r \in Revisions : Start(p, r)
  <2>1. UNCHANGED <<lines, tail>>
    BY <1>5 DEF Admit, Refuse, Sync, Close, Start, file
  <2>2. \A q \in Procs : pc[q] = "writing" /\ buffer[q] = "eol" => pc'[q] = "writing" /\ buffer'[q] = "eol"
    BY <1>5 DEF Admit, Refuse, Sync, Close, Start
  <2> QED BY <1>1, <2>1, <2>2 DEF Finishing
<1>6. CASE Fail(p) \/ Crash(p)
  <2>1. UNCHANGED <<lines, tail>> /\ Faults # {}
    BY <1>6 DEF Fail, Crash
  <2> QED BY <1>1, <2>1 DEF Finishing, Quiet
<1> QED BY <1>3, <1>4, <1>5, <1>6 DEF Step
=============================================================================
