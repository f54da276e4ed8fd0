------------------------ MODULE GeneratorBatchProofs ------------------------
(***************************************************************************)
(* Proofs about GeneratorBatch: generators leave the history of the ledger *)
(* as well formed as reviewers do, and a batch does what its counts say,   *)
(* for any processes, candidates and timestamps, through crashes and power *)
(* losses.                                                                 *)
(***************************************************************************)
EXTENDS MCGeneratorBatch, FindingLedgerProofs

BatchTypeOK == batch \in [Procs -> Batches \cup {None}]

\* What a batch saw of a finding is a line of the file.
SeenBy(p) ==
  \A f \in Findings : InBatch(p) /\ batch[p].seen[f] # None =>
    /\ batch[p].seen[f].finding = f
    /\ \E i \in 1..Len(lines) : lines[i] = batch[p].seen[f]

\* What a batch is appending is its candidate, and not what it saw already.
OfferedBy(p) ==
  InBatch(p) /\ pc[p] # "idle" =>
    /\ Remaining(p)
    /\ req[p] = Revision(Candidate(p), Existing(p), batch[p].at)
    /\ Existing(p) # None => ~Same(Existing(p), Candidate(p))

\* BatchTold, of one process.
ToldBy(p) ==
  InBatch(p) =>
    \A k \in 1..(batch[p].next - 1) :
      \E i \in 1..Len(lines) :
        /\ lines[i] # Torn
        /\ lines[i].finding = batch[p].candidates[k].finding
        /\ Same(lines[i], batch[p].candidates[k])

\* The inductive invariant.
BInv ==
  /\ DInv
  /\ BatchTypeOK
  /\ \A p \in Procs : SeenBy(p) /\ OfferedBy(p) /\ ToldBy(p)

-----------------------------------------------------------------------------
(* The ledger under batches. *)

LEMMA BatchTyped ==
  ASSUME BatchTypeOK, NEW p \in Procs, InBatch(p)
  PROVE  /\ batch[p] \in Batches
         /\ batch[p].candidates \in Seq(Candidates)
         /\ batch[p].next \in Nat \ {0}
         /\ batch[p].at \in Times
         /\ batch[p].seen \in [Findings -> Revisions \cup {None}]
<1>1. batch[p] \in Batches
  BY DEF BatchTypeOK, InBatch
<1> QED BY <1>1, ProjectionsAssumption DEF Batches

LEMMA CandidateTyped ==
  ASSUME BatchTypeOK, NEW p \in Procs, InBatch(p), Remaining(p)
  PROVE  Candidate(p) \in Candidates /\ Existing(p) \in Revisions \cup {None}
<1>1. Candidate(p) \in Candidates
  BY BatchTyped DEF Remaining, Candidate
<1>2. Candidate(p).finding \in Findings
  BY <1>1 DEF Candidates
<1> QED BY <1>1, <1>2, BatchTyped DEF Existing

\* A batch offers revisions.
LEMMA OfferedRevision ==
  ASSUME BatchTypeOK, NEW p \in Procs, InBatch(p), Remaining(p)
  PROVE  Revision(Candidate(p), Existing(p), batch[p].at) \in Revisions
<1>1. /\ Candidate(p).finding \in Findings
      /\ Candidate(p).grade \in Grades
      /\ Candidate(p).says \in Contents
  BY CandidateTyped DEF Candidates
<1>2. Existing(p) # None => RevisionId(Existing(p)) \in Ids
  BY CandidateTyped DEF RevisionId, Revisions, Ids
<1> QED BY <1>1, <1>2, BatchTyped DEF Revision, Revisions

\* What a batch reads of the ledger.
LEMMA CurrentOnFile ==
  ASSUME TypeOK
  PROVE  /\ Current \in [Findings -> Revisions \cup {None}]
         /\ \A f \in Findings : Current[f] # None =>
              /\ Current[f].finding = f
              /\ \E i \in 1..Len(lines) : lines[i] = Current[f]
<1> SUFFICES ASSUME NEW f \in Findings
             PROVE  \/ Current[f] = None
                    \/ /\ Current[f] \in Revisions
                       /\ Current[f].finding = f
                       /\ \E i \in 1..Len(lines) : lines[i] = Current[f]
  BY DEF Current
<1> DEFINE P(i) == IsCurrent(lines, Len(lines), i, f)
<1>1. CASE \E i \in 1..Len(lines) : P(i)
  <2> DEFINE c == CHOOSE i \in 1..Len(lines) : P(i)
  <2>1. c \in 1..Len(lines) /\ P(c)
    BY <1>1
  <2>2. Current[f] = lines[c]
    BY <1>1 DEF Current
  <2>3. lines[c] \in Revisions /\ lines[c].finding = f
    BY <2>1 DEF IsCurrent, TypeOK
  <2> QED BY <2>1, <2>2, <2>3
<1>2. CASE ~\E i \in 1..Len(lines) : P(i)
  BY <1>2 DEF Current
<1> QED BY <1>1, <1>2

\* The machine stops, and every batch with it.
Stopped == PowerLoss /\ batch' = [p \in Procs |-> None]

\* What a step of a batch, or beside one, is for the ledger.
LEMMA LedgerStep ==
  ASSUME IInv, BatchTypeOK, [BatchNext]_batchVars
  PROVE  \/ UNCHANGED vars
         \/ \E p \in Procs : \/ \E r \in Revisions : Start(p, r)
                             \/ Step(p) \/ Fail(p) \/ Crash(p)
         \/ Stopped
<1>1. ASSUME NEW p \in Procs, Create(p) \/ Revise(p)
      PROVE  \E r \in Revisions : Start(p, r)
  BY <1>1, BuiltRevision
<1>2. ASSUME NEW p \in Procs, Offer(p)
      PROVE  \E r \in Revisions : Start(p, r)
  BY <1>2, OfferedRevision DEF Offer
<1>3. ASSUME NEW p \in Procs, StartBatch(p) \/ PassOver(p) \/ EndBatch(p)
      PROVE  UNCHANGED vars
  BY <1>3 DEF StartBatch, PassOver, EndBatch
<1> QED BY <1>1, <1>2, <1>3 DEF BatchNext, Step, Refused, Stopped, batchVars

LEMMA LedgerInv ==
  ASSUME IInv, BatchTypeOK, [BatchNext]_batchVars, "retry" \notin Faults
  PROVE  IInv'
<1>1. CASE UNCHANGED vars
  BY <1>1 DEF vars, IInv, TypeOK, HolderOK, BufferOK, AdmissionOK, TailOK,
              LinearHistory, GradeLadder
<1>2. ASSUME NEW p \in Procs, Step(p) PROVE IInv'
  BY <1>2, AdmitInv, RefuseInv, WritePartInv, FlushInv, SyncInv, CloseInv DEF Step
<1> QED BY <1>1, <1>2, LedgerStep, StartInv, FailInv, CrashInv, PowerLossInv DEF Stopped

\* A batch that goes on: the revision is what it has seen of the finding now.
LEMMA Advanced ==
  ASSUME BatchTypeOK, NEW p \in Procs, InBatch(p), Advance(p), req[p] \in Revisions
  PROVE  /\ BatchTypeOK'
         /\ \A q \in Procs : q # p => batch'[q] = batch[q]
         /\ batch'[p].candidates = batch[p].candidates
         /\ batch'[p].next = batch[p].next + 1
         /\ batch'[p].seen = [batch[p].seen EXCEPT ![req[p].finding] = req[p]]
<1> DEFINE n == batch[p].next + 1
           s == [batch[p].seen EXCEPT ![req[p].finding] = req[p]]
           m == [batch[p] EXCEPT !.next = n]
           b == [m EXCEPT !.seen = s]
<1>1. /\ batch[p] \in Batches
      /\ n \in Nat \ {0}
      /\ s \in [Findings -> Revisions \cup {None}]
  <2>1. batch[p] \in Batches
    BY BatchTyped
  <2>2. batch[p].next \in Nat \ {0}
    BY BatchTyped
  <2>3. batch[p].seen \in [Findings -> Revisions \cup {None}]
    BY BatchTyped
  <2>4. n \in Nat \ {0}
    BY <2>2
  <2>5. s \in [Findings -> Revisions \cup {None}]
    BY <2>3
  <2> QED BY <2>1, <2>4, <2>5
<1>2. batch' = [batch EXCEPT ![p] = b]
  <2>1. batch' = [batch EXCEPT ![p] = [batch[p] EXCEPT !.next = n, !.seen = s]]
    BY <1>1 DEF Advance, Batches
  <2> HIDE DEF n, s
  <2>2. [batch[p] EXCEPT !.next = n, !.seen = s] = b
    BY <1>1 DEF Batches
  <2> QED BY <2>1, <2>2
<1> HIDE DEF n, s
<1>3. m \in Batches /\ m.candidates = batch[p].candidates /\ m.next = n
  BY <1>1 DEF Batches
<1> HIDE DEF m
<1>4. b \in Batches /\ b.candidates = m.candidates /\ b.next = m.next /\ b.seen = s
  BY <1>1, <1>3 DEF Batches
<1> HIDE DEF b
<1> QED BY <1>2, <1>3, <1>4 DEF BatchTypeOK, n, s

\* Batches keep their types.
LEMMA BatchTypeStep ==
  ASSUME IInv, BatchTypeOK, [BatchNext]_batchVars
  PROVE  BatchTypeOK'
<1> USE DEF BatchTypeOK
<1>1. ASSUME NEW p \in Procs, StartBatch(p)
      PROVE  BatchTypeOK'
  <2>1. PICK candidates \in Projections, t \in Times :
          batch' = [batch EXCEPT ![p] =
                      [candidates |-> candidates, next |-> 1, at |-> t, seen |-> Current]]
    BY <1>1 DEF StartBatch
  <2>2. Current \in [Findings -> Revisions \cup {None}]
    BY CurrentOnFile DEF IInv
  <2> QED BY <2>1, <2>2 DEF Batches
<1>2. ASSUME NEW p \in Procs, PassOver(p)
      PROVE  BatchTypeOK'
  <2>1. /\ batch[p] \in Batches
        /\ batch' = [batch EXCEPT ![p] = [batch[p] EXCEPT !.next = batch[p].next + 1]]
    BY <1>2, BatchTyped DEF PassOver
  <2> QED BY <2>1 DEF Batches
<1>3. ASSUME NEW p \in Procs, Advance(p), pc[p] # "idle"
      PROVE  BatchTypeOK'
  <2>1. InBatch(p) => req[p] \in Revisions
    BY <1>3 DEF IInv, BufferOK
  <2> QED BY <1>3, <2>1, Advanced DEF Advance
<1>4. ASSUME NEW p \in Procs, Abandon(p) \/ EndBatch(p)
      PROVE  BatchTypeOK'
  BY <1>4 DEF Abandon, EndBatch
<1>5. ASSUME NEW p \in Procs, Refused(p)
      PROVE  BatchTypeOK'
  BY <1>3, <1>4, <1>5 DEF Refused, Refuse
<1>6. ASSUME NEW p \in Procs, Sync(p), Advance(p)
      PROVE  BatchTypeOK'
  BY <1>3, <1>6 DEF Sync
<1>7. CASE UNCHANGED batch
  BY <1>7
<1>8. CASE PowerLoss /\ batch' = [p \in Procs |-> None]
  BY <1>8
<1> QED BY <1>1, <1>2, <1>4, <1>5, <1>6, <1>7, <1>8 DEF BatchNext, Offer, batchVars

\* The history of each finding stays linear, and no pair of its revisions goes
\* back in time or down the ladder, when generators append batches beside
\* reviewers, wherever either is stopped.
THEOREM BatchesKeepHistory ==
  ASSUME "retry" \notin Faults
  PROVE  BatchSpec => [](LinearHistory /\ GradeLadder)
<1>1. BatchInit => IInv /\ BatchTypeOK
  BY InitInv DEF BatchInit, BatchTypeOK
<1>2. IInv /\ BatchTypeOK /\ [BatchNext]_batchVars => IInv' /\ BatchTypeOK'
  BY LedgerInv, BatchTypeStep
<1>3. IInv => LinearHistory /\ GradeLadder
  BY DEF IInv
<1> QED BY <1>1, <1>2, <1>3, PTL DEF BatchSpec

\* Batches and reviewers together implement the histories of findings: the ledger
\* that they share has no other state than its file (ImplementsHistory).
THEOREM BatchesImplementHistory ==
  ASSUME "retry" \notin Faults
  PROVE  BatchSpec => ImplementsHistory
<1>1. BatchInit => IInv /\ BatchTypeOK /\ Promises!Init /\ UnfsyncedTail
  BY InitInv, InitMaps DEF BatchInit, BatchTypeOK, Init, UnfsyncedTail
<1>2. IInv /\ BatchTypeOK /\ UnfsyncedTail /\ [BatchNext]_batchVars
        => IInv' /\ BatchTypeOK' /\ UnfsyncedTail' /\ [Promises!Next]_Promises!vars
  <2> SUFFICES ASSUME IInv, BatchTypeOK, UnfsyncedTail, [BatchNext]_batchVars
               PROVE  /\ IInv' /\ BatchTypeOK' /\ UnfsyncedTail'
                      /\ Promises!Next \/ UNCHANGED Promises!vars
    OBVIOUS
  <2>1. IInv' /\ BatchTypeOK'
    BY LedgerInv, BatchTypeStep
  <2>2. CASE UNCHANGED vars
    BY <2>1, <2>2 DEF vars, UnfsyncedTail, Promises!vars, Histories, Fsynced
  <2> QED BY <2>1, <2>2, LedgerStep, AppendMaps, QuietMaps, PowerLossMaps DEF Stopped
<1> QED BY <1>1, <1>2, PTL DEF BatchSpec, ImplementsHistory, Promises!Spec

\* A revision that was readable stays on file, in its place, if the machine and
\* the processes run on, or if processes are killed or fail to write, but no write
\* stops right before a newline (HistoryOnlyGrows).
THEOREM FileOnlyGrows ==
  ASSUME Quiet, {"power", "retry"} \cap Faults = {}
  PROVE  BatchSpec => HistoryOnlyGrows
<1>1. BatchInit => IInv /\ BatchTypeOK /\ Finishing
  BY InitInv DEF BatchInit, BatchTypeOK, Init, Finishing
<1>2. IInv /\ BatchTypeOK /\ Finishing /\ [BatchNext]_batchVars
        => /\ IInv' /\ BatchTypeOK' /\ Finishing'
           /\ [/\ Len(lines') >= Len(lines)
               /\ \A i \in 1..Len(lines) : lines'[i] = lines[i]]_vars
  <2> SUFFICES ASSUME IInv, BatchTypeOK, Finishing, [BatchNext]_batchVars
               PROVE  /\ IInv' /\ BatchTypeOK' /\ Finishing'
                      /\ \/ /\ Len(lines') >= Len(lines)
                            /\ \A i \in 1..Len(lines) : lines'[i] = lines[i]
                         \/ UNCHANGED vars
    OBVIOUS
  <2>1. IInv' /\ BatchTypeOK'
    BY LedgerInv, BatchTypeStep
  <2>2. ~PowerLoss
    BY DEF PowerLoss
  <2>3. CASE UNCHANGED vars
    BY <2>1, <2>3 DEF vars, Finishing
  <2> QED BY <2>1, <2>2, <2>3, LedgerStep, LinesGrow DEF Stopped
<1> QED BY <1>1, <1>2, PTL DEF BatchSpec, HistoryOnlyGrows

-----------------------------------------------------------------------------
(* What a batch has put behind it. *)

\* The ledger keeps what was fsynced, as it does without batches.
LEMMA LedgerDurable ==
  ASSUME DInv, BatchTypeOK, [BatchNext]_batchVars,
         "retry" \notin Faults, "noeol" \notin Splits
  PROVE  DInv'
<1>1. IInv'
  BY LedgerInv DEF DInv
<1>2. CASE UNCHANGED vars
  BY <1>1, <1>2 DEF vars, DInv, FlushedOK, Terminated, AckedDurable
<1>3. ASSUME NEW p \in Procs, Step(p) PROVE DInv'
  BY <1>1, <1>3, FlushDurable, SyncDurable, OtherDurable DEF Step
<1>4. ASSUME NEW p \in Procs, Fail(p) \/ Crash(p) \/ \E r \in Revisions : Start(p, r)
      PROVE  DInv'
  BY <1>1, <1>4, OtherDurable
<1>5. CASE PowerLoss
  BY <1>1, <1>5, PowerLossDurable
<1> QED BY <1>2, <1>3, <1>4, <1>5, LedgerStep DEF DInv, Stopped

\* Only the machine's stop takes a line away.
LEMMA LinesStay ==
  ASSUME DInv, BatchTypeOK, [BatchNext]_batchVars, ~Stopped,
         "retry" \notin Faults, "noeol" \notin Splits
  PROVE  /\ Len(lines) <= Len(lines')
         /\ \A i \in 1..Len(lines) : lines'[i] = lines[i]
<1> USE DEF DInv, IInv, TypeOK
<1>1. ASSUME NEW p \in Procs, Flush(p)
      PROVE  \/ lines' = lines
             \/ lines' = Append(lines, req[p]) /\ req[p] \in Revisions
  BY <1>1 DEF Flush, Put, PutLine, PutRest, PutEol, AdmissionOK, BufferOK, Terminated
<1>2. ASSUME NEW p \in Procs, WritePart(p)
      PROVE  lines' = lines
  BY <1>2 DEF WritePart
<1>3. ASSUME NEW p \in Procs,
             \/ \E r \in Revisions : Start(p, r)
             \/ Admit(p) \/ Refuse(p) \/ Sync(p) \/ Close(p) \/ Fail(p) \/ Crash(p)
      PROVE  lines' = lines
  BY <1>3 DEF Start, Admit, Refuse, Sync, Close, Fail, Crash, file
<1>4. CASE lines' = lines
  BY <1>4
<1>5. ASSUME NEW r \in Revisions, lines' = Append(lines, r)
      PROVE  /\ Len(lines) <= Len(lines')
             /\ \A i \in 1..Len(lines) : lines'[i] = lines[i]
  BY <1>5
<1> QED BY <1>1, <1>2, <1>3, <1>4, <1>5, LedgerStep DEF Step, vars
\* What a step makes of the batch of q.
LEMMA BatchChange ==
  ASSUME BatchTypeOK, [BatchNext]_batchVars, NEW q \in Procs
  PROVE  \/ batch'[q] = None
         \/ batch'[q] = batch[q]
         \/ StartBatch(q)
         \/ PassOver(q)
         \/ /\ InBatch(q) /\ Advance(q)
            /\ Sync(q) \/ (Refuse(q) /\ \E i \in 1..Len(lines) : lines[i] = req[q])
<1>1. ASSUME NEW p \in Procs, p # q,
             \/ StartBatch(p) \/ PassOver(p) \/ EndBatch(p)
             \/ Advance(p) \/ Abandon(p)
      PROVE  batch'[q] = batch[q]
  BY <1>1 DEF BatchTypeOK, StartBatch, PassOver, EndBatch, Advance, Abandon
<1>2. ASSUME EndBatch(q) \/ Abandon(q)
      PROVE  batch'[q] = None
  BY <1>2 DEF BatchTypeOK, EndBatch, Abandon
<1>3. ASSUME Advance(q), ~InBatch(q)
      PROVE  batch'[q] = batch[q]
  BY <1>3 DEF Advance
<1>4. CASE UNCHANGED batch
  BY <1>4
<1>5. CASE batch' = [p \in Procs |-> None]
  BY <1>5
<1> QED BY <1>1, <1>2, <1>3, <1>4, <1>5 DEF BatchNext, Offer, Refused, batchVars

\* A line that stays keeps what a batch has seen and told.
LEMMA KeptBatch ==
  ASSUME BatchTypeOK, NEW q \in Procs, SeenBy(q), ToldBy(q), batch'[q] = batch[q],
         lines \in Seq(Revisions \cup {Torn}), lines' \in Seq(Revisions \cup {Torn}),
         Len(lines) <= Len(lines'),
         \A i \in 1..Len(lines) : lines'[i] = lines[i]
  PROVE  SeenBy(q)' /\ ToldBy(q)'
<1>1. SeenBy(q)'
  BY DEF SeenBy, InBatch
<1>2. ToldBy(q)'
  <2> SUFFICES ASSUME InBatch(q), NEW k \in 1..(batch[q].next - 1)
               PROVE  \E i \in 1..Len(lines') :
                        /\ lines'[i] # Torn
                        /\ lines'[i].finding = batch[q].candidates[k].finding
                        /\ Same(lines'[i], batch[q].candidates[k])
    BY DEF ToldBy, InBatch
  <2>1. PICK i \in 1..Len(lines) :
          /\ lines[i] # Torn
          /\ lines[i].finding = batch[q].candidates[k].finding
          /\ Same(lines[i], batch[q].candidates[k])
    BY DEF ToldBy
  <2> QED BY <2>1
<1> QED BY <1>1, <1>2

\* The append of a batch that has not returned is still the one it made.
LEMMA KeptOffer ==
  ASSUME IInv, BatchTypeOK, NEW q \in Procs, OfferedBy(q), batch'[q] = batch[q],
         [BatchNext]_batchVars
  PROVE  OfferedBy(q)'
<1> SUFFICES ASSUME InBatch(q), pc'[q] # "idle"
             PROVE  /\ Remaining(q)
                    /\ req'[q] = Revision(Candidate(q), Existing(q), batch[q].at)
                    /\ Existing(q) # None => ~Same(Existing(q), Candidate(q))
  BY DEF OfferedBy, InBatch, Remaining, Candidate, Existing
<1> USE DEF IInv, TypeOK
<1>1. CASE pc[q] # "idle" /\ req'[q] = req[q]
  BY <1>1 DEF OfferedBy
<1>2. CASE Offer(q)
  BY <1>2 DEF Offer, Start
<1>3. ASSUME NEW p \in Procs, NEW r, Start(p, r), p # q
      PROVE  pc'[q] = pc[q] /\ req'[q] = req[q]
  BY <1>3 DEF Start
<1>4. ASSUME NEW p \in Procs, p # q, Step(p) \/ Fail(p) \/ Crash(p)
      PROVE  pc'[q] = pc[q] /\ req'[q] = req[q]
  BY <1>4 DEF Step, Admit, Refuse, WritePart, Flush, Sync, Close, Fail, Crash
<1>5. ASSUME Step(q) \/ Fail(q) \/ Crash(q)
      PROVE  pc[q] # "idle" /\ req'[q] = req[q]
  BY <1>5 DEF Step, Admit, Refuse, WritePart, Flush, Sync, Close, Fail, Crash
<1>6. ASSUME NEW p \in Procs, p # q, Create(p) \/ Revise(p) \/ Offer(p)
      PROVE  pc'[q] = pc[q] /\ req'[q] = req[q]
  BY <1>6, <1>3, BuiltRevision DEF Offer
<1>7. CASE UNCHANGED vars
  BY <1>1, <1>7 DEF vars
<1>8. CASE PowerLoss
  BY <1>8 DEF PowerLoss
<1>9. ASSUME NEW p \in Procs, StartBatch(p) \/ PassOver(p) \/ EndBatch(p)
      PROVE  UNCHANGED vars
  BY <1>9 DEF StartBatch, PassOver, EndBatch
<1> QED BY <1>1, <1>2, <1>4, <1>5, <1>6, <1>7, <1>8, <1>9 DEF BatchNext, Step, Refused, batchVars
\* A batch that starts has seen lines of the file.
LEMMA StartedBatch ==
  ASSUME IInv, BatchTypeOK, NEW q \in Procs, StartBatch(q)
  PROVE  SeenBy(q)' /\ ToldBy(q)' /\ OfferedBy(q)'
<1>1. /\ batch'[q].seen = Current
      /\ batch'[q].next = 1
      /\ UNCHANGED vars
      /\ pc[q] = "idle"
  BY DEF StartBatch, BatchTypeOK
<1>2. SeenBy(q)'
  BY <1>1, CurrentOnFile DEF SeenBy, vars, IInv
<1> QED BY <1>1, <1>2 DEF ToldBy, OfferedBy, vars

\* What a batch has told, and one candidate more.
LEMMA OneMore ==
  ASSUME BatchTypeOK, NEW q \in Procs, InBatch(q), ToldBy(q),
         batch'[q].candidates = batch[q].candidates,
         batch'[q].next = batch[q].next + 1,
         Len(lines) <= Len(lines'),
         \A i \in 1..Len(lines) : lines'[i] = lines[i],
         lines \in Seq(Revisions \cup {Torn}), lines' \in Seq(Revisions \cup {Torn}),
         NEW j \in 1..Len(lines'),
         lines'[j] # Torn, lines'[j].finding = Candidate(q).finding,
         Same(lines'[j], Candidate(q))
  PROVE  ToldBy(q)'
<1> SUFFICES ASSUME NEW k \in 1..batch[q].next
             PROVE  \E i \in 1..Len(lines') :
                      /\ lines'[i] # Torn
                      /\ lines'[i].finding = batch[q].candidates[k].finding
                      /\ Same(lines'[i], batch[q].candidates[k])
  BY BatchTyped DEF ToldBy
<1>1. CASE k = batch[q].next
  BY <1>1 DEF Candidate
<1>2. CASE k # batch[q].next
  <2>1. k \in 1..(batch[q].next - 1)
    BY <1>2, BatchTyped
  <2>2. PICK i \in 1..Len(lines) :
          /\ lines[i] # Torn
          /\ lines[i].finding = batch[q].candidates[k].finding
          /\ Same(lines[i], batch[q].candidates[k])
    BY <2>1 DEF ToldBy
  <2> QED BY <2>2
<1> QED BY <1>1, <1>2

\* A candidate is passed over because it was seen on file.
LEMMA PassedBatch ==
  ASSUME IInv, BatchTypeOK, NEW q \in Procs, PassOver(q), SeenBy(q), ToldBy(q)
  PROVE  SeenBy(q)' /\ ToldBy(q)' /\ OfferedBy(q)'
<1>1. /\ InBatch(q) /\ Remaining(q)
      /\ Existing(q) # None /\ Same(Existing(q), Candidate(q))
      /\ pc[q] = "idle" /\ UNCHANGED <<lines, pc>>
  BY DEF PassOver, vars
<1>2. /\ batch'[q].candidates = batch[q].candidates
      /\ batch'[q].next = batch[q].next + 1
      /\ batch'[q].seen = batch[q].seen
  <2>1. batch[q] \in Batches
    BY <1>1, BatchTyped
  <2>2. batch' = [batch EXCEPT ![q] = [batch[q] EXCEPT !.next = batch[q].next + 1]]
    BY DEF PassOver
  <2> QED BY <2>1, <2>2 DEF BatchTypeOK, Batches
<1>3. Candidate(q).finding \in Findings
  BY <1>1, CandidateTyped DEF Candidates
<1>4. PICK j \in 1..Len(lines) :
        lines[j] = Existing(q) /\ Existing(q).finding = Candidate(q).finding
  BY <1>1, <1>3 DEF SeenBy, Existing
<1>5. lines[j] # Torn
  BY <1>1, <1>4, CandidateTyped, ConstantsAssumption
<1>6. ToldBy(q)'
  <2>1. lines' = lines /\ lines \in Seq(Revisions \cup {Torn})
    BY <1>1 DEF IInv, TypeOK
  <2> QED BY <1>1, <1>2, <1>4, <1>5, <2>1, OneMore
<1>7. SeenBy(q)'
  BY <1>1, <1>2 DEF SeenBy
<1> QED BY <1>1, <1>6, <1>7 DEF OfferedBy

\* An append that has returned has put its revision on file, or found it there.
LEMMA AdvancedBatch ==
  ASSUME DInv, BatchTypeOK, NEW q \in Procs, InBatch(q), Advance(q),
         SeenBy(q), ToldBy(q), OfferedBy(q),
         Sync(q) \/ (Refuse(q) /\ \E i \in 1..Len(lines) : lines[i] = req[q])
  PROVE  SeenBy(q)' /\ ToldBy(q)' /\ OfferedBy(q)'
<1>1. pc[q] # "idle" /\ pc'[q] = "idle" /\ lines' = lines
  BY DEF Sync, Refuse, DInv, IInv, TypeOK
<1>2. /\ req[q] \in Revisions
      /\ lines \in Seq(Revisions \cup {Torn})
      /\ Len(lines) \in Nat
  BY <1>1 DEF DInv, IInv, BufferOK, TypeOK
<1>3. PICK j \in 1..Len(lines) : lines[j] = req[q]
  BY <1>2 DEF Sync, DInv, FlushedOK
<1>4. /\ Remaining(q)
      /\ req[q] = Revision(Candidate(q), Existing(q), batch[q].at)
  BY <1>1 DEF OfferedBy
<1>5. req[q].finding = Candidate(q).finding /\ Same(req[q], Candidate(q))
  BY <1>4 DEF Revision, Same
<1>6. /\ batch'[q].candidates = batch[q].candidates
      /\ batch'[q].next = batch[q].next + 1
      /\ batch'[q].seen = [batch[q].seen EXCEPT ![req[q].finding] = req[q]]
  BY <1>2, Advanced
<1>7. lines[j] # Torn
  BY <1>2, <1>3, ConstantsAssumption
<1>8. ToldBy(q)'
  BY <1>1, <1>2, <1>3, <1>5, <1>6, <1>7, OneMore
<1>9. SeenBy(q)'
  <2>1. batch[q].seen \in [Findings -> Revisions \cup {None}]
    BY BatchTyped
  <2> QED BY <1>1, <1>2, <1>3, <1>6, <2>1 DEF SeenBy
<1> QED BY <1>1, <1>8, <1>9 DEF OfferedBy

\* Every step keeps the invariant: the machine's stop ends every batch.
LEMMA BatchInvStep ==
  ASSUME BInv, [BatchNext]_batchVars, "retry" \notin Faults, "noeol" \notin Splits
  PROVE  BInv'
<1>1. DInv' /\ BatchTypeOK'
  BY LedgerDurable, BatchTypeStep DEF BInv, DInv
<1>2. CASE Stopped
  BY <1>1, <1>2 DEF Stopped, BInv, SeenBy, OfferedBy, ToldBy, InBatch
<1>3. CASE ~Stopped
  <2> SUFFICES ASSUME NEW q \in Procs
               PROVE  SeenBy(q)' /\ OfferedBy(q)' /\ ToldBy(q)'
    BY <1>1 DEF BInv
  <2>1. CASE batch'[q] = None
    BY <2>1 DEF SeenBy, OfferedBy, ToldBy, InBatch
  <2>2. CASE batch'[q] = batch[q]
    <3>1. lines \in Seq(Revisions \cup {Torn}) /\ lines' \in Seq(Revisions \cup {Torn})
      BY <1>1 DEF BInv, DInv, IInv, TypeOK
    <3> QED BY <1>3, <2>2, <3>1, LinesStay, KeptBatch, KeptOffer DEF BInv, DInv
  <2> QED BY <2>1, <2>2, BatchChange, StartedBatch, PassedBatch, AdvancedBatch DEF BInv, DInv
<1> QED BY <1>2, <1>3
LEMMA BatchInitInv == BatchInit => BInv
<1> SUFFICES ASSUME BatchInit PROVE BInv
  OBVIOUS
<1>1. DInv
  BY InitInv DEF BatchInit, Init, DInv, FlushedOK, Terminated, AckedDurable
<1> QED BY <1>1 DEF BatchInit, BInv, BatchTypeOK, SeenBy, OfferedBy, ToldBy, InBatch

\* "Append new/changed leads and replay identical candidates": what a batch has
\* put behind it is on file, whoever else appends and wherever it is stopped.
THEOREM BatchesTell ==
  ASSUME "retry" \notin Faults, "noeol" \notin Splits
  PROVE  BatchSpec => []BatchTold
<1>1. BatchInit => BInv
  BY BatchInitInv
<1>2. BInv /\ [BatchNext]_batchVars => BInv'
  BY BatchInvStep
<1>3. BInv => BatchTold
  BY DEF BInv, ToldBy, BatchTold
<1> QED BY <1>1, <1>2, <1>3, PTL DEF BatchSpec

\* Two lines with one id are one line: time moves on between revisions of one
\* finding.
LEMMA IdsDiffer ==
  ASSUME IInv, NEW i \in 1..Len(lines), NEW j \in 1..Len(lines),
         lines[i] # Torn, lines[j] # Torn, RevisionId(lines[i]) = RevisionId(lines[j])
  PROVE  i = j
<1>1. lines[i].finding = lines[j].finding /\ lines[i].at = lines[j].at
  BY DEF RevisionId
<1>2. lines[i] \in Revisions /\ lines[j] \in Revisions
  BY DEF IInv, TypeOK
<1>3. lines[i].at \in Nat /\ lines[j].at \in Nat
  BY <1>2, ConstantsAssumption DEF Revisions
<1> QED BY <1>1, <1>3 DEF IInv, GradeLadder, IsLadder

\* A batch does not write what the finding's current revision says already: the
\* checks under the lock hold a stale batch to what it saw.
THEOREM BatchesAddNews ==
  ASSUME "retry" \notin Faults, "noeol" \notin Splits
  PROVE  BatchSpec => NoIdleRevision
<1>1. ASSUME BInv, NEW p \in Procs, NEW i \in 1..Len(lines), [BatchNext]_batchVars,
             InBatch(p), lock = p,
             Len(lines') > Len(lines), lines'[Len(lines')] = req[p],
             IsCurrent(lines, Len(lines), i, req[p].finding)
      PROVE  ~Same(lines[i], Candidate(p))
  <2> USE DEF BInv, DInv, IInv, TypeOK
  <2>1. pc[p] \in {"writing", "flushed"}
    BY <1>1 DEF HolderOK
  <2>2. /\ req[p] \in Revisions
        /\ req[p] = Revision(Candidate(p), Existing(p), batch[p].at)
        /\ Existing(p) # None => ~Same(Existing(p), Candidate(p))
        /\ Remaining(p)
    BY <1>1, <2>1 DEF BufferOK, OfferedBy
  <2>3. Extends(lines, Len(lines), req[p])
    <3>1. PICK r \in Procs : Flush(r) \/ WritePart(r)
      <4>1. ASSUME NEW r \in Procs,
                   \/ \E x \in Revisions : Start(r, x)
                   \/ Admit(r) \/ Refuse(r) \/ Sync(r) \/ Close(r) \/ Fail(r) \/ Crash(r)
            PROVE  lines' = lines
        BY <4>1 DEF Start, Admit, Refuse, Sync, Close, Fail, Crash, file
      <4>2. Stopped => Len(lines') <= Len(lines)
        BY DEF Stopped, PowerLoss
      <4>3. UNCHANGED vars => lines' = lines
        BY DEF vars
      <4> QED BY <1>1, <4>1, <4>2, <4>3, LedgerStep DEF Step
    <3>2. pc[r] = "writing" /\ r = p
      BY <1>1, <3>1 DEF Flush, WritePart, HolderOK
    <3>3. buffer[p] \in {"line", "rest"}
      BY <1>1, <3>2 DEF BufferOK, Terminated
    <3> QED BY <1>1, <3>2, <3>3 DEF AdmissionOK
  <2>4. PICK k \in 1..Len(lines) :
          IsCurrent(lines, Len(lines), k, req[p].finding) /\ Succeeds(lines[k], req[p])
    BY <1>1, <2>3 DEF Extends, IsCurrent
  <2>5. k = i
    BY <1>1, <2>4 DEF IsCurrent
  <2>6. lines[i] # Torn /\ lines[i] \in Revisions /\ RevisionId(lines[i]) \in Ids
    BY <1>1 DEF IsCurrent, RevisionId, Revisions, Ids
  <2>7. Existing(p) # None /\ RevisionId(Existing(p)) = RevisionId(lines[i])
    BY <2>2, <2>4, <2>5, <2>6, ConstantsAssumption DEF Succeeds, Revision
  <2>8. Candidate(p).finding \in Findings /\ Existing(p) \in Revisions
    BY <1>1, <2>2, <2>7, CandidateTyped DEF Candidates
  <2>9. PICK j \in 1..Len(lines) : lines[j] = Existing(p)
    BY <1>1, <2>7, <2>8 DEF SeenBy, Existing
  <2>10. lines[j] # Torn
    BY <2>8, <2>9, ConstantsAssumption
  <2>11. j = i
    BY <1>1, <2>6, <2>7, <2>9, <2>10, IdsDiffer
  <2> QED BY <2>2, <2>7, <2>9, <2>11
<1>2. BInv /\ [BatchNext]_batchVars =>
        [\A p \in Procs :
           /\ InBatch(p) /\ lock = p
           /\ Len(lines') > Len(lines) /\ lines'[Len(lines')] = req[p]
           => ~\E i \in 1..Len(lines) :
                 /\ IsCurrent(lines, Len(lines), i, req[p].finding)
                 /\ Same(lines[i], Candidate(p))]_batchVars
  BY <1>1
<1>3. BatchInit => BInv
  BY BatchInitInv
<1>4. BInv /\ [BatchNext]_batchVars => BInv'
  BY BatchInvStep
<1> QED BY <1>2, <1>3, <1>4, PTL DEF BatchSpec, NoIdleRevision
=============================================================================
