--------------------------- MODULE FindingLedger ---------------------------
(***************************************************************************)
(* The finding ledger of src/milton/findings.py: one JSONL file to which   *)
(* every `milton findings create/revise/refute/generate` process appends   *)
(* revisions.                                                              *)
(*                                                                         *)
(* FindingLedger.append takes an exclusive flock, re-reads the whole file, *)
(* validates the revision against it, writes one line, flushes, fsyncs and *)
(* releases the lock.  Readers (records, current, history) take no lock,   *)
(* so a `revise` is built from a read that may be stale by the time the    *)
(* append is validated.                                                    *)
(*                                                                         *)
(* The file is a sequence of lines.  A line is a revision, or Torn: bytes  *)
(* that do not parse.  `tail` says how the file ends.  A flush reaches the *)
(* disk in one write(2) or in several, and a process or the machine can    *)
(* stop between any two steps.                                             *)
(***************************************************************************)
EXTENDS Integers, Sequences, FiniteSets

CONSTANTS
  Procs,     \* concurrent milton processes
  Findings,  \* finding identifiers (stable_id of kind and subject)
  Contents,  \* what a revision can say: summary, details, evidence and manifest
  Times,     \* recorded_at values
  MaxLines,  \* bound: no command starts once the file has this many lines
  Splits,    \* where a short write may end: "partial", "noeol"
  Faults,    \* "crash", "power", "io" (a failed flush or fsync), "retry"
  None,      \* Python's None, and the absent lock holder or revision
  Torn       \* a line that json.loads or from_dict refuses

Grades == {"lead", "candidate", "corroborated", "refuted"}
Ids    == Findings \X Times
Revisions ==
  [finding : Findings, at : Times, grade : Grades, says : Contents, supersedes : Ids \cup {None}]

ASSUME ConstantsAssumption ==
  /\ Times \subseteq Nat
  /\ MaxLines \in Nat
  /\ Splits \subseteq {"partial", "noeol"}
  /\ Faults \subseteq {"crash", "power", "io", "retry"}
  /\ None \notin Procs \cup Revisions \cup Ids \cup {Torn}
  /\ Torn \notin Revisions

VARIABLES
  lines,    \* the lines of the file, oldest first
  tail,     \* "clean": ends with a newline; "partial": half a line follows;
            \* "noeol": the last line lacks only its newline
  lock,     \* the process holding the flock, or None
  pc,       \* what each process is doing
  req,      \* the revision each process is appending
  buffer,   \* what of req[p] is still in the process's write buffer
  acked,    \* revisions whose append returned True
  durable   \* how many lines the last fsync covered

vars == <<lines, tail, lock, pc, req, buffer, acked, durable>>
file == <<lines, tail>>

-----------------------------------------------------------------------------
(* Reading *)

\* revision_id = stable_id("fnr", finding_id, recorded_at): content is not in it.
RevisionId(r) == <<r.finding, r.at>>

\* _read_handle refuses the whole file for one bad line, wherever it is.
Readable ==
  /\ tail # "partial"
  /\ \A i \in 1..Len(lines) : lines[i] # Torn

\* Line i is the latest revision of finding f among the first n lines of s.
IsCurrent(s, n, i, f) ==
  /\ i \in 1..n
  /\ s[i] # Torn
  /\ s[i].finding = f
  /\ \A k \in (i+1)..n : s[k] # Torn => s[k].finding # f

-----------------------------------------------------------------------------
(* Validation *)

Rank == [lead |-> 0, candidate |-> 1, corroborated |-> 2]

\* Mutant: a refuted finding may be graded again.
ReopenedTransition(previous, next) ==
  \/ {previous, next} \cap {"refuted"} # {}
  \/ /\ {previous, next} \subseteq DOMAIN Rank
     /\ Rank[next] >= Rank[previous]

ValidTransition(previous, next) ==
  \/ next = "refuted"
  \/ /\ {previous, next} \subseteq DOMAIN Rank
     /\ Rank[next] >= Rank[previous]

\* Mutant: recorded_at is not compared.
SucceedsAnyTime(current, r) ==
  /\ r.supersedes = RevisionId(current)
  /\ ValidTransition(current.grade, r.grade)

Succeeds(current, r) ==
  /\ r.supersedes = RevisionId(current)
  /\ r.at > current.at
  /\ ValidTransition(current.grade, r.grade)

\* r may follow the first n lines of s: it opens its finding, or it supersedes
\* the finding's current revision.  The code's remaining check, that the kind
\* does not change, cannot fail here: the kind is hashed into the finding id.
Extends(s, n, r) ==
  \/ /\ r.supersedes = None
     /\ \A i \in 1..n : s[i] # Torn => s[i].finding # r.finding
  \/ \E i \in 1..n : IsCurrent(s, n, i, r.finding) /\ Succeeds(s[i], r)

\* A revision id already in the file is a replay (same content, append returns
\* False) or a conflict (RecordConflictError): neither writes, which is why most
\* runs have one content only.
Known(r) == \E i \in 1..Len(lines) :
              lines[i] # Torn /\ RevisionId(lines[i]) = RevisionId(r)

\* Mutant: the line that does not parse is skipped, not refused.
AcceptsDamaged(r) == ~Known(r) /\ Extends(lines, Len(lines), r)

Accepts(r) == Readable /\ ~Known(r) /\ Extends(lines, Len(lines), r)

-----------------------------------------------------------------------------
(* Writing: the bytes of a line reach the end of the file *)

\* Mutant: the ledger is opened for writing instead of appending.
RewriteLine(r) == lines' = <<r>> /\ tail' = "clean"

\* A whole line: its own line, or glued to an unterminated one.
PutLine(r) ==
  /\ tail' = "clean"
  /\ \/ tail = "clean"   /\ lines' = Append(lines, r)
     \/ tail = "noeol"   /\ lines' = [lines EXCEPT ![Len(lines)] = Torn]
     \/ tail = "partial" /\ lines' = Append(lines, Torn)

\* The second half of a line completes the half that is there, if it still is.
PutRest(r) ==
  /\ tail' = "clean"
  /\ lines' = Append(lines, IF tail = "partial" THEN r ELSE Torn)

\* A newline: ends the unterminated line, or leaves a blank one (skipped).
PutEol == tail' = "clean" /\ UNCHANGED lines

Put(part, r) ==
  \/ part = "line" /\ PutLine(r)
  \/ part = "rest" /\ PutRest(r)
  \/ part = "eol"  /\ PutEol

\* Mutant: an exit path that keeps the flock.
KeepLock(p) == UNCHANGED lock /\ p \in Procs

Release(p) == lock' = IF lock = p THEN None ELSE lock

-----------------------------------------------------------------------------
Init ==
  /\ lines = <<>>
  /\ tail = "clean"
  /\ lock = None
  /\ pc = [p \in Procs |-> "idle"]
  /\ req = [p \in Procs |-> None]
  /\ buffer = [p \in Procs |-> "none"]
  /\ acked = {}
  /\ durable = 0

\* A command starts: it has built the revision r and calls append.
Start(p, r) ==
  /\ pc[p] = "idle"
  /\ Len(lines) < MaxLines
  /\ req' = [req EXCEPT ![p] = r]
  /\ pc' = [pc EXCEPT ![p] = "waiting"]
  /\ UNCHANGED <<lines, tail, lock, buffer, acked, durable>>

\* findings create: FindingRevision.create(...), superseding nothing.
Create(p) ==
  \E f \in Findings, t \in Times, g \in Grades, c \in Contents :
    Start(p, [finding |-> f, at |-> t, grade |-> g, says |-> c, supersedes |-> None])

\* findings revise/refute: _current_finding reads the file without the lock (an
\* unreadable file ends the command), then current.revise(...).
Revise(p) ==
  /\ Readable
  /\ \E i \in 1..Len(lines), t \in Times, g \in Grades, c \in Contents :
       /\ IsCurrent(lines, Len(lines), i, lines[i].finding)
       /\ Start(p, [finding |-> lines[i].finding, at |-> t, grade |-> g, says |-> c,
                    supersedes |-> RevisionId(lines[i])])

\* Mutant: the checks run before the lock is taken, not under it.
AdmitUnlocked(p) ==
  /\ pc[p] = "waiting"
  /\ Accepts(req[p])
  /\ lock' = p
  /\ pc' = [pc EXCEPT ![p] = "writing"]
  /\ buffer' = [buffer EXCEPT ![p] = "line"]
  /\ UNCHANGED <<lines, tail, req, acked, durable>>

\* append: flock, re-read, and every check passes; the line is buffered.
Admit(p) ==
  /\ pc[p] = "waiting"
  /\ lock = None
  /\ Accepts(req[p])
  /\ lock' = p
  /\ pc' = [pc EXCEPT ![p] = "writing"]
  /\ buffer' = [buffer EXCEPT ![p] = "line"]
  /\ UNCHANGED <<lines, tail, req, acked, durable>>

\* append: flock, re-read, and the file is unreadable, the revision is a replay
\* or a check raises; the lock is released on the way out.
Refuse(p) ==
  /\ pc[p] = "waiting"
  /\ lock = None
  /\ ~Accepts(req[p])
  /\ pc' = [pc EXCEPT ![p] = "idle"]
  /\ req' = [req EXCEPT ![p] = None]
  /\ UNCHANGED <<lines, tail, lock, buffer, acked, durable>>

\* flush: a write(2) that takes only part of the line.  (Glued to an
\* unterminated line, any part is as unreadable as the whole: see PutLine.)
WritePart(p) ==
  /\ pc[p] = "writing"
  /\ buffer[p] = "line"
  /\ tail = "clean"
  /\ \/ /\ "partial" \in Splits
        /\ tail' = "partial"
        /\ buffer' = [buffer EXCEPT ![p] = "rest"]
        /\ UNCHANGED lines
     \/ /\ "noeol" \in Splits
        /\ tail' = "noeol"
        /\ buffer' = [buffer EXCEPT ![p] = "eol"]
        /\ lines' = Append(lines, req[p])
  /\ UNCHANGED <<lock, pc, req, acked, durable>>

\* Mutant: a short write is taken for a complete one.
FlushShort(p) ==
  /\ pc[p] = "writing"
  /\ IF buffer[p] = "line" THEN PutLine(req[p]) ELSE UNCHANGED file
  /\ buffer' = [buffer EXCEPT ![p] = "none"]
  /\ pc' = [pc EXCEPT ![p] = "flushed"]
  /\ UNCHANGED <<lock, req, acked, durable>>

\* flush: the write(2) that empties the buffer.
Flush(p) ==
  /\ pc[p] = "writing"
  /\ Put(buffer[p], req[p])
  /\ buffer' = [buffer EXCEPT ![p] = "none"]
  /\ pc' = [pc EXCEPT ![p] = "flushed"]
  /\ UNCHANGED <<lock, req, acked, durable>>

\* Mutants: one line too many is taken for durable; nothing is fsynced.
SyncTooFar(p) ==
  /\ pc[p] = "flushed"
  /\ durable' = Len(lines) + 1
  /\ acked' = acked \cup {req[p]}
  /\ Release(p)
  /\ pc' = [pc EXCEPT ![p] = "idle"]
  /\ req' = [req EXCEPT ![p] = None]
  /\ UNCHANGED <<lines, tail, buffer>>

SyncSkipped(p) ==
  /\ pc[p] = "flushed"
  /\ acked' = acked \cup {req[p]}
  /\ Release(p)
  /\ pc' = [pc EXCEPT ![p] = "idle"]
  /\ req' = [req EXCEPT ![p] = None]
  /\ UNCHANGED <<lines, tail, buffer, durable>>

\* os.fsync, return True, unlock, close.
Sync(p) ==
  /\ pc[p] = "flushed"
  /\ durable' = Len(lines)
  /\ acked' = acked \cup {req[p]}
  /\ Release(p)
  /\ pc' = [pc EXCEPT ![p] = "idle"]
  /\ req' = [req EXCEPT ![p] = None]
  /\ UNCHANGED <<lines, tail, buffer>>

\* flush or fsync raises OSError (a full disk): _exclusive_lock's finally
\* releases the lock first, then the file object is closed.
Fail(p) ==
  /\ "io" \in Faults
  /\ pc[p] \in {"writing", "flushed"}
  /\ Release(p)
  /\ pc' = [pc EXCEPT ![p] = "closing"]
  /\ UNCHANGED <<lines, tail, req, buffer, acked, durable>>

\* close() flushes what the failed flush left in the buffer: it fails again (or
\* the buffer was dropped), or, without the lock, it succeeds.
Close(p) ==
  /\ pc[p] = "closing"
  /\ \/ UNCHANGED file
     \/ "retry" \in Faults /\ Put(buffer[p], req[p])
  /\ buffer' = [buffer EXCEPT ![p] = "none"]
  /\ pc' = [pc EXCEPT ![p] = "idle"]
  /\ req' = [req EXCEPT ![p] = None]
  /\ UNCHANGED <<lock, acked, durable>>

\* The process is killed: the kernel drops its lock and its buffer is lost.
Crash(p) ==
  /\ "crash" \in Faults
  /\ pc[p] # "idle"
  /\ Release(p)
  /\ pc' = [pc EXCEPT ![p] = "idle"]
  /\ req' = [req EXCEPT ![p] = None]
  /\ buffer' = [buffer EXCEPT ![p] = "none"]
  /\ UNCHANGED <<lines, tail, acked, durable>>

\* The machine stops: lines after the last fsync may be gone, the first of
\* them may be half there.
PowerLoss ==
  /\ "power" \in Faults
  /\ \E n \in durable..Len(lines) :
       /\ lines' = SubSeq(lines, 1, n)
       /\ \/ tail' = "clean" /\ (n = Len(lines) => tail # "noeol")
          \/ /\ tail' = "partial" /\ "partial" \in Splits
             /\ n < Len(lines) \/ tail = "partial"
          \/ tail' = "noeol" /\ "noeol" \in Splits /\ n > durable
  /\ lock' = None
  /\ pc' = [p \in Procs |-> "idle"]
  /\ req' = [p \in Procs |-> None]
  /\ buffer' = [p \in Procs |-> "none"]
  /\ UNCHANGED <<acked, durable>>

Step(p) ==
  \/ Admit(p) \/ Refuse(p) \/ WritePart(p) \/ Flush(p) \/ Sync(p) \/ Close(p)

Next ==
  \/ \E p \in Procs : Create(p) \/ Revise(p) \/ Step(p) \/ Fail(p) \/ Crash(p)
  \/ PowerLoss

Spec == Init /\ [][Next]_vars

\* A process that is running keeps running: nothing in append waits, except for
\* the lock.  Starting a command, failing and crashing are never obliged.
FairSpec ==
  Spec /\ \A p \in Procs : WF_vars(Flush(p)) /\ WF_vars(Sync(p)) /\ WF_vars(Close(p))

-----------------------------------------------------------------------------
(* Properties *)

\* The state has the types the code gives it.
TypeOK ==
  /\ lines \in Seq(Revisions \cup {Torn})
  /\ tail \in {"clean", "partial", "noeol"}
  /\ lock \in Procs \cup {None}
  /\ pc \in [Procs -> {"idle", "waiting", "writing", "flushed", "closing"}]
  /\ req \in [Procs -> Revisions \cup {None}]
  /\ buffer \in [Procs -> {"none", "line", "rest", "eol"}]
  /\ acked \subseteq Revisions
  /\ durable \in 0..Len(lines)

\* Every revision on file opens its finding or supersedes the revision of that
\* finding just before it (findings.py append: "finding revision must supersede
\* current revision"), however reads, appends, crashes and losses interleave.
IsLinear(s) ==
  \A j \in 1..Len(s) : s[j] # Torn => Extends(s, j - 1, s[j])

LinearHistory == IsLinear(lines)

\* Between any two revisions of one finding, not only neighbours, time moves
\* forward, the grade never drops and a refuted finding stays refuted.
IsLadder(s) ==
  \A i, j \in 1..Len(s) :
    /\ i < j
    /\ s[i] # Torn /\ s[j] # Torn
    /\ s[i].finding = s[j].finding
    => /\ s[i].at < s[j].at
       /\ ValidTransition(s[i].grade, s[j].grade)

GradeLadder == IsLadder(lines)

\* A revision whose append returned True is on a line that parses and that a
\* later crash or power loss cannot take away (append fsyncs before returning).
AckedDurable == \A r \in acked : \E i \in 1..durable : lines[i] = r

\* "Fail-closed on grading" (docs/workplan.md): an append re-reads the file under
\* the lock and raises on a line that does not parse, so that damage left by a
\* crash or a power loss is never buried under later revisions.
FailsClosed == \A i \in 1..Len(lines) : lines[i] = Torn => i = Len(lines)

\* "A JSONL audit log that never updates or deletes finding history": without
\* crashes a revision that was readable stays on file, in its place.
HistoryOnlyGrows ==
  [][/\ Len(lines') >= Len(lines)
     /\ \A i \in 1..Len(lines) : lines'[i] = lines[i]]_vars

\* A reader without the lock can meet half a line; with no failures this is
\* over as soon as the writer's flush is.
UnreadableIsTransient == ~Readable ~> Readable

\* Every process that takes the flock gives it back, on every path of append.
LockReleased == \A p \in Procs : lock = p ~> lock # p
=============================================================================
