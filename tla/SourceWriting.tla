---------------------------- MODULE SourceWriting ----------------------------
(***************************************************************************)
(* How the native sources are written, adapter by adapter: what identifies *)
(* an entry in the sources of an adapter (<Adapter>Kept), and how a source *)
(* goes on (<Adapter>GoesOn, of what it held before and holds later).      *)
(* Files of lines are appended to, in the order of time; what is in a      *)
(* database or in a repository stays as it is, once it is there.  This is  *)
(* what the adapters take for granted of tools that are not in this        *)
(* repository; where a tool does otherwise, a later read can be refused.   *)
(***************************************************************************)
EXTENDS CodexRollout, ClaudeTranscript, GeorgeInbox, FabJobs, SommLedger, SessionStores,
        ReceiptSources

\* Lines are only added, at the end.
Continues(before, after) ==
  /\ DOMAIN before \subseteq DOMAIN after
  /\ \A i \in DOMAIN before : after[i] = before[i]

Identified(rows) == \A x, y \in rows : x.id = y.id => x = y
Dated(rows) == \A x \in rows : x.at \in Nat
LinesOf(sources) == UNION {ToSet(s.lines) : s \in sources}

-----------------------------------------------------------------------------
(* Entries, receipts and commits.                                          *)

GeorgeKept(sources) == LET entries == LinesOf(sources) \ {None} IN Identified(entries) /\ Dated(entries)
ChipKept(sources) == Identified(LinesOf(sources)) /\ Dated(LinesOf(sources))
BarnowlKept(sources) ==
  LET lines == {l \in LinesOf(sources) : IsResearchOutcome(l)} IN Identified(lines) /\ Dated(lines)
LinesGoOn(s, t) == Continues(s.lines, t.lines)

SpindleKept(sources) ==
  LET receipts == {s.receipt : s \in sources} IN Identified(receipts) /\ Dated(receipts)
SpindleGoesOn(s, t) == t.receipt = s.receipt

\* The refs of a commit are those it had when it was first read.
GitKept(sources) ==
  /\ \A s, t \in sources : \A c \in s.commits, d \in t.commits :
       s.repo = t.repo /\ c.sha = d.sha => c = d
  /\ \A s \in sources : \A c \in s.commits : c.committed \in Nat
GitGoesOn(s, t) == t.repo = s.repo /\ s.commits \subseteq t.commits

\* An item is at one place of its root.
MemoryKept(sources) ==
  /\ \A s, t \in sources : \A i \in s.items, j \in t.items :
       s.root = t.root /\ i.locator = j.locator => i = j
  /\ \A s \in sources : Dated(ToSet(s.log))
MemoryGoesOn(s, t) == t.root = s.root /\ s.items \subseteq t.items /\ Continues(s.log, t.log)

-----------------------------------------------------------------------------
(* Databases, read when their rows are final.                              *)

SessionRows(sources) == UNION {s.sessions : s \in sources}
SessionsGoOn(s, t) == s.sessions \subseteq t.sessions

HermesKept(sources) ==
  /\ Identified(SessionRows(sources)) /\ Dated(SessionRows(sources))
  /\ \A s \in SessionRows(sources) :
       /\ Identified(ToSet(s.messages))
       /\ \A i, j \in DOMAIN s.messages :
            s.messages[i].calls \cap s.messages[j].calls # {} => i = j

PartsOf(s) == UNION {m.parts : m \in ToSet(s.messages)}
OpenCodeKept(sources) ==
  /\ Identified(SessionRows(sources)) /\ Dated(SessionRows(sources))
  /\ \A s \in SessionRows(sources) :
       /\ Identified(ToSet(s.messages)) /\ Identified(PartsOf(s))
       /\ \A p, q \in PartsOf(s) : p.type = "tool" /\ q.type = "tool" /\ p.call = q.call => p = q

EvidenceTables ==
  {"eval_results", "eval_receipts", "campaigns", "campaign_events", "decisions", "recommendations",
   "call_updates"}
RowsOf(tables, table) == IF table \in DOMAIN tables THEN tables[table] ELSE {}

\* Ids are of one row of one table, and a session is in one database; a window
\* holds all of a session that it holds any of.
SommKept(sources, bounds) ==
  /\ \A s \in sources : \A table \in DOMAIN s.tables : Dated(s.tables[table])
  /\ \A s, t \in sources : \A a, b \in EvidenceTables :
       \A x \in RowsOf(s.tables, a), y \in RowsOf(t.tables, b) : x.id = y.id => a = b /\ x = y
  /\ \A s, t \in sources : \A x \in RowsOf(s.tables, "calls"), y \in RowsOf(t.tables, "calls") :
       /\ x.id = y.id => x = y
       /\ x.session = y.session /\ x.session # None =>
            s = t /\ \A since \in bounds : x.at >= since <=> y.at >= since

\* Rows come in the order of time.
SommGoesOn(s, t) ==
  /\ \A table \in DOMAIN s.tables : s.tables[table] \subseteq RowsOf(t.tables, table)
  /\ \A x \in RowsOf(s.tables, "calls") :
     \A y \in RowsOf(t.tables, "calls") \ RowsOf(s.tables, "calls") : x.at <= y.at

-----------------------------------------------------------------------------
(* Fab.                                                                    *)

JobsOf(root) == {line.job : line \in ToSet(root.ledger)} \cup {r.job : r \in root.receipts}

\* The step that a line of the ledger tells of, as a receipt would.
LedgerStep(line) ==
  CASE line.type = "submitted" -> <<line.job, "job_submitted", None>>
    [] line.type \in {"attempt_finished", "attempt_finished_post_cancel"} ->
         <<line.job, "attempt_finished", line.index>>
    [] OTHER -> <<line.job, "job_outcome", None>>

LedgerNames(root) ==
  {<<"attempt", line.job, line.index, line.type>> : line \in ToSet(root.ledger)}
    \cup {<<"terminal", root.ledger[n].job, n>> : n \in DOMAIN root.ledger}

\* What identifies the step that a receipt is of.
ReceiptName(r) ==
  CASE r.kind = "attempt_finished" -> r.attempt
    [] r.kind \in {"job_submitted", "job_outcome", "delivery_outcome"} -> <<r.kind, r.job>>
    [] OTHER -> r.id

\* A job is of one root; it is submitted once and an attempt ends once, and a step
\* has one receipt.
FabKept(sources) ==
  LET receipts == UNION {s.receipts : s \in sources}
  IN  /\ \A s, t \in sources : JobsOf(s) \cap JobsOf(t) # {} => s = t
      /\ \A s \in sources : \A x, y \in ToSet(s.ledger) :
           /\ x.type = y.type /\ LedgerStep(x) = LedgerStep(y) /\ x.type # "status_changed" => x = y
           /\ x.at \in Nat
      /\ Identified(receipts) /\ Dated(receipts)
      /\ \A q, r \in receipts :
           ReceiptName(q) = ReceiptName(r) /\ (q.kind = "attempt_finished" => q.attempt # None) => q = r
      /\ \A s \in sources, r \in receipts : ReceiptName(r) \notin LedgerNames(s)
      /\ \A r \in receipts : r.kind = "attempt_finished" => r.index # None

\* A step has its receipt when the ledger tells of it, or never has one (docs/adapters.md:
\* legacy jobs may predate receipts).
FabGoesOn(s, t) ==
  /\ Continues(s.ledger, t.ledger)
  /\ s.receipts \subseteq t.receipts
  /\ \A line \in ToSet(s.ledger) :
       LedgerStep(line) \in ReceiptCoverage(t.receipts) => LedgerStep(line) \in ReceiptCoverage(s.receipts)

-----------------------------------------------------------------------------
(* Transcripts.                                                            *)

\* What a rollout has of its own.
OwnLines(lines) == {i \in DOMAIN lines : ~lines[i].inherited /\ lines[i].type # "malformed"}
CompletedTurn(lines, i) == IF lines[i].turn # None THEN lines[i].turn ELSE i

\* Time does not go back; a call is made once and a turn is completed once.
RolloutKept(lines) ==
  \A i, j \in OwnLines(lines) :
    LET x == lines[i] y == lines[j]
    IN  /\ i < j => x.at <= y.at
        /\ x.type = "call" /\ y.type = "call" /\ x.call = y.call /\ x.call # None => i = j
        /\ x.type = "task_complete" /\ y.type = "task_complete"
             /\ CompletedTurn(lines, i) = CompletedTurn(lines, j) => i = j

\* A session has one rollout and a message is said in one place.
CodexKept(sources) ==
  /\ \A s \in sources : RolloutKept(s.lines)
  /\ \A s, t \in sources :
       s.lines # <<>> /\ t.lines # <<>> /\ s.lines[1].id = t.lines[1].id => s.lines = t.lines
  /\ \A s, t \in sources : \A i \in OwnLines(s.lines), j \in OwnLines(t.lines) :
       /\ s.lines[i].type = "message" /\ t.lines[j].type = "message"
       /\ s.lines[i].id = t.lines[j].id /\ s.lines[i].id # None
       => i = j /\ s.lines = t.lines

\* The line that opens the session of a transcript, and the lines of what is said
\* in it from there on.
Opens(lines, o) ==
  /\ o \in DOMAIN lines /\ lines[o].type # "malformed" /\ SessionIdentity(lines[o]) # None
  /\ \A i \in 1..(o - 1) : lines[i].type = "malformed" \/ SessionIdentity(lines[i]) = None
SaidIn(lines, o) ==
  {i \in DOMAIN lines : /\ i >= o /\ lines[i].type \notin {"malformed", "state"}
                        /\ SessionIdentity(lines[i]) \in {None, SessionIdentity(lines[o])}}
AnswerOf(lines, o, i) == AnswerId([session |-> SessionIdentity(lines[o])], lines[i], i)

\* Time does not go back, a tool has one use, and a window holds all lines of an
\* answer that it holds any of.
TranscriptKept(lines, bounds) ==
  /\ Len(lines) \in Nat /\ DOMAIN lines = 1..Len(lines)
  /\ \A i \in DOMAIN lines : Len(lines[i].blocks) \in Nat /\ lines[i].at \in Nat
  /\ \A o \in DOMAIN lines : Opens(lines, o) =>
       \A m, n \in SaidIn(lines, o) :
         LET x == lines[m] y == lines[n]
         IN  /\ m < n => x.at <= y.at
             /\ x.type = "assistant" /\ y.type = "assistant" /\ AnswerOf(lines, o, m) = AnswerOf(lines, o, n)
                  => \A since \in bounds : x.at >= since <=> y.at >= since
             /\ \A k \in 1..Len(x.blocks), l \in 1..Len(y.blocks) :
                  /\ x.blocks[k].type = "tool_use" /\ y.blocks[l].type = "tool_use"
                  /\ x.blocks[k].call = y.blocks[l].call
                  => m = n /\ k = l

\* A session has one transcript and a message is said in one place.
ClaudeKept(sources, bounds) ==
  /\ \A s \in sources : TranscriptKept(s.lines, bounds)
  /\ \A s, t \in sources : \A o \in DOMAIN s.lines, p \in DOMAIN t.lines :
       Opens(s.lines, o) /\ Opens(t.lines, p) =>
         /\ SessionIdentity(s.lines[o]) = SessionIdentity(t.lines[p]) => s.lines = t.lines
         /\ \A m \in SaidIn(s.lines, o), n \in SaidIn(t.lines, p) :
              LET x == s.lines[m] y == t.lines[n]
              IN  x.text /\ y.text /\ x.uuid = y.uuid /\ x.uuid # None => m = n /\ s.lines = t.lines
=============================================================================
