---------------------------- MODULE LiveSources ----------------------------
(***************************************************************************)
(* An index that is filled from sources in use.  The sources of an         *)
(* installation go through a history of contents, one step at a time; a    *)
(* scan reads one source as it is now, all of it or from some time on, and *)
(* appends what its adapter makes of it (Ingestor.run with the adapters of *)
(* the other modules).  Ingest models when a source is read at all; here a *)
(* scan may come at any time.  Archives that are not read from sources     *)
(* have a history of one empty content.                                    *)
(***************************************************************************)
EXTENDS EvidenceIndex, SourceWriting

VARIABLES
  now,        \* how far the history of the sources has come
  overtaken   \* history variable: events that ledgers told of steps whose receipts
              \* came while they were read

liveVars == <<vars, now, overtaken>>

Content == archive.history[now]

\* The rollouts that are there, by their session.
RolloutsOf(content) ==
  [id \in {s.id : s \in {s \in Range(content) : s.adapter = "codex"}} |->
     (CHOOSE s \in Range(content) : s.adapter = "codex" /\ s.id = id).lines]

\* The receipts of a Fab source; other sources have none.
ReceiptsOf(source) == IF source.adapter = "fab" THEN source.receipts ELSE {}

\* What the adapter makes of each file of a source, of the receipts that were seen.
Readings(source, content, seen, since) ==
  CASE source.adapter = "codex" ->
         {ReadCodex(source.lines, RolloutsOf(content), since)}
    [] source.adapter = "claude-code" -> {ReadClaude(source.lines, since)}
    [] source.adapter = "george"      -> {ReadGeorge(source.lines, since)}
    [] source.adapter = "fab"         ->
         {ReadLedger(source, seen, since)}
           \cup {ReadReceipt(r, since) : r \in source.receipts}
           \cup {ReadStdout(o, seen, since) : o \in source.stdouts}
    [] source.adapter = "somm"        -> {ReadSomm(source.tables, since)}
    [] source.adapter = "hermes"      -> {ReadHermes(source.sessions, since)}
    [] source.adapter = "opencode"    -> {ReadOpenCode(source.sessions, since)}
    [] source.adapter = "git"         -> {ReadGit(source.repo, source.commits, since)}
    [] source.adapter = "chip"        -> {ReadChip(source.lines, since)}
    [] source.adapter = "spindle"     -> {ReadSpindle(source.receipt, since)}
    [] source.adapter = "barnowl-research-outcome" -> {ReadBarnowl(source.lines, since)}
    [] source.adapter \in MemoryAdapters ->
         {ReadMemory(source.adapter, MemorySystem(source.adapter), source.root, source.items, source.log,
                     since)}

\* Everything that a scan would tell of a content that stays as it is.
AllReadings(content, since) ==
  UNION {Readings(content[name], content, ReceiptsOf(content[name]), since) : name \in DOMAIN content}
ToldNow == All(AllReadings(Content, 0))

\* The same, whichever receipts were seen.
AnyReadings(content, since) ==
  UNION {UNION {Readings(content[name], content, seen, since) : seen \in SUBSET ReceiptsOf(content[name])} :
           name \in DOMAIN content}

\* All events that an index of the archive could ever have.
Tellable(a) ==
  LET readings == UNION {AnyReadings(a.history[i], since) : i \in DOMAIN a.history, since \in a.bounds}
  IN  a.events \cup UNION {r.events : r \in readings}

\* Sources are finite at any time, and adapters tell normalized events.  Sessions
\* and Somm calls are told by adapters that have a namespace for them, and an
\* outcome of Barnowl by the event that has its id.
ASSUME ArchivesAssumption ==
  \A a \in Archives :
    /\ Len(a.history) \in Nat \ {0} /\ DOMAIN a.history = 1..Len(a.history)
    /\ IsFiniteSet(Tellable(a))
    /\ \A e \in Tellable(a) :
         /\ WellFormed(e)
         /\ e.kind = "session" \/ (e.kind = "model_call" /\ e.adapter = "somm") => EventRef(e) # None
    /\ \A e, f \in {e \in Tellable(a) : e.kind = "outcome" /\ e.type = Barnowl} :
         e.reference = f.reference => e.id = f.id

\* Codex writes its rollouts, and copies those of parents, in its way.
ASSUME RolloutsAssumption ==
  \A a \in Archives : \A i \in DOMAIN a.history :
    \A n \in {n \in DOMAIN a.history[i] : a.history[i][n].adapter = "codex"} :
      RolloutOK(a.history[i][n].lines, RolloutsOf(a.history[i]))

\* The sources are those of the adapters, and are written as SourceWriting says; ids
\* are of one event each.
Adapters ==
  {"codex", "claude-code", "george", "fab", "somm", "hermes", "opencode", "git", "chip", "spindle",
   "barnowl-research-outcome"} \cup MemoryAdapters
SourcesOf(content, adapter) ==
  {content[n] : n \in {n \in DOMAIN content : content[n].adapter = adapter}}

KeptAsWritten(content, bounds) ==
  /\ \A n \in DOMAIN content : content[n].adapter \in Adapters
  /\ CodexKept(SourcesOf(content, "codex"))
  /\ ClaudeKept(SourcesOf(content, "claude-code"), bounds)
  /\ GeorgeKept(SourcesOf(content, "george"))
  /\ FabKept(SourcesOf(content, "fab"))
  /\ SommKept(SourcesOf(content, "somm"), bounds)
  /\ HermesKept(SourcesOf(content, "hermes"))
  /\ OpenCodeKept(SourcesOf(content, "opencode"))
  /\ GitKept(SourcesOf(content, "git"))
  /\ ChipKept(SourcesOf(content, "chip"))
  /\ SpindleKept(SourcesOf(content, "spindle"))
  /\ BarnowlKept(SourcesOf(content, "barnowl-research-outcome"))
  /\ \A adapter \in MemoryAdapters : MemoryKept(SourcesOf(content, adapter))
  /\ \A e, f \in All(AllReadings(content, 0)).events :
       e.id = f.id => e.adapter = f.adapter /\ e.kind = f.kind /\ e.native = f.native

GoesOn(content, later) ==
  \A n \in DOMAIN content :
    LET s == content[n] t == later[n]
    IN  /\ n \in DOMAIN later /\ t.adapter = s.adapter
        /\ CASE s.adapter = "fab" -> FabGoesOn(s, t)
             [] s.adapter = "somm" -> SommGoesOn(s, t)
             [] s.adapter \in {"hermes", "opencode"} -> SessionsGoOn(s, t)
             [] s.adapter = "git" -> GitGoesOn(s, t)
             [] s.adapter = "spindle" -> SpindleGoesOn(s, t)
             [] s.adapter \in MemoryAdapters -> MemoryGoesOn(s, t)
             [] OTHER -> LinesGoOn(s, t)

ASSUME WritingAssumption ==
  \A a \in Archives :
    /\ a.bounds \subseteq Nat
    /\ a.events # {} => \A i \in DOMAIN a.history : a.history[i] = <<>>
    /\ \A i \in DOMAIN a.history :
         /\ KeptAsWritten(a.history[i], a.bounds \cup {0})
         /\ \A j \in i..Len(a.history) : GoesOn(a.history[i], a.history[j])

LiveInit == Init /\ now = 1 /\ overtaken = {}

\* The sources are written to.
Grow ==
  /\ now < Len(archive.history)
  /\ now' = now + 1
  /\ UNCHANGED <<vars, overtaken>>

\* What can be in the index of a reading when it ends: all of it, or what came
\* before the first record that is refused.
Appended(reading) ==
  IF Consistent(events \cup reading.events) THEN {reading}
  ELSE {part \in [events     : SUBSET reading.events,
                  crosswalks : SUBSET reading.crosswalks,
                  relations  : SUBSET reading.relations] :
          Consistent(events \cup part.events)}

\* The receipts that a scan may have missed when it looked for them, at any moment of
\* the history: those that came later.  Receipts of other kinds silence nothing.
Late(name) ==
  {r \in ReceiptsOf(Content[name]) :
     /\ r.kind \in {"job_submitted", "attempt_finished", "job_outcome"}
     /\ \E begun \in 1..now : /\ name \in DOMAIN archive.history[begun]
                             /\ r \notin ReceiptsOf(archive.history[begun][name])}

\* What a scan may read of a source, all of it or from some time on.
MayRead(name) ==
  UNION {Readings(Content[name], Content, ReceiptsOf(Content[name]) \ missed, since) :
           missed \in SUBSET Late(name), since \in archive.bounds}

\* What a ledger tells of steps whose receipts were missed.
Overtaking(source, missed) ==
  IF source.adapter # "fab" THEN {}
  ELSE UNION {ReadLedgerLine(source.ledger[n], n, {}).events :
                n \in {n \in DOMAIN source.ledger :
                        LedgerStep(source.ledger[n]) \in ReceiptCoverage(missed)}}

\* A source is read.  A link that was refuted is told again and stays refuted.
Scan ==
  /\ \E name \in DOMAIN Content : \E reading \in MayRead(name) : \E part \in Appended(reading) :
       /\ events' = events \cup part.events
       /\ crosswalks' = crosswalks \cup (part.crosswalks \ refuted)
       /\ relations' = relations \cup (part.relations \ refuted)
       /\ overtaken' = overtaken \cup (part.events \cap Overtaking(Content[name], Late(name)))
  /\ UNCHANGED <<archive, refuted, now>>

LiveNext ==
  \/ Next /\ UNCHANGED <<now, overtaken>>
  \/ Grow
  \/ Scan

LiveSpec == LiveInit /\ [][LiveNext]_liveVars

-----------------------------------------------------------------------------
\* Whatever was scanned, and while it was written to, a scan of all sources
\* would tell now what the index has, and nothing else under the same ids:
\* events are told once, when they are final ("so a later append cannot mutate
\* a stable event").  What a Fab ledger told of a step is the exception, when the
\* receipt of the step came between the look for receipts and the ledger: that is
\* left to the receipt by now.
ScansAgree ==
  archive.events = {} =>
    /\ events \subseteq ToldNow.events \cup overtaken
    /\ Consistent(ToldNow.events)

\* What is told of the tokens of a Codex rollout is what was spent in it: what
\* a fork has from its parent is told of the parent only.
ForksAddUp ==
  \A n \in {n \in DOMAIN Content : Content[n].adapter = "codex"} :
    LET lines == Content[n].lines
        told == UNION {r.events : r \in Readings(Content[n], Content, {}, 0)}
    IN  {e.key[3] : e \in {e \in told : e.kind = "cost"}}
          = {i \in DOMAIN lines : lines[i].type = "token_count" /\ ~lines[i].inherited}

\* The ledger and a receipt have both told how an attempt of a Fab job ended.
ToldTwice(told) ==
  \E n \in {n \in DOMAIN Content : Content[n].adapter = "fab"} :
  \E line \in Range(Content[n].ledger), r \in Content[n].receipts :
    /\ line.type = "attempt_finished" /\ r.kind = "attempt_finished"
    /\ line.job = r.job /\ line.index = r.index
    /\ \E e, f \in told :
         /\ e.adapter = "fab" /\ e.kind = "outcome" /\ e.native = r.attempt
         /\ f.adapter = "fab" /\ f.kind = "outcome"
         /\ f.native = <<"attempt", line.job, line.index, line.type>>

\* However ledger and receipts are scanned, and whatever is written between scans, an
\* attempt is told by the ledger or by its receipt: it takes a receipt that came within
\* a scan, after the look for receipts, to have it told by both.
AttemptsOnce == ~ToldTwice(events \ overtaken)

\* "Milton reads these receipts first and retains ledger/transcript parsing only for
\* legacy jobs" (docs/boundaries.md): no attempt is told by both, ever.
ReceiptsFirst == ~ToldTwice(events)
=============================================================================
