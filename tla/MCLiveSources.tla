--------------------------- MODULE MCLiveSources ---------------------------
(***************************************************************************)
(* Installations whose sources are written to while scans read them: the   *)
(* transcripts of a session, its fork and another harness; a factory job   *)
(* with its attempts and what the inbox and the repository say of it; the  *)
(* database of calls with the receipts that refer to them; and databases   *)
(* and memory that are read once they are done with.                       *)
(***************************************************************************)
EXTENDS MCEvidenceIndex, TLC

\* Names that are compared with ones of another form: model values.
CONSTANTS JobJ, AttemptJ2, SessionK, SessionQ, CommitB, CommitG, EntryM, EntryD, EntryE,
          WorkW, WorkW2, RevisionV

Live(history, bounds) ==
  [events |-> {}, crosswalks |-> {}, relations |-> {}, doubtful |-> {},
   history |-> history, bounds |-> bounds, asked |-> NothingAsked]

-----------------------------------------------------------------------------
(* A Codex session with a fork, and a Claude Code session.                 *)

Line(type, at) ==
  [type |-> type, at |-> at, id |-> None, parent |-> None, turn |-> None, model |-> None,
   role |-> None, text |-> FALSE, call |-> None, tool |-> None, output |-> None,
   tokens |-> None, inherited |-> FALSE]
Meta(id, parent, at) == [Line("session_meta", at) EXCEPT !.id = id, !.parent = parent]
Turn(turn, at) == [Line("task_started", at) EXCEPT !.turn = turn]
Tokens(n, at) == [Line("token_count", at) EXCEPT !.tokens = n]
CallLine(call, at) == [Line("call", at) EXCEPT !.call = call, !.tool = "shell"]
OutputLine(call, at) == [Line("output", at) EXCEPT !.call = call, !.output = "fine"]
Message(id, role, at) == [Line("message", at) EXCEPT !.id = id, !.role = role, !.text = TRUE]
Done(turn, at) == [Line("task_complete", at) EXCEPT !.turn = turn]

\* Two turns; the second one is begun and forked off.
ParentLines ==
  <<Meta("p", None, 1), Turn(1, 1), [Line("turn_context", 1) EXCEPT !.model = "m"],
    CallLine("c", 2), Line("malformed", 2), OutputLine("c", 3), OutputLine("c", 3), Tokens(5, 3), Done(1, 3),
    Turn(2, 4), Message("m1", "user", 4), Message(None, "assistant", 5), Tokens(7, 6), Done(2, 6)>>

Copied(line) == [line EXCEPT !.at = 5, !.inherited = TRUE]
ForkLines ==
  <<Meta("f", "p", 5), Copied(Meta("p", None, 1)), Copied(Turn(1, 1)), Copied(Tokens(5, 3)),
    Copied(Done(1, 3)), Copied(Turn(2, 4)), Copied(Message("m1", "user", 4)), Turn(3, 6),
    CallLine("d", 6), Tokens(9, 7), OutputLine("d", 7), Done(3, 7)>>

ClaudeLine(type, message, at) ==
  [type |-> type, at |-> at, session |-> SessionK, agent |-> None, message |-> message,
   request |-> message, uuid |-> None, model |-> "m", text |-> TRUE, tokens |-> 3, blocks |-> <<>>]
Block(type, call) == [type |-> type, call |-> call, tool |-> "shell", error |-> FALSE]

\* An answer of two lines, and the result of the tool that the second one uses.
ClaudeLines ==
  <<[ClaudeLine("state", None, 1) EXCEPT !.text = FALSE], ClaudeLine("user", None, 2),
    [ClaudeLine("assistant", "a", 3) EXCEPT !.uuid = "x"],
    [ClaudeLine("assistant", "a", 4) EXCEPT !.text = FALSE, !.blocks = <<Block("tool_use", "u")>>],
    [ClaudeLine("user", None, 5) EXCEPT !.blocks = <<Block("tool_result", "u")>>]>>

FirstOf(lines, n) == SubSeq(lines, 1, n)
Rollout(id, lines) == [adapter |-> "codex", id |-> id, lines |-> lines]
Transcript(lines) == [adapter |-> "claude-code", lines |-> lines]

Transcripts ==
  Live(<<<<Rollout("p", FirstOf(ParentLines, 4)), Transcript(FirstOf(ClaudeLines, 3))>>,
         <<Rollout("p", FirstOf(ParentLines, 11)), Transcript(FirstOf(ClaudeLines, 4)),
           Rollout("f", FirstOf(ForkLines, 9))>>,
         <<Rollout("p", ParentLines), Transcript(ClaudeLines), Rollout("f", ForkLines)>>>>,
       {0, 5})

-----------------------------------------------------------------------------
(* A factory job: its first attempt fails and leaves an output only, the   *)
(* second one has receipts.                                                *)

LedgerLine(type, at) ==
  [type |-> type, at |-> at, job |-> JobJ, correlations |-> {}, repairs |-> None, index |-> None,
   outcome |-> None, to |-> None]
Ledger ==
  <<[LedgerLine("submitted", 1) EXCEPT !.correlations = {WorkW}],
    [LedgerLine("attempt_finished", 2) EXCEPT !.index = 1, !.outcome = "stuck"],
    [LedgerLine("attempt_finished", 4) EXCEPT !.index = 2, !.outcome = "succeeded"],
    [LedgerLine("status_changed", 6) EXCEPT !.to = "succeeded"]>>

FabReceipt(kind, id, at) ==
  [kind |-> kind, id |-> id, at |-> at, job |-> JobJ, attempt |-> AttemptJ2, index |-> 2,
   status |-> "done", correlation |-> None, artifact |-> None, accounting |-> None,
   relations |-> {<<Ref("fab.attempt", AttemptJ2), "attempt_of", Ref("fab.job", JobJ)>>}]
FabReceipts ==
  {[FabReceipt("attempt_started", <<"receipt", 1>>, 3) EXCEPT !.correlation = WorkW2],
   [FabReceipt("attempt_finished", <<"receipt", 2>>, 4) EXCEPT !.accounting = [amount |-> 4], !.relations = @ \cup
      {<<Ref("fab.attempt", AttemptJ2), "produced", Ref("opencode.session", SessionQ)>>}],
   [FabReceipt("artifact", <<"receipt", 3>>, 4) EXCEPT !.artifact = Ref("git.commit", CommitG)],
   FabReceipt("job_outcome", <<"receipt", 4>>, 5)}

FabRoot(n, receipts) ==
  [adapter |-> "fab", ledger |-> FirstOf(Ledger, n), receipts |-> receipts,
   stdouts |-> {[job |-> JobJ, index |-> 1, backend |-> "claude-cli", modified |-> 2,
                 sessions |-> <<None, SessionK>>]}]

OpenCodeRow ==
  [id |-> SessionQ, parent |-> None, at |-> 3, archived |-> FALSE, title |-> "t",
   messages |-> <<[id |-> 1, at |-> 4, role |-> "assistant", error |-> FALSE, amount |-> 2,
                   parts |-> {[id |-> 1, at |-> 4, type |-> "text", call |-> None, status |-> None],
                              [id |-> 2, at |-> 4, type |-> "tool", call |-> "u", status |-> "completed"]}]>>]
OpenCode(rows) == [adapter |-> "opencode", sessions |-> rows]

Entry0 ==
  [id |-> None, at |-> 0, kind |-> "note", refs |-> <<>>, edges |-> {}, tags |-> {}, job |-> None,
   sha |-> None, run |-> None, harness |-> None, session |-> None, gate |-> FALSE,
   consult |-> None, coordinate |-> None, disposition |-> None]
Inbox ==
  <<[Entry0 EXCEPT !.id = EntryM, !.at = 2, !.gate = TRUE, !.coordinate = "deploy"],
    None,
    [Entry0 EXCEPT !.id = EntryD, !.at = 4, !.kind = "decision", !.refs = <<EntryM>>,
                   !.tags = {"resolved-by-human"}],
    [Entry0 EXCEPT !.id = EntryE, !.at = 5, !.kind = "done", !.job = JobJ, !.sha = CommitG,
                   !.disposition = [receipt |-> EntryE, revision |-> RevisionV, answer |-> "acted"]]>>

Commits ==
  {[sha |-> CommitB, at |-> 1, committed |-> 1, parents |-> {}, refs |-> None],
   [sha |-> CommitG, at |-> 5, committed |-> 5, parents |-> {CommitB}, refs |-> None]}
Repository(n) == [adapter |-> "git", repo |-> "r", commits |-> {c \in Commits : c.committed <= n}]
Entries(n) == [adapter |-> "george", lines |-> FirstOf(Inbox, n)]

\* The session that an attempt produced may be said not to be its own.
Factory ==
  [Live(<<<<FabRoot(2, {}), Entries(1), Repository(2), OpenCode({})>>,
         <<FabRoot(4, FabReceipts), Entries(4), Repository(5), OpenCode({OpenCodeRow})>>>>,
        {0, 3}) EXCEPT !.doubtful =
     UNION {{r \in ReadReceipt(receipt, 0).relations : r.predicate = "produced"} : receipt \in FabReceipts}]

\* A job that is handed over to receipts: each line of its ledger has one, which may
\* come while the ledger is read.
HandedOver ==
  {[FabReceipt("job_submitted", <<"receipt", 5>>, 1) EXCEPT !.attempt = None, !.index = None],
   [FabReceipt("attempt_finished", <<"receipt", 6>>, 2) EXCEPT !.index = 1],
   FabReceipt("verifier", <<"receipt", 7>>, 3)}
Handover ==
  Live(<<<<[FabRoot(0, {}) EXCEPT !.stdouts = {}]>>,
         <<FabRoot(1, {r \in HandedOver : r.kind = "job_submitted"})>>,
         <<FabRoot(2, HandedOver)>>>>, {0})

-----------------------------------------------------------------------------
(* Calls of a campaign, and the receipts that refer to them.               *)

CallRow(id, at) ==
  [id |-> id, at |-> at, session |-> "ss", parent |-> None, outcome |-> "ok", model |-> "m",
   role |-> None, source |-> None, request |-> None, basis |-> "reported", economic |-> "marginal",
   local |-> FALSE, amount |-> 2, accuracy |-> None, correlation |-> None, workload |-> None,
   result |-> None, project |-> None, attempt |-> FALSE]
CallRows ==
  {[CallRow("c1", 1) EXCEPT !.workload = "w", !.correlation = "j", !.project = "fab"],
   [CallRow("c2", 2) EXCEPT !.request = "q", !.parent = "c1", !.role = "shadow-judge", !.result = "x1"],
   [CallRow("c3", 2) EXCEPT !.session = None, !.basis = "unknown", !.economic = "included",
                            !.local = TRUE, !.amount = 0]}
ProcedureOrigin == [promotion |-> "pr", job |-> "j"]
Tables(n) ==
  [table \in {"calls", "eval_results", "eval_receipts", "campaigns", "campaign_events", "decisions",
              "recommendations", "call_updates"} |->
    LET rows ==
      CASE table = "calls" -> CallRows
        [] table = "eval_results" -> {[id |-> "x1", at |-> 2, call |-> "c1", scored |-> TRUE]}
        [] table = "eval_receipts" ->
             {[id |-> "x2", at |-> 3, type |-> "procedure_outcome", procedure |-> ProcedureOrigin,
               call |-> None, source |-> "c1", candidates |-> {"c2"}, result |-> "x1",
               run |-> "er", implementation |-> "g"]}
        [] table = "campaigns" ->
             {[id |-> "x3", at |-> 3, status |-> "plateau", workload |-> "w", amount |-> 4]}
        [] table = "campaign_events" ->
             {[id |-> "x4", at |-> 3, campaign |-> "x3", action |-> "revert", run |-> "er"]}
        [] table = "decisions" -> {[id |-> "x5", at |-> 3, workload |-> "w"]}
        [] table = "recommendations" ->
             {[id |-> "x6", at |-> 3, applied |-> FALSE, dismissed |-> TRUE, workload |-> "w"]}
        [] table = "call_updates" ->
             {[id |-> "x7", at |-> 3, call |-> "c3", field |-> "outcome", value |-> "timeout"]}
    IN  {row \in rows : row.at <= n}]
Somm(n) == [adapter |-> "somm", tables |-> Tables(n)]

ResearchLine ==
  [id |-> "o", at |-> 3, extra |-> FALSE, judged |-> TRUE, supersedes |-> None,
   calls |-> <<[vote |-> 1, call |-> "c1", served |-> None], [vote |-> 2, call |-> None, served |-> "m"]>>,
   attempt |-> Ref("fab.attempt", "j2"), correlation |-> Ref("correlation", "j"),
   domain |-> Ref("git.commit", "g"), treatment |-> "t", workload |-> "w",
   authority |-> "au", label |-> "ADMITTED"]
Research ==
  [adapter |-> "barnowl-research-outcome",
   lines |-> <<ResearchLine,
     [ResearchLine EXCEPT !.id = "bad", !.calls = <<[vote |-> 1, call |-> "c1", served |-> None],
                                                    [vote |-> 2, call |-> "c1", served |-> None]>>]>>]
Candidate ==
  [schema |-> "chip.candidate-receipt/v1", outcome |-> "candidate-recorded", sorted |-> TRUE,
   id |-> "k1", at |-> 3, candidate |-> "cd", finding |-> "fd", revision |-> "v"]
Chip == [adapter |-> "chip", lines |-> <<Candidate, [Candidate EXCEPT !.sorted = FALSE, !.id = "k2"]>>]
Spindle(schema, id) ==
  [adapter |-> "spindle",
   receipt |-> [schema |-> schema, id |-> id, at |-> 3, origin |-> [revision |-> "v", candidate |-> "cd"],
                tuple |-> "t1", baseline |-> "t0", evaluation |-> "ev", binding |-> "bd",
                evaluationReceipt |-> "er1", eligible |-> TRUE]]

Campaign ==
  Live(<<<<Somm(1)>>, <<Somm(3), Research, Chip, Spindle("evaluation", "er1"), Spindle("promotion", "pr")>>>>,
       {0})

-----------------------------------------------------------------------------
(* Sessions in databases that are over, and memory that stays as it is.    *)

HermesRow(id, parent) ==
  [id |-> id, parent |-> parent, at |-> 1, ended |-> "done", model |-> "m", actual |-> None,
   estimated |-> 3, billing |-> "payg",
   messages |-> <<[id |-> 1, at |-> 1, role |-> "user", text |-> TRUE, calls |-> {}, call |-> None],
                  [id |-> 2, at |-> 2, role |-> "assistant", text |-> FALSE, calls |-> {"u"}, call |-> None],
                  [id |-> 3, at |-> 2, role |-> "tool", text |-> TRUE, calls |-> {}, call |-> "u"]>>]
HermesRows == {[HermesRow("h1", None) EXCEPT !.actual = 5], [HermesRow("h2", "h1") EXCEPT !.at = 2]}
Note(n) == [locator |-> n, kind |-> "memory_file", at |-> 1, content |-> n]
Memory(log) ==
  [adapter |-> "native-memory", root |-> "home", items |-> {Note("n1"), Note("n2")},
   log |-> log]
Decisions == [adapter |-> "decision-memory", root |-> "home", items |-> {Note("n1")}, log |-> <<>>]
Read1 == [at |-> 2, item |-> "n1", stage |-> "loaded", state |-> "observed", supersededBy |-> None]

Databases ==
  Live(<<<<[adapter |-> "hermes", sessions |-> {r \in HermesRows : r.at = 1}], Memory(<<>>)>>,
         <<[adapter |-> "hermes", sessions |-> HermesRows], Memory(<<Read1>>),
           OpenCode({OpenCodeRow}), Decisions>>>>, {0, 2})

-----------------------------------------------------------------------------
(* Indexes that the projections are asked about.                           *)

\* What an adapter made of a source, of which events come in one by one.
Asked(found, asked) ==
  [events |-> found.events, crosswalks |-> {}, relations |-> found.relations, doubtful |-> {},
   history |-> << <<>> >>, bounds |-> {0}, asked |-> [q \in DOMAIN NothingAsked |->
      IF q \in DOMAIN asked THEN asked[q] ELSE {}] @@ [refutedAt |-> 8]]

\* A gate that is raised four times, one that a decision about its only mint
\* settles, one that is the mint of another, and one that nobody was asked about.
Raised(id, at, gate) == [Entry0 EXCEPT !.id = id, !.at = at, !.gate = TRUE, !.coordinate = gate]
GateLines ==
  <<Raised("m1", 1, "deploy"), Raised("m2", 5, "deploy"), Raised("m3", 9, "deploy"),
    Raised("m4", 11, "deploy"), Raised("m5", 2, "merge"),
    [Entry0 EXCEPT !.id = "told", !.at = 7, !.coordinate = "merge", !.consult = [mint |-> None, said |-> FALSE]],
    [Entry0 EXCEPT !.id = "asked", !.at = 8, !.coordinate = "merge", !.consult = [mint |-> None, said |-> TRUE]],
    [Entry0 EXCEPT !.id = "decided", !.at = 10, !.kind = "decision", !.refs = <<"m3">>,
                   !.tags = {"resolved-by-human"}],
    [Entry0 EXCEPT !.id = "retired", !.at = 3, !.kind = "obviated", !.refs = <<"x">>, !.coordinate = "merge",
                   !.tags = {"gate-disposition"}],
    [Entry0 EXCEPT !.id = "again", !.at = 4, !.gate = TRUE, !.refs = <<"m3">>],
    [Entry0 EXCEPT !.id = "unclear", !.at = 6, !.gate = TRUE, !.refs = <<"x", "y">>]>>
GateConfig ==
  [since |-> 0, cutoff |-> 20, source |-> "fresh", remintThreshold |-> 3, remintDays |-> 7, oldDays |-> 12]
GatesRaised ==
  Asked(Yield({e \in ReadGeorge(GateLines, 0).events : e.kind = "gate_evidence"}, {}, {}),
        [gates |-> {GateConfig, [GateConfig EXCEPT !.since = 4, !.cutoff = 11, !.remintThreshold = 2],
                    [GateConfig EXCEPT !.source = "stale"]}])

\* An item that nobody reports to use, but for reports that contradict others.
Reported(at, stage, state) == [Read1 EXCEPT !.at = at, !.stage = stage, !.state = state]
Reports ==
  <<Reported(5, "loaded", "not_observed"), Reported(6, "retrieved", "not_observed"),
    Reported(6, "retrieved", "observed"), Reported(7, "referenced", "not_observed"),
    Reported(8, "applied", "not_observed"), Reported(9, "loaded", "observed"),
    [Reported(9, "applied", "not_observed") EXCEPT !.supersededBy = "n2"]>>
MemoryUsed ==
  Asked(ReadMemory("native-memory", "factory-native", "home", {Note("n1"), Note("n2")}, Reports, 0),
        [memory |-> {[cutoff |-> 40, nonUseDays |-> 30], [cutoff |-> 9, nonUseDays |-> 5],
                     [cutoff |-> 20, nonUseDays |-> 30]}])

\* Two sessions that fail in the same ways.
ToolCall(id, session, tool, status, action, error) ==
  [id |-> id, kind |-> "tool_call", adapter |-> "codex", native |-> id, at |-> id, session |-> session,
   parent |-> None, tool |-> tool, status |-> status, action |-> action, error |-> error]
Failing ==
  {Event(1, "session", "codex", "s", None, None), Event(2, "session", "hermes", "h", None, None),
   ToolCall(3, 1, "shell", "failed", "rm", "permission"), ToolCall(4, 1, "shell", "failed", "rm", None),
   ToolCall(5, 2, "shell", "failed", "ls", "permission"), ToolCall(6, 2, "shell", "failed", "ls", None),
   ToolCall(7, 2, "edit", "succeeded", None, None), ToolCall(8, 2, "edit", "succeeded", None, None),
   [Outcome(9, "codex", "o", 1, "task", None, "failed") EXCEPT !.session = 1] @@ [scopeChanges |-> 2]}
MotifConfig == [since |-> 1, cutoff |-> 20, recurrence |-> 1, receipts |-> 1, aggregation |-> 1]
SessionsFailing ==
  Asked(Yield(Failing, {}, {}),
        [motifs |->
           {[config |-> MotifConfig, tuple |-> "t", evaluation |-> None],
            [config |-> [MotifConfig EXCEPT !.recurrence = 2, !.aggregation = 2, !.receipts = 2, !.since = 2,
                                            !.cutoff = 6],
             tuple |-> "t", evaluation |-> None],
            [config |-> MotifConfig, tuple |-> "t",
             evaluation |-> [generator |-> "milton.failure-motifs/v1", tuple |-> "t", decision |-> "surface",
                             floors |-> [recurrence |-> 1, aggregation |-> 1]]]}])

\* Research outcomes that follow up on each other in every way, good or not.
Followup(id, at, label, supersedes, domain) ==
  [ResearchLine EXCEPT !.id = id, !.at = at, !.label = label, !.supersedes = supersedes, !.calls = <<>>,
                       !.domain = Ref("claim", domain)]
Research1(id, at, label, supersedes, call) ==
  [Followup(id, at, label, supersedes, "g") EXCEPT !.calls = <<[vote |-> 1, call |-> call, served |-> None]>>]
Followups ==
  <<Followup("a1", 2, "ADMITTED", None, "g"), Research1("a2", 4, "CORROBORATED", "a1", "c1"),
    Followup("a3", 5, "REJECTED", "a2", "g"), Followup("a4", 5, "CORROBORATED", "a1", "g"),
    Followup("a5", 6, "y", "a3", "h"), Followup("b1", 3, "ADMITTED", "b2", "k"),
    Followup("b2", 6, "ADMITTED", "b1", "k")>>
Claimed ==
  <<Research1("a1", 2, "ADMITTED", None, "c1"), Research1("a2", 4, "CORROBORATED", "a1", "c2"),
    Research1("a3", 5, "REJECTED", "a9", "c1"), [Followup("a4", 5, "z", None, "i") EXCEPT !.judged = FALSE]>>
CostedCalls(ids) == ReadCalls({[CallRow(c, 1) EXCEPT !.session = None] : c \in ids}).events
Produced(lines) == {r \in ReadBarnowl(lines, 0).relations : r.predicate = "produced"}
FollowedUp(lines, calls) ==
  Asked(Yield(ReadBarnowl(lines, 0).events \cup CostedCalls(calls), {}, Produced(lines)),
        [effectiveness |-> {[since |-> 0, until |-> 20, threshold |-> 50],
                            [since |-> 0, until |-> 6, threshold |-> 100],
                            [since |-> 3, until |-> 20, threshold |-> 0]}])

Installations ==
  Recorded \cup {Transcripts, Factory, Handover, Campaign, Databases}
    \cup {GatesRaised, MemoryUsed, SessionsFailing,
          FollowedUp(Followups, {"c1"}), FollowedUp(Claimed, {"c1", "c2"})}
=============================================================================
