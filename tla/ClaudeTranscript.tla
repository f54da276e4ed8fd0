-------------------------- MODULE ClaudeTranscript --------------------------
(***************************************************************************)
(* The adapter of Claude Code transcripts,                                 *)
(* src/milton/adapters/claude_code.py.  A transcript is the sequence of    *)
(* lines of one session or of one of its agents.  One answer of the model  *)
(* can take several lines, each with a part of its content and its own     *)
(* time.  A line is a record of what is read of it: `type` is "malformed"  *)
(* (it or its time does not parse), "state" (no message) or the speaker.   *)
(***************************************************************************)
EXTENDS Records

\* _session_identity
SessionIdentity(line) ==
  CASE line.session = None -> None
    [] line.session # None /\ line.agent = None -> line.session
    [] OTHER -> <<line.session, line.agent>>

ClaudeSession(native) == EventId("claude-code", "session", native)

\* What the adapter remembers between lines: the session, the answers it has
\* told, the tools that wait for their result, and what it has yielded.
UnreadTranscript == [session |-> None, told |-> {}, waiting |-> {}, emitted |-> {}]

ClaudeEvent(state, kind, native, at, parent, payload) ==
  NormalizedEvent("claude-code", kind, native, at, ClaudeSession(state.session), parent, payload)

\* The first line of a session opens it, also if it is before the window.
OpenSession(state, line) ==
  LET native == SessionIdentity(line)
  IN  IF state.session # None \/ native = None THEN state
      ELSE [state EXCEPT !.session = native,
              !.emitted = @ \cup {NormalizedEvent("claude-code", "session", native, line.at,
                                                  None, None, <<>>)}]

\* The id of an answer: its own, that of its request, or its place.
AnswerId(state, line, n) ==
  CASE line.message # None -> line.message
    [] line.message = None /\ line.request # None -> line.request
    [] OTHER -> <<state.session, n>>

\* Mutant: every line of an answer is told as a call.
TellEveryLine(state, line, n) ==
  LET id == AnswerId(state, line, n)
      native == <<"model", state.session, id>>
  IN  IF line.type # "assistant" THEN state
      ELSE [state EXCEPT !.emitted = @ \cup
              {ClaudeEvent(state, "model_call", native, line.at, None, [model |-> line.model])}]

\* The call and the tokens of an answer, told at its first line.
TellAnswer(state, line, n) ==
  LET id == AnswerId(state, line, n)
      native == <<"model", state.session, id>>
      call == ClaudeEvent(state, "model_call", native, line.at, None,
                          [model |-> line.model, request |-> line.request])
      cost == ClaudeEvent(state, "cost", <<"usage", state.session, id>>, line.at, call.id,
                [role |-> "unknown", amount |-> None, tokens |-> line.tokens,
                 authority |-> "claude-code", economic |-> "unknown",
                 basis |-> "unknown", accuracy |-> "unknown",
                 key |-> IF line.request # None THEN <<"anthropic.request", line.request>>
                         ELSE <<"claude-code.message", state.session, id>>,
                 scope |-> IF line.request # None THEN "shared" ELSE "source"])
  IN  IF line.type # "assistant" \/ id \in state.told THEN state
      ELSE [state EXCEPT !.told = @ \cup {id},
              !.emitted = @ \cup {call} \cup (IF line.tokens # None THEN {cost} ELSE {})]

TellTurn(state, line, n) ==
  IF ~line.text THEN state
  ELSE [state EXCEPT !.emitted = @ \cup
          {ClaudeEvent(state, "turn",
             <<"message", IF line.uuid # None THEN <<line.uuid>> ELSE <<state.session, n>>>>,
             line.at, None, [role |-> line.type])}]

\* _tool_event: told at the call, with how it ended.
ClaudeTool(state, w, error) ==
  ClaudeEvent(state, "tool_call", <<"tool", state.session, w.call>>, w.at, None,
              [tool |-> w.tool, line |-> w.line, status |-> IF error THEN "failed" ELSE "succeeded"])

\* The blocks of a line: a tool waits for its result, and a result that finds
\* it makes the event.
TellBlock(state, block, line, n) ==
  LET calls == {w \in state.waiting : w.call = block.call}
  IN  IF block.type = "tool_use"
      THEN [state EXCEPT !.waiting = (@ \ calls) \cup
              {[call |-> block.call, at |-> line.at, tool |-> block.tool, line |-> n]}]
      ELSE [state EXCEPT !.waiting = @ \ calls, !.emitted = @ \cup
              {ClaudeTool(state, w, block.error) : w \in calls}]

TellMessage(state, line, n) ==
  LET after[k \in 0..Len(line.blocks)] ==
        IF k = 0 THEN TellTurn(TellAnswer(state, line, n), line, n)
        ELSE TellBlock(after[k - 1], line.blocks[k], line, n)
  IN  after[Len(line.blocks)]

\* One line of ClaudeCodeAdapter.read.  Lines of another session, and lines
\* before the window, are passed over.
ReadClaudeLine(state, line, n, since) ==
  IF line.type = "malformed" THEN state
  ELSE LET opened == OpenSession(state, line)
           mixed == SessionIdentity(line) \notin {None, opened.session}
       IN  IF mixed \/ opened.session = None \/ line.at < since \/ line.type = "state"
           THEN opened ELSE TellMessage(opened, line, n)

\* ClaudeCodeAdapter.read
ReadClaude(lines, since) ==
  LET state[n \in 0..Len(lines)] ==
        IF n = 0 THEN UnreadTranscript ELSE ReadClaudeLine(state[n - 1], lines[n], n, since)
  IN  Yield(state[Len(lines)].emitted, {}, {})
=============================================================================
