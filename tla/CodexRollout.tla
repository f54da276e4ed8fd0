---------------------------- MODULE CodexRollout ----------------------------
(***************************************************************************)
(* The adapter of Codex rollouts, src/milton/adapters/codex.py.  A rollout *)
(* is the sequence of lines of one session, and grows while it lasts.  The *)
(* rollout of a forked session begins with what its parent had said so     *)
(* far, under the time of the fork.  A line is a record with its type and  *)
(* what is read of it; one that does not parse is of type "malformed".     *)
(***************************************************************************)
EXTENDS Records

Sid(id) == EventId("codex", "session", id)

\* _parent_turn_ids: the turns that the parent had begun by then, or None if its
\* rollout is not there.
ParentTurns(parent, before, rollouts) ==
  IF parent \notin DOMAIN rollouts THEN None
  ELSE {line.turn : line \in {line \in ToSet(rollouts[parent]) :
                                line.type = "task_started" /\ line.turn # None /\ line.at <= before}}

\* What the adapter remembers between lines; emitted is what it has yielded.
Unread == [session |-> None, skipping |-> FALSE, turns |-> None, model |-> None,
           pending |-> {}, emitted |-> Nothing]

Emit(state, events) == [state EXCEPT !.emitted = Both(@, Yield(events, {}, {}))]

\* The first session_meta owns the rollout; a later one is ancestry.
ReadMeta(state, line, rollouts) ==
  LET forked == line.parent \notin {None, line.id}
      opened == NormalizedEvent("codex", "session", line.id, line.at, None, None, <<>>)
  IN  CASE state.session # None -> [state EXCEPT !.skipping = TRUE]
        [] state.session = None /\ line.id = None -> state
        [] OTHER -> [state EXCEPT
              !.session = line.id,
              !.skipping = forked,
              !.turns = IF forked THEN ParentTurns(line.parent, line.at, rollouts) ELSE None,
              !.emitted = Both(@, Yield({opened},
                 IF forked THEN {CrosswalkRecord(Ref("codex.session", line.id),
                                                 Ref("codex.session", line.parent))}
                 ELSE {}, {}))]

\* Mutant: the first turn of the rollout is its own.
EndAtAnyTurn(state, line) == [state EXCEPT !.skipping = line.type # "task_started"]

\* Inherited lines are passed over, up to and with the first turn that the
\* parent does not have, or the first turn at all if the parent is not there.
ReadInherited(state, line) ==
  LET ends == /\ line.type = "task_started"
              /\ state.turns = None \/ (line.turn # None /\ line.turn \notin state.turns)
  IN  [state EXCEPT !.skipping = ~ends]

\* A message, and the model call it answers.
ReadMessage(state, line, n) ==
  LET native == IF line.id # None THEN <<line.id>> ELSE <<state.session, n>>
      turn == NormalizedEvent("codex", "turn", <<"message", native>>, line.at,
                              Sid(state.session), None, [role |-> line.role])
      call == NormalizedEvent("codex", "model_call", <<"model", native>>, line.at,
                              Sid(state.session), None, [model |-> state.model])
  IN  Emit(state, (IF line.text THEN {turn} ELSE {})
                    \cup (IF line.role = "assistant" THEN {call} ELSE {}))

\* A tool call waits for its output; one without an id is malformed.
ReadCall(state, line, n) ==
  IF line.call = None THEN state
  ELSE [state EXCEPT !.pending = {p \in @ : p.call # line.call}
          \cup {[call |-> line.call, at |-> line.at, tool |-> line.tool, line |-> n]}]

\* _tool_event: told at the call, with what came of it.
CodexTool(session, p, output) ==
  NormalizedEvent("codex", "tool_call", <<"tool", session, p.call>>, p.at, Sid(session), None,
                  [tool |-> p.tool, line |-> p.line, output |-> output])

\* The output of a call that waits makes the event; any other is an orphan.
ReadOutput(state, line) ==
  LET waiting == {p \in state.pending : p.call = line.call}
  IN  Emit([state EXCEPT !.pending = @ \ waiting],
           {CodexTool(state.session, p, line.output) : p \in waiting})

\* The tokens of the last request: no amount, and a unit of its own.
ReadUsage(state, line, n) ==
  Emit(state, {NormalizedEvent("codex", "cost", <<"usage", state.session, n>>, line.at,
     Sid(state.session), None,
     [role |-> "unknown", amount |-> None, tokens |-> line.tokens, authority |-> "codex",
      key |-> <<"codex.usage", state.session, n>>, scope |-> "source", model |-> state.model,
      economic |-> "unknown", basis |-> "unknown", accuracy |-> "unknown"])})

ReadComplete(state, line, n) ==
  LET turn == IF line.turn # None THEN line.turn ELSE n
  IN  Emit(state, {NormalizedEvent("codex", "outcome", <<"task", state.session, turn>>, line.at,
                     Sid(state.session), None, OutcomePayload("task", "succeeded", turn))})

\* One line of CodexAdapter.read, the n-th of the file.
ReadLine(state, line, n, rollouts, since) ==
  CASE line.type = "malformed" -> state
    [] line.type = "session_meta" -> ReadMeta(state, line, rollouts)
    [] line.type \notin {"malformed", "session_meta"} /\ state.skipping -> ReadInherited(state, line)
    [] line.type = "turn_context" /\ ~state.skipping ->
         [state EXCEPT !.model = IF line.model # None THEN line.model ELSE @]
    [] OTHER -> IF line.at < since \/ state.session = None THEN state
                ELSE CASE line.type = "message"       -> ReadMessage(state, line, n)
                       [] line.type = "call"          -> ReadCall(state, line, n)
                       [] line.type = "output"        -> ReadOutput(state, line)
                       [] line.type = "token_count"   -> ReadUsage(state, line, n)
                       [] line.type = "task_complete" -> ReadComplete(state, line, n)
                       [] OTHER                       -> state

\* Mutant: a call that still waits when the file ends is told without output.
ReadWithPending(lines, rollouts, since) ==
  LET state[n \in 0..Len(lines)] ==
        IF n = 0 THEN Unread ELSE ReadLine(state[n - 1], lines[n], n, rollouts, since)
      end == state[Len(lines)]
  IN  Both(end.emitted,
           Yield({CodexTool(end.session, p, None) : p \in end.pending}, {}, {}))

\* CodexAdapter.read: a call that still waits when the file ends is not told,
\* "so a later append cannot mutate a stable event".
ReadCodex(lines, rollouts, since) ==
  LET state[n \in 0..Len(lines)] ==
        IF n = 0 THEN Unread ELSE ReadLine(state[n - 1], lines[n], n, rollouts, since)
  IN  state[Len(lines)].emitted

\* How a rollout is written: its first line opens the session, what a fork has
\* of its parent comes right behind it, if anything does, under turns that the
\* parent had begun by then, and after that a turn of its own.
RolloutOK(lines, rollouts) ==
  LET forked == lines[1].parent \notin {None, lines[1].id}
      turns == IF forked THEN ParentTurns(lines[1].parent, lines[1].at, rollouts) ELSE None
      behind(i) == IF i = 2 THEN forked ELSE lines[i - 1].inherited
  IN  /\ Len(lines) \in Nat /\ DOMAIN lines = 1..Len(lines)
      /\ \A i \in DOMAIN lines : lines[i].at \in Nat
      /\ lines # <<>> => /\ lines[1].type = "session_meta" /\ lines[1].id # None
                         /\ ~lines[1].inherited
      /\ \A i \in 2..Len(lines) :
           IF lines[i].inherited
           THEN /\ behind(i) \/ (i = 2 /\ lines[i].type = "session_meta")
                /\ lines[i].type = "task_started" => turns # None /\ lines[i].turn \in turns \cup {None}
           ELSE /\ lines[i].type # "session_meta"
                /\ behind(i) => /\ lines[i].type = "task_started" /\ lines[i].turn # None
                                /\ turns = None \/ lines[i].turn \notin turns
=============================================================================
