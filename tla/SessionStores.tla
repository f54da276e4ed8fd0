--------------------------- MODULE SessionStores ---------------------------
(***************************************************************************)
(* The adapters of harnesses that keep sessions in a SQLite database of    *)
(* their own, and update its rows: src/milton/adapters/hermes.py and       *)
(* opencode.py.  A database is a set of sessions, each with its messages   *)
(* in order; a window selects the sessions begun in it, with all they say. *)
(***************************************************************************)
EXTENDS Records

BegunIn(sessions, since) == {s \in sessions : s.at >= since}

ParentJoin(namespace, s) ==
  {CrosswalkRecord(Ref(namespace, s.id), Ref(namespace, p)) : p \in {s.parent} \ {None}}

-----------------------------------------------------------------------------
(* Hermes.                                                                 *)

HermesSession(s) == EventId("hermes", "session", s.id)
HermesEvent(s, kind, native, at, payload) ==
  NormalizedEvent("hermes", kind, native, at, HermesSession(s), None, payload)

\* _cost_kind: what the amount is worth depends on how the session is billed.
BillingKind(mode) ==
  CASE mode = "included" -> "included"
    [] mode \in {"subscription", "metered", "notional"} -> "notional"
    [] mode \in {"payg", "actual"} -> "marginal"
    [] OTHER -> "unknown"

\* _session_cost: a session is billed as a whole; the amount is what it did
\* cost, if that is known, or else what it is estimated to.
HermesCost(s) ==
  HermesEvent(s, "cost", <<"cost", s.id>>, s.at,
    [amount |-> IF s.actual # None THEN s.actual ELSE s.estimated,
     basis |-> IF s.actual # None THEN "reported" ELSE "computed",
     accuracy |-> IF s.actual # None THEN "actual" ELSE "estimated",
     economic |-> BillingKind(s.billing), role |-> "unknown", authority |-> "hermes",
     scope |-> "source", key |-> <<"hermes.session", s.id>>])

HermesOpened(s) ==
  NormalizedEvent("hermes", "session", s.id, s.at, None, None,
                  [status |-> IF s.ended # None THEN s.ended ELSE "running"])

\* What a message says, and the model call it answers.
HermesMessage(s, m) ==
  (IF m.text /\ m.role \in {"user", "assistant", "system"}
   THEN {HermesEvent(s, "turn", <<"message", s.id, m.id>>, m.at, [role |-> m.role])} ELSE {})
  \cup (IF m.role = "assistant"
        THEN {HermesEvent(s, "model_call", <<"model", s.id, m.id>>, m.at, [model |-> s.model])}
        ELSE {})

\* _tool_event: told at the message that made the call.
HermesTool(s, m, call) ==
  HermesEvent(s, "tool_call", <<"tool", s.id, call>>, m.at, [message |-> m.id])

\* A result makes an event of the latest call of that id that still waits for one.
HermesTools(s) ==
  LET waits(i, j) == /\ i < j /\ s.messages[j].role = "tool"
                     /\ s.messages[j].call \in s.messages[i].calls
                     /\ \A k \in (i + 1)..(j - 1) :
                          /\ s.messages[j].call \notin s.messages[k].calls
                          /\ s.messages[k].role = "tool" => s.messages[k].call # s.messages[j].call
  IN  {HermesTool(s, s.messages[p[1]], s.messages[p[2]].call) :
         p \in {p \in (DOMAIN s.messages) \X (DOMAIN s.messages) : waits(p[1], p[2])}}

\* HermesAdapter.read
ReadHermes(sessions, since) ==
  All({Yield({HermesOpened(s), HermesCost(s)} \cup HermesTools(s)
               \cup UNION {HermesMessage(s, m) : m \in ToSet(s.messages)},
             ParentJoin("hermes.session", s), {}) : s \in BegunIn(sessions, since)})

-----------------------------------------------------------------------------
(* OpenCode.                                                               *)

OpenCodeSession(s) == EventId("opencode", "session", s.id)
OpenCodeEvent(s, kind, native, at, parent, payload) ==
  NormalizedEvent("opencode", kind, native, at, OpenCodeSession(s), parent, payload)

OpenCodeOpened(s) ==
  NormalizedEvent("opencode", "session", s.id, s.at, None, None,
                  [status |-> IF s.archived THEN "archived" ELSE None, title |-> s.title])

\* _model_records: an answer, with what it cost as far as that is known.
OpenCodeAnswer(s, m) ==
  LET call == OpenCodeEvent(s, "model_call", <<"model", s.id, m.id>>, m.at, None,
                            [status |-> IF m.error THEN "failed" ELSE "succeeded"])
  IN  IF m.role # "assistant" THEN {}
      ELSE {call,
            OpenCodeEvent(s, "cost", <<"cost", s.id, m.id>>, m.at, call.id,
              [amount |-> m.amount, basis |-> "reported", economic |-> "unknown",
               accuracy |-> "unknown", role |-> "unknown", authority |-> "opencode",
               scope |-> "source", key |-> <<"opencode.message", s.id, m.id>>])}

ToolStatus(status) ==
  CASE status = "completed" -> "succeeded"
    [] status = "error" -> "failed"
    [] status \in {"running", "pending"} -> "started"
    [] OTHER -> "unknown"

\* _tool_record: a tool is told also while it runs.
OpenCodeTool(s, part) ==
  OpenCodeEvent(s, "tool_call", <<"tool", s.id, part.call>>, part.at, None,
                [status |-> ToolStatus(part.status)])

\* A part of a message.
OpenCodePart(s, part) ==
  CASE part.type = "text" ->
         {OpenCodeEvent(s, "turn", <<"part", s.id, part.id>>, part.at, None, [text |-> TRUE])}
    [] part.type = "tool" -> {OpenCodeTool(s, part)}
    [] OTHER -> {}

\* OpenCodeAdapter.read
ReadOpenCode(sessions, since) ==
  All({Yield({OpenCodeOpened(s)}
               \cup UNION {OpenCodeAnswer(s, m) \cup UNION {OpenCodePart(s, p) : p \in m.parts} :
                             m \in ToSet(s.messages)},
             ParentJoin("opencode.session", s), {}) : s \in BegunIn(sessions, since)})
=============================================================================
