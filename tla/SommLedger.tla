----------------------------- MODULE SommLedger -----------------------------
(***************************************************************************)
(* The adapter of Somm, src/milton/adapters/somm.py.  A Somm database is a *)
(* record of its tables, each a set of rows; an older one lacks all tables *)
(* but the calls.  A row is a record of what is read of it, with None for  *)
(* NULL.  A row in which something does not parse is not in the set.       *)
(***************************************************************************)
EXTENDS Records, FiniteSetsExt

SommSession(session) == EventId("somm", "session", session)
CallId(call) == EventId("somm", "model_call", call)
CallRef(call) == Ref("somm.call", call)

SommOutcome(native, at, parent, type, status, reference) ==
  NormalizedEvent("somm", "outcome", native, at, None, parent,
                  OutcomePayload(type, status, reference))

Told(event, crosswalks, relations) == Yield({event}, crosswalks, relations)

\* A relation that a row states, resting on the event of the row.
States(event, subject, predicate, object) ==
  RelationRecord(subject, predicate, object, {event.id})

Given(value) == {value} \ {None}
InWindow(rows, since) == {row \in rows : row.at >= since}

-----------------------------------------------------------------------------
(* Calls.                                                                  *)

\* Mutant: a session begins at each of its calls.
SessionPerCall(rows) ==
  {NormalizedEvent("somm", "session", row.session, row.at, None, None, <<>>) :
     row \in {row \in rows : row.session # None}}

\* A session is told at the first of its calls that is read.
CallSessions(rows) ==
  {NormalizedEvent("somm", "session", s, Min({row.at : row \in {row \in rows : row.session = s}}),
                   None, None, <<>>) :
     s \in {row.session : row \in rows} \ {None}}

\* _outcome_status: what the word of a row says of its outcome.
OutcomeStatus(word) ==
  CASE word \in {"ok", "success", "succeeded", "completed", "passed", "acted"} -> "succeeded"
    [] word \in {"error", "failed", "bad_json", "empty", "off_task", "timeout", "rate_limit",
                 "upstream_error", "exhausted"} -> "failed"
    [] word \in {"reverted", "revert", "refuted"} -> "reverted"
    [] word \in {"abandoned", "dismissed", "stopped", "plateau", "budget_exhausted"} -> "abandoned"
    [] OTHER -> "unknown"

CallStatus(outcome) ==
  IF outcome \in {"ok", "success", "succeeded"} THEN "succeeded" ELSE "failed"

CallSession(row) == IF row.session = None THEN None ELSE SommSession(row.session)

CallEvent(row) ==
  NormalizedEvent("somm", "model_call", row.id, row.at, CallSession(row),
    IF row.parent = None THEN None ELSE CallId(row.parent),
    [status |-> CallStatus(row.outcome), model |-> row.model, role |-> row.role,
     source |-> row.source])

\* _accounting_key: the provider's request is known to other tools too.
CallUnit(row) ==
  IF row.request # None THEN [scope |-> "shared", key |-> <<"provider.request", row.request>>]
  ELSE [scope |-> "source", key |-> <<"somm.call", row.id>>]

\* A local call without a price has no amount.
Unpriced(row) == row.basis = "unknown" /\ row.economic = "included" /\ row.local

\* _cost_basis, _cost_kind, _cost_accuracy, _observation_role: what NULL means.
Or(value, default) == IF value = None THEN default ELSE value

CallCost(row) ==
  NormalizedEvent("somm", "cost", <<"cost", row.id>>, row.at, CallSession(row), CallId(row.id),
    [scope |-> CallUnit(row).scope, key |-> CallUnit(row).key,
     amount |-> IF Unpriced(row) THEN None ELSE row.amount, authority |-> "somm",
     basis |-> Or(row.basis, "computed"), economic |-> Or(row.economic, "unknown"),
     accuracy |-> Or(row.accuracy, "estimated"), role |-> Or(row.role, "production")])

CallCrosswalks(row) ==
  {CrosswalkRecord(CallRef(row.id), Ref("somm.session", s)) : s \in Given(row.session)}
  \cup {CrosswalkRecord(CallRef(row.id), Ref("correlation", c)) : c \in Given(row.correlation)}
  \cup {CrosswalkRecord(CallRef(row.id), Ref("somm.workload", w)) : w \in Given(row.workload)}

\* The job of a legacy call is its correlation; an attempt's relation to its
\* calls is left to the receipt of Fab.
CallRelations(row) ==
  {States(CallEvent(row), CallRef(row.id), "part_of", Ref("somm.eval-result", r)) :
     r \in Given(row.result)}
  \cup {States(CallEvent(row), Ref("fab.job", c), "produced", CallRef(row.id)) :
          c \in {c \in Given(row.correlation) : row.project = "fab" /\ ~row.attempt}}

ReadCalls(rows) ==
  All({Yield(CallSessions(rows), {}, {})}
      \cup {Yield({CallEvent(row), CallCost(row)}, CallCrosswalks(row), CallRelations(row)) :
              row \in rows})

-----------------------------------------------------------------------------
(* The evidence tables.                                                    *)

\* _read_eval_results
ReadResult(row) ==
  LET event == SommOutcome(row.id, row.at, CallId(row.call), "somm.eval-result",
                           IF row.scored THEN "succeeded" ELSE "unknown", row.call)
  IN  Told(event, {}, {States(event, Ref("somm.eval-result", row.id), "evaluates", CallRef(row.call))})

\* _procedure_outcome_payload: a procedure outcome counts only with its whole
\* origin, both tuples, both scores and both calls.
ProcedureOf(row) ==
  IF row.type = "procedure_outcome" /\ row.procedure # None THEN row.procedure ELSE None

\* _read_eval_receipts
ReadEvalReceipt(row) ==
  LET procedure == ProcedureOf(row)
      ref == Ref("somm.eval-receipt", row.id)
      about == IF row.call # None THEN row.call ELSE row.source
      event == NormalizedEvent("somm", "outcome", row.id, row.at, None,
                 IF row.result = None THEN None ELSE EventId("somm", "outcome", row.result),
                 [type |-> "somm.eval-receipt." \o row.type, status |-> "succeeded",
                  reference |-> about, procedure |-> procedure])
      calls == ({row.call, row.source} \cup row.candidates) \ {None}
  IN  Told(event,
        {CrosswalkRecord(ref, Ref("somm.eval-run", r)) : r \in Given(row.run)},
        {States(event, ref, "part_of", Ref("somm.eval-result", r)) : r \in Given(row.result)}
        \cup {States(event, ref, "evaluates", CallRef(c)) : c \in calls}
        \cup {States(event, CallRef(s[1]), "evaluates", Ref("git.commit", s[2])) :
                s \in calls \X Given(row.implementation)}
        \cup {States(event, ref, "evaluates", Ref("spindle.promotion-receipt", p.promotion)) :
                p \in Given(procedure)}
        \cup {States(event, ref, "verifies", Ref("fab.job", p.job)) : p \in Given(procedure)})

\* _read_campaigns: a campaign is told at its last change, with the sum of what
\* it cost, which is no amount of its own.
ReadCampaign(row) ==
  LET event == SommOutcome(row.id, row.at, None, "somm.campaign",
                           OutcomeStatus(row.status), row.workload)
  IN  Yield({event,
             NormalizedEvent("somm", "cost", <<"campaign-rollup", row.id>>, row.at, None, event.id,
               [role |-> "rollup", amount |-> row.amount, authority |-> "somm", basis |-> "computed",
                economic |-> "unknown", accuracy |-> "unknown", scope |-> "source",
                key |-> <<"somm.campaign", row.id>>])}, {}, {})

\* _read_campaign_events
ReadCampaignEvent(row) ==
  LET event == SommOutcome(row.id, row.at, EventId("somm", "outcome", row.campaign),
                           "somm.campaign-event",
                           CASE row.action = "keep"   -> "succeeded"
                             [] row.action = "revert" -> "reverted"
                             [] row.action = "stop"   -> "abandoned"
                             [] OTHER                 -> "unknown", row.campaign)
      ref == Ref("somm.campaign-event", row.id)
  IN  Told(event, {CrosswalkRecord(ref, Ref("somm.eval-run", r)) : r \in Given(row.run)},
           {States(event, ref, "part_of", Ref("somm.campaign", row.campaign))})

\* _read_decisions
ReadDecision(row) ==
  LET event == SommOutcome(row.id, row.at, None, "somm.decision", "succeeded", row.workload)
  IN  Told(event, {}, {States(event, Ref("somm.decision", row.id), "acts_on",
                              Ref("somm.workload", w)) : w \in Given(row.workload)})

\* _read_recommendations: told when it was made, until it is applied or dismissed.
ReadRecommendation(row) ==
  LET event == SommOutcome(row.id, row.at, None, "somm.recommendation",
                           CASE row.applied -> "succeeded"
                             [] ~row.applied /\ row.dismissed -> "abandoned"
                             [] OTHER -> "unknown", row.workload)
  IN  Told(event, {}, {States(event, Ref("somm.recommendation", row.id), "acts_on",
                              Ref("somm.workload", row.workload))})

\* _read_call_updates: what became known of a call later is an event of its own.
ReadCallUpdate(row) ==
  LET event == SommOutcome(row.id, row.at, CallId(row.call), "somm.call-update",
                           IF row.field = "outcome" THEN OutcomeStatus(row.value) ELSE "unknown",
                           row.call)
  IN  Told(event, {}, {States(event, Ref("somm.call-update", row.id), "acts_on", CallRef(row.call))})

\* SommAdapter.read of the window from since on.
ReadSomm(tables, since) ==
  LET rows(table) == IF table \in DOMAIN tables THEN InWindow(tables[table], since) ELSE {}
  IN  All({ReadCalls(rows("calls"))}
          \cup {ReadResult(row)        : row \in rows("eval_results")}
          \cup {ReadEvalReceipt(row)   : row \in rows("eval_receipts")}
          \cup {ReadCampaign(row)      : row \in rows("campaigns")}
          \cup {ReadCampaignEvent(row) : row \in rows("campaign_events")}
          \cup {ReadDecision(row)      : row \in rows("decisions")}
          \cup {ReadRecommendation(row): row \in rows("recommendations")}
          \cup {ReadCallUpdate(row)    : row \in rows("call_updates")})
=============================================================================
