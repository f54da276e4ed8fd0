-------------------------- MODULE MCEvidenceIndex --------------------------
(***************************************************************************)
(* Installations whose records are given as they are: sources of several   *)
(* tools hold records of the same work, and some links are in doubt.       *)
(***************************************************************************)
EXTENDS Projections

LexicalOrder == <<"barnowl-research-outcome", "chip", "claude-code", "codex", "fab", "george",
                  "git", "hermes", "opencode", "provider", "somm">>

Event(id, kind, adapter, native, parent, session) ==
  [id |-> id, kind |-> kind, adapter |-> adapter, native |-> native,
   parent |-> parent, session |-> session, at |-> id]

Outcome(id, adapter, native, session, type, reference, status) ==
  [id |-> id, kind |-> "outcome", adapter |-> adapter, native |-> native,
   parent |-> None, session |-> session, at |-> id,
   type |-> type, reference |-> reference, status |-> status]

Cost(id, adapter, parent, session, role, amount, unit, economic, quality, authority) ==
  [id |-> id, kind |-> "cost", adapter |-> adapter, native |-> id,
   parent |-> parent, session |-> session, at |-> id,
   role |-> role, amount |-> amount, scope |-> unit[1], key |-> unit[2],
   economic |-> economic, basis |-> quality[1], accuracy |-> quality[2],
   authority |-> authority]

Relation(subject, predicate, object, method, evidence) ==
  [subject |-> subject, predicate |-> predicate, object |-> object,
   method |-> method, evidence |-> evidence]
Join(left, right) == [left |-> left, right |-> right]

Estimate == <<"computed", "estimated">>
NoUnit == <<"unknown", None>>

Session == Ref("codex.session", "s")
Job == Ref("fab.job", "j")
Attempt == Ref("fab.attempt", "a")
Commit == Ref("git.commit", "g")
Entry == Ref("george.entry", "e")

\* A Codex session that Fab ran as an attempt of a job, with the George entry
\* that verifies the job and the commit the job produced.
Workday ==
  LET produced == Relation(Attempt, "produced", Session, "source_receipt", {})
  IN  [events |->
         {Event(1, "session", "codex", "s", None, None),
          Event(8, "session", "fab", "j", None, None),
          Cost(2, "codex", None, 1, "production", 2, NoUnit, "notional", Estimate, None),
          Outcome(3, "fab", "t", 8, "fab.job", "j", "succeeded"),
          Outcome(4, "fab", "a", 8, "fab.attempt", "j", "failed"),
          Outcome(5, "git", "g", None, "git.commit", "g", "succeeded"),
          Outcome(6, "george", "e", None, "george.done", None, "succeeded")},
       crosswalks |-> {Join(Entry, Session), Join(Job, Session)},
       relations |->
         {produced,
          Relation(Attempt, "attempt_of", Job, "source_receipt", {}),
          Relation(Entry, "verifies", Job, "source_receipt", {}),
          Relation(Job, "produced", Commit, "source_receipt", {})},
       doubtful |-> {produced}]

Call == Ref("somm.call", "c")

\* Somm calls with their costs, for two commits and a Barnowl outcome.
Calls ==
  LET left == Relation(Call, "evaluates", Commit, "source_receipt", {})
  IN  [events |->
         {Event(9, "session", "somm", "s", None, None),
          Event(1, "model_call", "somm", "c", None, 9),
          Cost(2, "somm", 1, 9, "production", 2, NoUnit, "marginal", Estimate, "somm"),
          Cost(3, "somm", 1, 9, "shadow-judge", 2, NoUnit, "marginal", Estimate, "somm"),
          Outcome(4, "git", "g", None, "git.commit", "g", "succeeded"),
          Outcome(5, "git", "h", None, "git.commit", "h", "succeeded"),
          Outcome(6, "barnowl-research-outcome", "b", None, Barnowl, "b", "succeeded")},
       crosswalks |-> {},
       relations |->
         {left,
          Relation(Call, "evaluates", Ref("git.commit", "h"), "source_receipt", {}),
          Relation(Call, "produced", Ref(Barnowl, "b"), "source_receipt", {6}),
          Relation(Call, "part_of", Attempt, "source_receipt", {})},
       doubtful |-> {left}]

\* The same provider request seen by several tools, and amounts that only
\* look the same.
Shared == <<"shared", "req">>
Local == <<"source", "req">>
Bills ==
  [events |->
     {Cost(1, "somm", None, None, "production", 3, Shared, "marginal",
           <<"reported", "estimated">>, None),
      Cost(2, "opencode", None, None, "production", 4, Shared, "marginal", Estimate, None),
      Cost(3, "codex", None, None, "production", 5, Shared, "marginal",
           <<"computed", "actual">>, "provider"),
      Cost(4, "codex", None, None, "production", 7, Shared, "notional", Estimate, None),
      Cost(5, "hermes", None, None, "production", 1, Local, "marginal", Estimate, None),
      Cost(6, "opencode", None, None, "production", 1, Local, "marginal", Estimate, None),
      Cost(7, "fab", None, None, "rollup", 9, Local, "unknown", <<"unknown", "unknown">>, "fab"),
      Cost(8, "codex", None, None, "production", None, Shared, "included",
           <<"reported", "actual">>, None)},
   crosswalks |-> {}, relations |-> {}, doubtful |-> {}]

\* Ids of events: a number for the sessions above, what it is made of otherwise.
EventIdOf(adapter, kind, native) ==
  CASE <<adapter, kind, native>> = <<"codex", "session", "s">> -> 1
    [] <<adapter, kind, native>> = <<"somm", "session", "s">>  -> 9
    [] <<adapter, kind, native>> = <<"fab", "session", "j">>   -> 8
    [] <<adapter, kind, native>> = <<"hermes", "session", "h">> -> 2
    [] OTHER -> <<adapter, kind, native>>

\* They have nothing to be read from.
AsTold(a) == a @@ [history |-> << <<>> >>, bounds |-> {0}, asked |-> NothingAsked]

Recorded == {AsTold(Workday), AsTold(Calls), AsTold(Bills)}
=============================================================================
