------------------------------ MODULE Records ------------------------------
(***************************************************************************)
(* The records that adapters make of what a source holds: normalized       *)
(* events (src/milton/model.py), crosswalks and relations.  A payload is a *)
(* record of the fields that some projection reads, or of `detail` for     *)
(* all that is only stored.  Every adapter module reads a content into     *)
(* the set of its records, each tagged with the table it goes to.          *)
(***************************************************************************)
EXTENDS Naturals, Sequences, FiniteSets, SequencesExt

CONSTANTS
  None,            \* Python's None
  EventId(_, _, _) \* stable_id("evt", adapter, kind, native id)

\* Python's order of tuples.
Before(a, b) ==
  \E i \in DOMAIN a : (\A j \in 1..(i - 1) : a[j] = b[j]) /\ a[i] < b[i]

Ref(ns, value) == [ns |-> ns, value |-> value]

\* NormalizedEvent.create: the identity of an event is where it was found, not
\* what it says.
NormalizedEvent(adapter, kind, native, at, session, parent, payload) ==
  LET source == [id |-> EventId(adapter, kind, native), kind |-> kind, adapter |-> adapter,
                 native |-> native, at |-> at, session |-> session, parent |-> parent]
  IN  [f \in DOMAIN payload \cup DOMAIN source |->
         IF f \in DOMAIN payload THEN payload[f] ELSE source[f]]

\* What NormalizedEvent.create and the enums of the payloads insist on.
WellFormed(e) ==
  /\ e.id # None /\ e.at \in Nat
  /\ e.kind = "session" => e.id = EventId(e.adapter, e.kind, e.native)
  /\ e.kind = "cost" => /\ e.basis \in {"reported", "computed", "unknown"}
                        /\ e.accuracy \in {"actual", "estimated", "unknown"}
                        /\ e.scope \in {"shared", "source", "unknown"}
                        /\ e.amount = None \/ e.amount \in Nat

OutcomePayload(type, status, reference) ==
  [type |-> type, status |-> status, reference |-> reference]

\* CrosswalkRecord.create and RelationRecord.create: always of confidence 1 here.
CrosswalkRecord(left, right) == [left |-> left, right |-> right]

RelationRecord(subject, predicate, object, evidence) ==
  [subject |-> subject, predicate |-> predicate, object |-> object,
   method |-> "source_receipt", evidence |-> evidence]

\* What one read of a source yields.
Nothing == [events |-> {}, crosswalks |-> {}, relations |-> {}]
Yield(events, crosswalks, relations) ==
  [events |-> events, crosswalks |-> crosswalks, relations |-> relations]
Both(a, b) == [t \in DOMAIN a |-> a[t] \cup b[t]]
All(yields) == [t \in DOMAIN Nothing |-> UNION {y[t] : y \in yields}]
=============================================================================
