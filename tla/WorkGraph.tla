----------------------------- MODULE WorkGraph -----------------------------
(***************************************************************************)
(* What is connected to a reference: the traversals of MiltonStore         *)
(* (src/milton/store.py) over current crosswalks and relations, the event  *)
(* families below them, and the activity projection that is made of both   *)
(* (src/milton/activity.py).                                               *)
(***************************************************************************)
EXTENDS OutcomeAttribution

\* The steps along crosswalks, which are walked both ways.
Neighbors(crosswalks) == BothWays({<<x.left, x.right>> : x \in crosswalks})

Outgoing(ref, relations) == {r \in relations : r.subject = ref}
Incoming(ref, relations) == {r \in relations : r.object = ref}

\* connected_work_refs; connected_identities is the same without relations.
ConnectedWorkRefs(root, depth, crosswalks, relations) ==
  Reach({root}, Neighbors(crosswalks)
                  \cup BothWays({<<r.subject, r.object>> : r \in relations}))[depth]

\* The relations of ref that a traversal in this direction follows.
Followed(ref, direction, relations) ==
  (IF direction \in {"outgoing", "both"} THEN Outgoing(ref, relations) ELSE {})
    \cup (IF direction \in {"incoming", "both"} THEN Incoming(ref, relations) ELSE {})

\* The steps of a traversal in this direction.
Ways(direction, relations) ==
  LET forth == {<<r.subject, r.object>> : r \in relations}
  IN  CASE direction = "outgoing" -> forth
        [] direction = "incoming" -> {<<s[2], s[1]>> : s \in forth}
        [] OTHER -> BothWays(forth)

\* Mutant: the relations of the last references are reported as well.
TraverseTooFar(root, direction, depth, relations) ==
  LET within == Reach({root}, Ways(direction, relations))
  IN  [refs |-> within[depth],
       relations |-> UNION {Followed(ref, direction, relations) : ref \in within[depth]}]

\* traverse_relations: the references within depth, and the relations on the way.
TraverseRelations(root, direction, depth, relations) ==
  LET within == Reach({root}, Ways(direction, relations))
  IN  [refs |-> within[depth],
       relations |-> IF depth = 0 THEN {}
                     ELSE UNION {Followed(ref, direction, relations) : ref \in within[depth - 1]}]

-----------------------------------------------------------------------------
\* event_family: the seeds with their sessions and parents and everything
\* below any of these, also below one whose own event is not in the index.
EventFamily(seeds, events) ==
  LET up == UNION {{e.id} \X ({e.session, e.parent} \ {None}) : e \in events}
      ids == Reach(seeds, BothWays(up))[2 * Cardinality(events)]
  IN  {e \in events : e.id \in ids}

\* _REFERENCE_EVENT_MAP: the adapter and the kind of the event a reference names.
EventMap ==
  {<<"claude-code.session", "claude-code", "session">>, <<"codex.session", "codex", "session">>,
   <<"fab.job", "fab", "session">>, <<"hermes.session", "hermes", "session">>,
   <<"opencode.session", "opencode", "session">>, <<"somm.session", "somm", "session">>,
   <<"somm.call", "somm", "model_call">>,
   <<"george.gate-event", "george", "gate_evidence">>,
   <<"george.gate-mint", "george", "gate_evidence">>}
  \cup ({"chip.candidate-receipt"} \X {"chip"} \X {"outcome"})
  \cup ({"fab.attempt", "fab.verifier"} \X {"fab"} \X {"outcome"})
  \cup ({"george.entry", "george.disposition"} \X {"george"} \X {"outcome"})
  \cup ({"git.commit-instance"} \X {"git"} \X {"outcome"})
  \cup ({"spindle.evaluation-receipt", "spindle.promotion-receipt"} \X {"spindle"} \X {"outcome"})
  \cup ({"somm.call-update", "somm.campaign", "somm.campaign-event", "somm.decision",
         "somm.eval-receipt", "somm.eval-result", "somm.recommendation"}
        \X {"somm"} \X {"outcome"})

EventsForRef(ref, events) ==
  {e \in events : <<ref.ns, e.adapter, e.kind>> \in EventMap /\ e.native = ref.value}

\* Mutant: only an event that is there starts a family.
SeedsOfStored(ref, events) == {e.id : e \in EventsForRef(ref, events)}

\* A session or job whose own event was not read still has a known id.
Seeds(ref, events) ==
  IF EventsForRef(ref, events) # {} THEN {e.id : e \in EventsForRef(ref, events)}
  ELSE {EventId(m[2], "session", ref.value) : m \in {m \in EventMap : m[1] = ref.ns /\ m[3] = "session"}}

\* build_activity.
Activity(root, depth, events, crosswalks, relations) ==
  LET refs == ConnectedWorkRefs(root, depth, crosswalks, relations)
      family == EventFamily(UNION {Seeds(ref, events) : ref \in refs}, events)
  IN  [refs      |-> refs,
       links     |-> {x \in crosswalks : x.left \in refs /\ x.right \in refs},
       relations |-> {r \in relations : r.subject \in refs /\ r.object \in refs},
       events    |-> family,
       accounting |-> Accounting(family)]
=============================================================================
