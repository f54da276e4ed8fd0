------------------------- MODULE OutcomeAttribution -------------------------
(***************************************************************************)
(* Outcome attribution of src/milton/outcomes.py: each selected amount is  *)
(* given to one outcome of the work it was spent on, or to none, by        *)
(* walking the graph that crosswalks, relations and attempts make of       *)
(* references.  A reference is [ns, value]; a walk is reduced to where it  *)
(* ends and whether a relation that supports attribution is on it.         *)
(***************************************************************************)
EXTENDS Accounting

CONSTANT MaxDepth   \* build_outcome_attribution's max_depth

ASSUME MaxDepthAssumption == MaxDepth \in Nat \ {0}

\* What is reached within n steps, for every n.  A step is a pair: where it is
\* taken and where it leads.
Ahead(places, steps) == {s[2] : s \in {s \in steps : s[1] \in places}}
Reach(start, steps) ==
  LET within[n \in Nat] ==
        IF n = 0 THEN start
        ELSE LET before == within[n - 1] IN before \cup Ahead(before, steps)
  IN  within
BothWays(steps) == steps \cup {<<s[2], s[1]>> : s \in steps}

Barnowl == "barnowl.research-outcome"
OutcomePrecedence == <<"git.commit", "george.entry", "fab.job", "fab.attempt", Barnowl>>
Rank(c) == IndexOf(OutcomePrecedence, c.type)

-----------------------------------------------------------------------------
(* Roots: what the cost was spent in.                                      *)

SessionNamespace(adapter) ==
  CASE adapter = "claude-code" -> "claude-code.session"
    [] adapter = "codex"       -> "codex.session"
    [] adapter = "fab"         -> "fab.job"
    [] adapter = "hermes"      -> "hermes.session"
    [] adapter = "opencode"    -> "opencode.session"
    [] adapter = "somm"        -> "somm.session"
    [] OTHER                   -> None

EventRef(e) ==
  CASE e.kind = "session" /\ SessionNamespace(e.adapter) # None ->
         Ref(SessionNamespace(e.adapter), e.native)
    [] e.kind = "model_call" /\ e.adapter = "somm" -> Ref("somm.call", e.native)
    [] OTHER -> None

\* The events the cost belongs to, by way of parents and sessions; an id whose
\* event is not in the index ends the way.
Lineage(cost, events) ==
  LET up == UNION {{e.id} \X {e.parent, e.session} : e \in events}
      above == Reach({cost.parent, cost.session}, up)[Cardinality(events)]
  IN  {e \in events : e.id \in above} \ {cost}

Roots(cost, events) == {EventRef(e) : e \in Lineage(cost, events)} \ {None}

\* The Somm call a Somm cost was reported of, or None: ancestors do not count.
CallRoot(cost, events) ==
  IF \E p \in events : /\ cost.adapter = "somm"
                       /\ p.id = cost.parent
                       /\ p.kind = "model_call" /\ p.adapter = "somm"
  THEN EventRef(CHOOSE p \in events : p.id = cost.parent)
  ELSE None

-----------------------------------------------------------------------------
(* Candidates: the outcomes of the index.                                  *)

CandidateRef(e) ==
  CASE e.type = "git.commit" /\ e.reference # None -> Ref("git.commit", e.reference)
    [] e.adapter = "george" /\ e.type # None -> Ref("george.entry", e.native)
    [] e.type = "fab.job" /\ e.reference # None -> Ref("fab.job", e.reference)
    [] e.type = "fab.attempt" -> Ref("fab.attempt", e.native)
    [] e.type = Barnowl /\ e.adapter = "barnowl-research-outcome" /\ e.reference # None ->
         Ref(Barnowl, e.reference)
    [] OTHER -> None

\* One candidate per outcome of the types asked for, told by its latest event.
\* The type of a candidate is the namespace of its reference.
Candidates(events, types) ==
  LET outcomes == {e \in events : /\ e.kind = "outcome"
                                  /\ CandidateRef(e) # None
                                  /\ CandidateRef(e).ns \in types}
      latest == {e \in outcomes :
                   \A f \in outcomes \ {e} :
                      CandidateRef(f) = CandidateRef(e) =>
                         Before(<<f.at, f.id>>, <<e.at, e.id>>)}
  IN  {[type |-> CandidateRef(e).ns, ref |-> CandidateRef(e),
        event |-> e.id, status |-> e.status] : e \in latest}

-----------------------------------------------------------------------------
(* The graph.                                                              *)

Work == {"somm.call", "git.commit", "codex.session", "claude-code.session", "opencode.session"}

\* The relations that say which work an outcome is of; their direction as
\* stated matters, not the one they are walked in.
SupportsAttribution(r) ==
  <<r.predicate, r.subject.ns, r.object.ns>> \in
     ({"produced"} \X {"fab.job", "fab.attempt"} \X Work)
     \cup ({"verifies"} \X {"george.entry"} \X {"fab.job", "git.commit"})
     \cup {<<"attempt_of", "fab.attempt", "fab.job">>,
           <<"part_of", "somm.call", "fab.attempt">>,
           <<"part_of", "fab.attempt", "fab.job">>,
           <<"evaluates", "somm.call", "git.commit">>}

Edge(from, to, supports) == [from |-> from, to |-> to, supports |-> supports]

\* Crosswalks and relations are walked both ways, from a job to its attempts
\* one way.
Edges(crosswalks, relations, events) ==
  (UNION {{Edge(x.left, x.right, FALSE), Edge(x.right, x.left, FALSE)} : x \in crosswalks})
  \cup (UNION {{Edge(r.subject, r.object, SupportsAttribution(r)),
                Edge(r.object, r.subject, SupportsAttribution(r))} : r \in relations})
  \cup {Edge(Ref("fab.job", e.reference), Ref("fab.attempt", e.native), FALSE) :
           e \in {f \in events : /\ f.kind = "outcome" /\ f.type = "fab.attempt"
                                 /\ f.reference # None}}

\* Mutant: a reference is walked to once, supported or not.
WalksOncePerReference(roots, edges) ==
  LET within[d \in Nat] ==
        IF d = 0 THEN roots \X {FALSE}
        ELSE LET before == within[d - 1]
                 seen == {w[1] : w \in before}
             IN  before \cup {<<s[2].to, s[1][2] \/ s[2].supports>> :
                                s \in {s \in before \X edges : /\ s[1][1] = s[2].from
                                                              /\ s[2].to \notin seen}}
  IN  within[MaxDepth]

\* _walk_graph: the ends of the walks from the roots of at most MaxDepth
\* steps, each with whether the walk is supported.  The queue is in the order
\* of length, so that each end is met first by a shortest walk.
Walks(roots, edges) ==
  LET steps == {<< <<e.from, used>>, <<e.to, used \/ e.supports>> >> : e \in edges, used \in BOOLEAN}
  IN  Reach(roots \X {FALSE}, steps)[MaxDepth]

-----------------------------------------------------------------------------
(* Attribution.                                                            *)

\* The direct relation in which the receipt of a Barnowl outcome names the call.
IsReceiptOf(r, call, c) ==
  /\ r.predicate = "produced" /\ r.method = "source_receipt"
  /\ r.subject = call /\ r.subject.ns = "somm.call"
  /\ r.object = c.ref /\ c.event \in r.evidence

\* Mutant: any supported walk to a Barnowl outcome will do.
IsEligibleByWalk(c, call, walks, relations) == <<c.ref, TRUE>> \in walks

IsEligible(c, call, walks, relations) ==
  IF c.type = Barnowl
  THEN call # None /\ \E r \in relations : IsReceiptOf(r, call, c)
  ELSE <<c.ref, TRUE>> \in walks

Record(cost, state, reason, best) ==
  [cost |-> cost, state |-> state, reason |-> reason, best |-> best]

\* _attribute_cost.  best: the eligible candidates of the best type.
Attribute(cost, events, relations, candidates, edges) ==
  LET roots == Roots(cost, events)
      walks == Walks(roots, edges)
      call == CallRoot(cost, events)
      eligible == {c \in candidates : IsEligible(c, call, walks, relations)}
      reached == {c \in candidates : \E used \in BOOLEAN : <<c.ref, used>> \in walks}
      best == {c \in eligible : \A d \in eligible : Rank(c) <= Rank(d)}
  IN  CASE roots = {} -> Record(cost, "unallocated", "no-root-reference", {})
        [] roots # {} /\ eligible = {} ->
             Record(cost, "unallocated",
                    IF reached = {} THEN "no-outcome-path" ELSE "association-only", {})
        [] roots # {} /\ Cardinality(best) = 1 ->
             Record(cost, "attributed", "exact-directed-path", best)
        [] OTHER -> Record(cost, "ambiguous", "competing-outcomes", best)

\* Mutant: a windowed projection reads the window only.
AttributionsInWindow(events, crosswalks, relations, window, types) ==
  LET read == {e \in events : e.id \in window}
      edges == Edges(crosswalks, relations, read)
  IN  {Attribute(cost, read, relations, Candidates(read, types), edges) : cost \in Selected(read)}

\* Mutant: the whole index is selected from, and then the window is cut out.
AttributionsCutLate(events, crosswalks, relations, window, types) ==
  LET candidates == Candidates(events, types)
      edges == Edges(crosswalks, relations, events)
  IN  {Attribute(cost, events, relations, candidates, edges) :
         cost \in {c \in Selected(events) : c.id \in window}}

\* The costs of the window are selected among themselves; what they are
\* attributed to is looked for in all of the index.
Attributions(events, crosswalks, relations, window, types) ==
  LET candidates == Candidates(events, types)
      edges == Edges(crosswalks, relations, events)
  IN  {Attribute(cost, events, relations, candidates, edges) :
         cost \in Selected({e \in events : e.id \in window})}

TotalOf(records, state) == Amount({r.cost : r \in {r \in records : r.state = state}})

\* Mutant: the amounts of an outcome are collected in a set.
RollupsOfAmounts(records) ==
  LET attributed == {r \in records : r.state = "attributed"}
      key(r) == <<CHOOSE c \in r.best : TRUE, r.cost.economic>>
  IN  {[key |-> key(r),
        amount |-> SumSet({q.cost.amount : q \in {q \in attributed : key(q) = key(r)}})] :
         r \in attributed}

\* _rollups: the amount of each outcome, by economic kind.
Rollups(records) ==
  LET attributed == {r \in records : r.state = "attributed"}
      key(r) == <<CHOOSE c \in r.best : TRUE, r.cost.economic>>
  IN  {[key |-> key(r),
        amount |-> Amount({q.cost : q \in {q \in attributed : key(q) = key(r)}})] :
         r \in attributed}
=============================================================================
