--------------------------- MODULE EvidenceIndex ---------------------------
(***************************************************************************)
(* What the projections say of an index while it fills.  Adapters append   *)
(* events, crosswalks and relations in whatever order their sources are    *)
(* read; a crosswalk or a relation may be refuted and is then never        *)
(* current again (RelationStore and CrosswalkStore model these appends;    *)
(* here one is a step).  A projection reads what is current.               *)
(***************************************************************************)
EXTENDS WorkGraph

CONSTANT Archives   \* what the sources of an installation hold: one is chosen

VARIABLES
  archive,      \* the chosen one
  events,       \* table events
  crosswalks,   \* current_crosswalks()
  relations,    \* current_relations()
  refuted       \* links whose last record is a refutation

vars == <<archive, events, crosswalks, relations, refuted>>

Init ==
  /\ archive \in Archives
  /\ events = {}
  /\ crosswalks = {}
  /\ relations = {}
  /\ refuted = {}

\* append_event refuses an event that the index has with another content.
Consistent(found) == \A e, f \in found : e.id = f.id => e = f

AppendEvent ==
  /\ \E e \in archive.events \ events :
        /\ Consistent(events \cup {e})
        /\ events' = events \cup {e}
  /\ UNCHANGED <<archive, crosswalks, relations, refuted>>

AppendCrosswalk ==
  /\ \E x \in archive.crosswalks \ (crosswalks \cup refuted) :
        crosswalks' = crosswalks \cup {x}
  /\ UNCHANGED <<archive, events, relations, refuted>>

AppendRelation ==
  /\ \E r \in archive.relations \ (relations \cup refuted) :
        relations' = relations \cup {r}
  /\ UNCHANGED <<archive, events, crosswalks, refuted>>

Refute ==
  /\ \E l \in archive.doubtful \cap (crosswalks \cup relations) :
        /\ crosswalks' = crosswalks \ {l}
        /\ relations' = relations \ {l}
        /\ refuted' = refuted \cup {l}
  /\ UNCHANGED <<archive, events>>

Next == AppendEvent \/ AppendCrosswalk \/ AppendRelation \/ Refute

Spec == Init /\ [][Next]_vars

-----------------------------------------------------------------------------
(* Accounting.                                                             *)

SameUnit(e, f) ==
  /\ e.economic = f.economic
  /\ e.key # None /\ f.key = e.key
  /\ e.scope = f.scope /\ e.scope # "unknown"
  /\ e.scope = "source" => e.adapter = f.adapter

\* How much an observation is settled, and then how it was obtained.
Settled(e) == IndexOf(<<"actual", "estimated", "unknown">>, e.accuracy)
Obtained(e) == IndexOf(<<"reported", "computed", "unknown">>, e.basis)

\* No billable unit is counted twice, and none is lost: what is suppressed is
\* an exact duplicate of a selected production amount that is at least as
\* settled and, if equally settled, obtained at least as directly.
SuppressedByBetter ==
  LET chosen == Selected(events)
  IN  /\ \A e, f \in chosen : e # f => ~SameUnit(e, f)
      /\ \A e \in chosen : e.role # "rollup"
      /\ \A e \in events \ chosen :
            e.kind = "cost" /\ e.role # "rollup" /\ e.amount # None =>
               \E f \in chosen : /\ SameUnit(e, f)
                                 /\ Settled(f) <= Settled(e)
                                 /\ Settled(f) = Settled(e) => Obtained(f) <= Obtained(e)

\* What an index suppresses stays suppressed as it fills: totals do not swing
\* back to an amount that was already replaced.
SuppressionIsFinal ==
  [][\A e \in Suppressed(events) : e \notin Selected(events')]_vars

-----------------------------------------------------------------------------
(* Outcome attribution.                                                    *)

OutcomeTypes == {OutcomePrecedence[i] : i \in DOMAIN OutcomePrecedence}

\* The records of a projection over the costs of W.
RecordsOf(E, X, R, W) == Attributions(E, X, R, {e.id : e \in W}, OutcomeTypes)
CurrentRecords == RecordsOf(events, crosswalks, relations, events)

\* The references within n steps of some, for every n.
Near(refs, edges) == Reach(refs, {<<e.from, e.to>> : e \in edges})

\* There is a way from the roots, over a relation that supports attribution,
\* and on to the outcome, of at most MaxDepth steps.
IsSupported(roots, ref, edges) ==
  \E e \in edges :
    /\ e.supports
    /\ \E i, j \in 0..MaxDepth :
         /\ i + 1 + j <= MaxDepth
         /\ e.from \in Near(roots, edges)[i]
         /\ ref \in Near({e.to}, edges)[j]

\* What qualifies an outcome for a cost, in the words of docs/outcome-attribution.md.
Qualifies(cost, c, edges) ==
  IF c.type = Barnowl
  THEN /\ cost.adapter = "somm"
       /\ \E p \in events, r \in relations :
            /\ p.id = cost.parent /\ p.kind = "model_call" /\ p.adapter = "somm"
            /\ r.predicate = "produced" /\ r.method = "source_receipt"
            /\ r.subject = Ref("somm.call", p.native) /\ r.object = c.ref
            /\ c.event \in r.evidence
  ELSE IsSupported(Roots(cost, events), c.ref, edges)

\* A cost is attributed exactly if one outcome qualifies that no other
\* qualifying outcome equals or outranks, and ambiguous exactly if several of
\* the highest rank do.
AttributionIsExact ==
  LET edges == Edges(crosswalks, relations, events)
      candidates == Candidates(events, OutcomeTypes)
  IN  \A r \in CurrentRecords :
        LET qualified == {c \in candidates : Qualifies(r.cost, c, edges)}
            top == {c \in qualified : \A d \in qualified : Rank(c) <= Rank(d)}
        IN  /\ r.best = top
            /\ r.state = CASE Cardinality(top) = 0 -> "unallocated"
                           [] Cardinality(top) = 1 -> "attributed"
                           [] OTHER -> "ambiguous"

\* The windows a command can ask for: all of the index, or from one time until
\* before another.
Windows ==
  {events} \cup {{e \in events : since <= e.at /\ e.at < until} : since, until \in {e.at : e \in events}}

\* The commands agree on the money of a window: each amount that accounting selects
\* in it is in one of the three buckets of the attribution, the adapters of the report
\* have it all, and for each economic kind the amounts of the outcomes add up to what
\* is attributed.
AmountsReconcile ==
  \A window \in Windows :
    LET records == RecordsOf(events, crosswalks, relations, window)
        attributed == {r.cost : r \in {r \in records : r.state = "attributed"}}
    IN  /\ TotalOf(records, "attributed") + TotalOf(records, "ambiguous")
             + TotalOf(records, "unallocated") = Accounting(window).selected
        /\ SumFunction(Report(window).cost) = Accounting(window).selected
        /\ \A k \in EconomicKinds :
              SumFunction([r \in {r \in Rollups(records) : r.key[2] = k} |-> r.amount])
                = Amount({c \in attributed : c.economic = k})

\* A window changes which costs are reported on and never what is said of one:
\* a cost that the whole index selects is selected in every window it is in,
\* and has the outcomes there that it has in the whole index, even if these,
\* or the work in between, are outside the window.
WindowsAgree ==
  \A window \in Windows :
    {r \in CurrentRecords : r.cost \in window}
      \subseteq RecordsOf(events, crosswalks, relations, window)

\* More evidence never un-attributes: unless a link is refuted, a cost that
\* has found outcomes keeps one of that rank, or finds better ones.
EvidenceOnlyAdds ==
  [][refuted' = refuted =>
       \A r \in CurrentRecords :
       \A E \in {events'}, X \in {crosswalks'}, R \in {relations'} :
       \A s \in RecordsOf(E, X, R, E) :
          r.cost = s.cost =>
             \A c \in r.best : \E d \in s.best : Rank(d) <= Rank(c)]_vars

\* The ends of the walks that visit no reference twice, as Walks has them.
SimpleWalks(roots, edges) ==
  LET within[d \in Nat] ==
        IF d = 0 THEN {<<r, FALSE, {r}>> : r \in roots}
        ELSE LET before == within[d - 1]
             IN  before \cup {<<s[2].to, s[1][2] \/ s[2].supports, s[1][3] \cup {s[2].to}>> :
                                s \in {s \in before \X edges : /\ s[1][1] = s[2].from
                                                              /\ s[2].to \notin s[1][3]}}
  IN  {<<w[1], w[2]>> : w \in within[MaxDepth]}

\* Crosswalk-only reachability abstains (docs/outcome-attribution.md): a cost is
\* not attributed to an outcome unless a relation lies on a way to it, as
\* opposed to beside the way.
AssociationAbstains ==
  LET edges == Edges(crosswalks, relations, events)
  IN  \A r \in CurrentRecords :
        \A c \in {c \in r.best : r.state = "attributed" /\ c.type # Barnowl} :
           <<c.ref, TRUE>> \in SimpleWalks(Roots(r.cost, events), edges)

-----------------------------------------------------------------------------
(* Activity.                                                               *)

ReferencesOf(links) == UNION {{l.subject, l.object} : l \in links}
CurrentReferences ==
  ReferencesOf(relations) \cup UNION {{x.left, x.right} : x \in crosswalks}

\* A traversal reports a relation only together with both references it
\* relates, and every relation by which it got anywhere.
TraversalIsClosed ==
  \A root \in CurrentReferences, direction \in {"outgoing", "incoming", "both"},
     d \in 0..MaxDepth :
    LET found == TraverseRelations(root, direction, d, relations)
    IN  /\ ReferencesOf(found.relations) \subseteq found.refs
        /\ found.refs \subseteq {root} \cup ReferencesOf(found.relations)

\* The activity of a session shows what was done in it, even before the
\* session's own event is in the index.
ActivityFindsSessions ==
  \A s \in archive.events :
    s.kind = "session" =>
      {e \in events : s.id \in {e.session, e.parent}}
         \subseteq Activity(EventRef(s), 0, events, crosswalks, relations).events
=============================================================================
