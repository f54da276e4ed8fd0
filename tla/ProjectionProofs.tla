-------------------------- MODULE ProjectionProofs --------------------------
(***************************************************************************)
(* Proofs about what the projections and the generators make of an index,  *)
(* for any archives and sources, however these grow and in whatever order  *)
(* they are scanned.                                                       *)
(***************************************************************************)
EXTENDS EvidenceIndexProofs

-----------------------------------------------------------------------------
(* Amounts.                                                                *)

AmountOf(E) == [e \in E |-> e.amount]

LEMMA AmountIsSum ==
  ASSUME NEW E, NEW S \in SUBSET E
  PROVE  Amount(S) = SumOver(AmountOf(E), S)
<1>1. [e \in S |-> e.amount] = [e \in S |-> AmountOf(E)[e]]
  BY DEF AmountOf
<1> QED BY <1>1 DEF Amount, SumOver

LEMMA AmountOfNothing == Amount({}) = 0
<1>1. SumOver([x \in {} |-> 0], {}) = 0
  BY SumTake, FS_EmptySet
<1>2. [e \in {} |-> e.amount] = [x \in {} |-> [y \in {} |-> 0][x]]
  OBVIOUS
<1> QED BY <1>1, <1>2 DEF Amount, SumOver

\* Costs of known amounts.
Priced(C) == IsFiniteSet(C) /\ \A e \in C : e.amount \in Nat

\* Amounts add up over disjoint parts of such costs.
LEMMA AmountsAdd ==
  ASSUME NEW C, Priced(C), NEW S \in SUBSET C, NEW T \in SUBSET C, S \cap T = {}
  PROVE  Amount(S \cup T) = Amount(S) + Amount(T) /\ Amount(S) \in Int
<1> DEFINE v == AmountOf(C)
<1>1. IsFiniteSet(S) /\ IsFiniteSet(T)
  BY FS_Subset DEF Priced
<1>2. \A x \in S \cup T : v[x] \in Int
  BY DEF Priced, AmountOf
<1>3. S \cup T \in SUBSET C
  OBVIOUS
<1>4. Amount(S \cup T) = SumOver(v, S \cup T) /\ Amount(S) = SumOver(v, S) /\ Amount(T) = SumOver(v, T)
  BY <1>3, AmountIsSum
<1> HIDE DEF v
<1>5. SumOver(v, S \cup T) = SumOver(v, S) + SumOver(v, T)
  BY <1>1, <1>2, SumUnion
<1>6. SumOver(v, S) \in Int
  BY <1>1, <1>2, SumTake
<1> QED BY <1>4, <1>5, <1>6

LEMMA AmountsAddUp ==
  ASSUME NEW C, Priced(C), NEW K, IsFiniteSet(K), NEW part,
         \A k \in K : part[k] \in SUBSET C,
         \A k, l \in K : k # l => part[k] \cap part[l] = {},
         NEW w, \A k \in K : w[k] = Amount(part[k])
  PROVE  SumOver(w, K) = Amount(Whole(part, K))
<1> DEFINE v == AmountOf(C)
<1>1. \A k \in K : IsFiniteSet(part[k]) /\ \A x \in part[k] : v[x] \in Int
  BY FS_Subset DEF Priced, AmountOf
<1>2. \A k \in K : w[k] = SumOver(v, part[k])
  BY AmountIsSum
<1>3. Whole(part, K) \in SUBSET C
  BY DEF Whole
<1>4. Amount(Whole(part, K)) = SumOver(v, Whole(part, K))
  BY <1>3, AmountIsSum
<1> HIDE DEF v
<1> QED BY <1>1, <1>2, <1>4, SumParts

\* What is selected of an index has known amounts.
LEMMA SelectedIsPriced ==
  ASSUME IndexOK, NEW W \in SUBSET events
  PROVE  Priced(Selected(W)) /\ Selected(W) \subseteq W
<1>1. Selected(W) \subseteq W
  BY DEF Selected, Observations
<1>2. IsFiniteSet(Selected(W))
  BY <1>1, IndexFinite, FS_Subset
<1>3. ASSUME NEW e \in Selected(W) PROVE e.amount \in Nat
  <2>1. e \in events /\ e.kind = "cost" /\ e.amount # None
    BY DEF Selected, Observations
  <2> QED BY <2>1, IndexFinite DEF WellFormed
<1> QED BY <1>1, <1>2, <1>3 DEF Priced

\* The costs of the records in a state.
CostsIn(records, state) == {r.cost : r \in {r \in records : r.state = state}}

\* There is one record of each of these costs.
OneEach(records, C) ==
  /\ \A r \in records : r.cost \in C /\ r.state \in {"attributed", "ambiguous", "unallocated"}
  /\ \A c \in C : \E r \in records : r.cost = c
  /\ \A r, s \in records : r.cost = s.cost => r = s

LEMMA AttributionsAreOneEach ==
  ASSUME NEW C, NEW E, NEW R, NEW candidates, NEW edges
  PROVE  OneEach({Attribute(c, E, R, candidates, edges) : c \in C}, C)
<1> DEFINE A(c) == Attribute(c, E, R, candidates, edges)
           records == {A(c) : c \in C}
<1>1. \A c : A(c).cost = c /\ A(c).state \in {"attributed", "ambiguous", "unallocated"}
  BY AttributeIs
<1>2. /\ \A r \in records : \E c \in C : r = A(c)
      /\ \A c \in C : A(c) \in records
  OBVIOUS
<1> HIDE DEF A, records
<1>3. OneEach(records, C)
  BY <1>1, <1>2 DEF OneEach
<1> QED BY <1>3 DEF records, A

LEMMA OneRecordEach ==
  ASSUME IndexOK, NEW W \in SUBSET events
  PROVE  /\ OneEach(RecordsOf(events, crosswalks, relations, W), Selected(W))
         /\ Priced(Selected(W)) /\ Selected(W) \subseteq W
<1>0. Consistent(events)
  BY DEF IndexOK
<1>1. RecordsOf(events, crosswalks, relations, W)
        = {Attribute(c, events, relations, Candidates(events, OutcomeTypes),
                     Edges(crosswalks, relations, events)) : c \in Selected(W)}
  BY <1>0, RecordsAre
<1> QED BY <1>1, AttributionsAreOneEach, SelectedIsPriced

\* The three buckets have it all.
LEMMA BucketsReconcile ==
  ASSUME NEW C, Priced(C), NEW records, OneEach(records, C)
  PROVE  TotalOf(records, "attributed") + TotalOf(records, "ambiguous")
           + TotalOf(records, "unallocated") = Amount(C)
<1> DEFINE In(state) == CostsIn(records, state)
<1>1. \A state : In(state) \in SUBSET C
  BY DEF CostsIn, OneEach
<1>2. /\ In("attributed") \cap In("ambiguous") = {}
      /\ (In("attributed") \cup In("ambiguous")) \cap In("unallocated") = {}
  <2>1. ASSUME NEW s, NEW t, s # t PROVE In(s) \cap In(t) = {}
    BY <2>1 DEF CostsIn, OneEach
  <2> HIDE DEF In
  <2>2. /\ In("attributed") \cap In("ambiguous") = {}
        /\ In("attributed") \cap In("unallocated") = {}
        /\ In("ambiguous") \cap In("unallocated") = {}
    BY <2>1
  <2> QED BY <2>2
<1>3. (In("attributed") \cup In("ambiguous")) \cup In("unallocated") = C
  BY DEF CostsIn, OneEach
<1>4. \A state : TotalOf(records, state) = Amount(In(state))
  BY DEF TotalOf, CostsIn
<1> HIDE DEF In
<1>5. In("attributed") \cup In("ambiguous") \in SUBSET C
  BY <1>1
<1>6. Amount(In("attributed") \cup In("ambiguous")) = Amount(In("attributed")) + Amount(In("ambiguous"))
  BY <1>1, <1>2, AmountsAdd
<1>7. Amount((In("attributed") \cup In("ambiguous")) \cup In("unallocated"))
        = Amount(In("attributed") \cup In("ambiguous")) + Amount(In("unallocated"))
  BY <1>1, <1>2, <1>5, AmountsAdd
<1> QED BY <1>3, <1>4, <1>6, <1>7

\* The adapters have it all.
LEMMA AdaptersReconcile ==
  ASSUME IndexOK, NEW W \in SUBSET events
  PROVE  SumFunction(Report(W).cost) = Amount(Selected(W))
<1> DEFINE K == {e.adapter : e \in W}
           part == [a \in K |-> {e \in Selected(W) : e.adapter = a}]
           w == [a \in K |-> Amount(part[a])]
<1>1. Report(W).cost = w
  <2>1. Report(W).cost = [a \in K |-> Amount({e \in Selected(W) : e.adapter = a})]
    BY DEF Report
  <2> QED BY <2>1
<1>2. IsFiniteSet(K)
  <2> DEFINE f == [e \in W |-> e.adapter]
  <2>1. f \in Surjection(W, K)
    BY DEF Surjection
  <2> QED BY <2>1, IndexFinite, FS_Subset, FS_Surjection
<1>3. /\ \A a \in K : part[a] \in SUBSET Selected(W) /\ w[a] = Amount(part[a])
      /\ \A a, b \in K : a # b => part[a] \cap part[b] = {}
  OBVIOUS
<1>4. Whole(part, K) = Selected(W)
  <2>1. ASSUME NEW e \in Selected(W) PROVE e.adapter \in K /\ e \in part[e.adapter]
    BY OneRecordEach
  <2>2. Whole(part, K) \subseteq Selected(W)
    BY <1>3 DEF Whole
  <2> HIDE DEF K, part
  <2> QED BY <2>1, <2>2 DEF Whole
<1>5. SumFunction(w) = SumOver(w, K)
  <2>1. [x \in K |-> w[x]] = w
    OBVIOUS
  <2> QED BY <2>1 DEF SumOver
<1> HIDE DEF K, part, w
<1>6. SumOver(w, K) = Amount(Whole(part, K))
  BY <1>2, <1>3, OneRecordEach, AmountsAddUp
<1> QED BY <1>1, <1>4, <1>5, <1>6

KeyOf(r) == <<CHOOSE c \in r.best : TRUE, r.cost.economic>>
CostsOf(records, key) ==
  {q.cost : q \in {q \in records : q.state = "attributed" /\ KeyOf(q) = key}}

LEMMA RollupsAre ==
  ASSUME NEW records
  PROVE  /\ \A o \in Rollups(records) : \E r \in records :
              /\ r.state = "attributed"
              /\ o = [key |-> KeyOf(r), amount |-> Amount(CostsOf(records, KeyOf(r)))]
         /\ \A r \in records : r.state = "attributed" =>
              \E o \in Rollups(records) : o.key = KeyOf(r)
<1> DEFINE attributed == {r \in records : r.state = "attributed"}
<1>1. Rollups(records) =
        {[key |-> KeyOf(r), amount |-> Amount({q.cost : q \in {q \in attributed : KeyOf(q) = KeyOf(r)}})] :
           r \in attributed}
  BY DEF Rollups, KeyOf
<1>2. ASSUME NEW key
      PROVE  {q \in attributed : KeyOf(q) = key} = {q \in records : q.state = "attributed" /\ KeyOf(q) = key}
  OBVIOUS
<1>3. \A r : {q.cost : q \in {q \in attributed : KeyOf(q) = KeyOf(r)}} = CostsOf(records, KeyOf(r))
  BY <1>2 DEF CostsOf
<1>4. Rollups(records) =
        {[key |-> KeyOf(r), amount |-> Amount(CostsOf(records, KeyOf(r)))] : r \in attributed}
  BY <1>1, <1>3
<1>5. \A o \in Rollups(records) : \E r \in attributed :
        o = [key |-> KeyOf(r), amount |-> Amount(CostsOf(records, KeyOf(r)))]
  BY <1>4
<1>6. \A r \in attributed : \E o \in Rollups(records) : o.key = KeyOf(r)
  <2> TAKE r \in attributed
  <2> DEFINE o == [key |-> KeyOf(r), amount |-> Amount(CostsOf(records, KeyOf(r)))]
  <2>1. o \in Rollups(records) /\ o.key = KeyOf(r)
    BY <1>4
  <2> QED BY <2>1
<1> QED BY <1>5, <1>6

\* The outcomes have all that is attributed, by economic kind.
LEMMA OutcomesReconcile ==
  ASSUME IndexOK, NEW W \in SUBSET events, NEW records,
         records = RecordsOf(events, crosswalks, relations, W), NEW k
  PROVE  SumFunction([o \in {o \in Rollups(records) : o.key[2] = k} |-> o.amount])
           = Amount({c \in CostsIn(records, "attributed") : c.economic = k})
<1> DEFINE K == {o \in Rollups(records) : o.key[2] = k}
           part == [o \in K |-> CostsOf(records, o.key)]
           w == [o \in K |-> o.amount]
<1>1. \A o \in K : \E r \in records :
        /\ r.state = "attributed"
        /\ o = [key |-> KeyOf(r), amount |-> Amount(CostsOf(records, KeyOf(r)))]
  BY RollupsAre
<1>2. \A o \in K : w[o] = Amount(part[o])
  <2> TAKE o \in K
  <2>1. o.amount = Amount(CostsOf(records, o.key))
    <3> HIDE DEF K
    <3> QED BY <1>1
  <2> QED BY <2>1
<1>3. \A key : CostsOf(records, key) \in SUBSET Selected(W)
  BY OneRecordEach DEF CostsOf, OneEach
<1>4. \A o, p \in K : o # p => part[o] \cap part[p] = {}
  <2> SUFFICES ASSUME NEW o \in K, NEW p \in K, o # p PROVE part[o] \cap part[p] = {}
    OBVIOUS
  <2>1. o.key # p.key
    <3> HIDE DEF K
    <3> QED BY <1>1
  <2>2. CostsOf(records, o.key) \cap CostsOf(records, p.key) = {}
    <3> HIDE DEF K
    <3> QED BY <2>1, OneRecordEach DEF CostsOf, OneEach
  <2> QED BY <2>2
<1>5. IsFiniteSet(K)
  <2> DEFINE f == [c \in Selected(W) |->
                     LET r == CHOOSE r \in records : r.cost = c
                     IN  [key |-> KeyOf(r), amount |-> Amount(CostsOf(records, KeyOf(r)))]]
             T == {f[c] : c \in Selected(W)}
  <2>1. f \in Surjection(Selected(W), T)
    BY DEF Surjection
  <2>2. IsFiniteSet(T)
    BY <2>1, OneRecordEach, FS_Surjection DEF Priced
  <2>3. K \subseteq T
    <3> SUFFICES ASSUME NEW o \in K PROVE o \in T
      OBVIOUS
    <3>1. PICK r \in records :
            o = [key |-> KeyOf(r), amount |-> Amount(CostsOf(records, KeyOf(r)))]
      BY <1>1
    <3>2. r.cost \in Selected(W) /\ (CHOOSE q \in records : q.cost = r.cost) = r
      BY OneRecordEach DEF OneEach
    <3>3. f[r.cost] = o
      BY <3>1, <3>2
    <3> QED BY <3>2, <3>3
  <2> QED BY <2>2, <2>3, FS_Subset
<1>6. Whole(part, K) = {c \in CostsIn(records, "attributed") : c.economic = k}
  <2>1. ASSUME NEW c \in Whole(part, K)
        PROVE  c \in CostsIn(records, "attributed") /\ c.economic = k
    <3>1. PICK o \in K : c \in CostsOf(records, o.key)
      BY DEF Whole
    <3>2. PICK q \in records : q.state = "attributed" /\ KeyOf(q) = o.key /\ q.cost = c
      BY <3>1 DEF CostsOf
    <3>3. o.key[2] = k
      OBVIOUS
    <3> QED BY <3>2, <3>3 DEF CostsIn, KeyOf
  <2>2. ASSUME NEW c \in CostsIn(records, "attributed"), c.economic = k
        PROVE  c \in Whole(part, K)
    <3>1. PICK r \in records : r.state = "attributed" /\ r.cost = c
      BY DEF CostsIn
    <3>2. PICK o \in Rollups(records) : o.key = KeyOf(r)
      BY <3>1, RollupsAre
    <3>3. o.key[2] = k
      BY <2>2, <3>1, <3>2 DEF KeyOf
    <3>4. o \in K
      BY <3>3
    <3>5. c \in CostsOf(records, o.key)
      BY <3>1, <3>2 DEF CostsOf
    <3>6. part[o] = CostsOf(records, o.key)
      BY <3>4
    <3> HIDE DEF K, part
    <3> QED BY <3>4, <3>5, <3>6 DEF Whole
  <2> QED BY <2>1, <2>2
<1>7. SumFunction([o \in K |-> o.amount]) = SumOver(w, K)
  <2>1. [x \in K |-> w[x]] = [o \in K |-> o.amount]
    OBVIOUS
  <2> QED BY <2>1 DEF SumOver
<1>8. \A o \in K : part[o] \in SUBSET Selected(W)
  BY <1>3
<1>9. SumOver(w, K) = Amount(Whole(part, K))
  <2> HIDE DEF K, part, w
  <2> QED BY <1>2, <1>4, <1>5, <1>8, OneRecordEach, AmountsAddUp
<1> QED BY <1>6, <1>7, <1>9

\* The commands agree on the money of any window, for any sources: every amount that
\* is selected in it is attributed, ambiguous or unallocated, it is in the report of its
\* adapter, and what is attributed is in the amounts of the outcomes (AmountsReconcile).
THEOREM MoneyIsKept == LiveSpec => []AmountsReconcile
<1>1. IndexOK => AmountsReconcile
  <2> SUFFICES ASSUME IndexOK, NEW W \in Windows,
                      NEW records, records = RecordsOf(events, crosswalks, relations, W)
               PROVE  /\ TotalOf(records, "attributed") + TotalOf(records, "ambiguous")
                           + TotalOf(records, "unallocated") = Accounting(W).selected
                      /\ SumFunction(Report(W).cost) = Accounting(W).selected
                      /\ \A k \in EconomicKinds :
                           SumFunction([r \in {r \in Rollups(records) : r.key[2] = k} |-> r.amount])
                             = Amount({c \in CostsIn(records, "attributed") : c.economic = k})
    BY DEF AmountsReconcile, CostsIn
  <2>1. W \in SUBSET events
    BY DEF Windows
  <2>2. Accounting(W).selected = Amount(Selected(W))
    BY DEF Accounting
  <2>3. \A k \in EconomicKinds :
          SumFunction([r \in {r \in Rollups(records) : r.key[2] = k} |-> r.amount])
            = Amount({c \in CostsIn(records, "attributed") : c.economic = k})
    BY <2>1, OutcomesReconcile
  <2>4. TotalOf(records, "attributed") + TotalOf(records, "ambiguous")
          + TotalOf(records, "unallocated") = Amount(Selected(W))
    BY <2>1, OneRecordEach, BucketsReconcile
  <2>5. SumFunction(Report(W).cost) = Amount(Selected(W))
    BY <2>1, AdaptersReconcile
  <2> QED BY <2>2, <2>3, <2>4, <2>5
<1> QED BY <1>1, IndexHolds, PTL
-----------------------------------------------------------------------------
(* The memory audit.                                                       *)

LEMMA MaxOf ==
  ASSUME NEW S \in SUBSET Nat, IsFiniteSet(S), S # {}
  PROVE  Max(S) \in S /\ \A y \in S : y <= Max(S)
<1> DEFINE greater == {w \in S \X S : w[1] > w[2]}
<1>1. \A x, y \in S : <<x, y>> \in greater <=> x > y
  OBVIOUS
<1>2. \A x \in S : x \in Nat
  OBVIOUS
<1>3. \A x \in S : <<x, x>> \notin greater
  BY <1>1, <1>2
<1>4. \A x, y, z \in S : <<x, y>> \in greater /\ <<y, z>> \in greater => <<x, z>> \in greater
  BY <1>1, <1>2
<1> HIDE DEF greater
<1>5. PICK x \in S : \A y \in S : <<y, x>> \notin greater
  BY <1>3, <1>4, BestOf
<1>6. ASSUME NEW y \in S PROVE x >= y
  <2>1. ~(y > x) /\ x \in Nat /\ y \in Nat
    BY <1>1, <1>2, <1>5
  <2> QED BY <2>1
<1> QED BY <1>2, <1>6 DEF Max

ReportsOf(family, stage) == {e \in family : e.stage = stage}
LastOf(reports) == {e \in reports : \A f \in reports : f.at <= e.at}
StatesOf(reports) == {e.state : e \in reports}

\* What is found not used in a stage was so said last, and by nobody otherwise.
LEMMA LastSaid ==
  ASSUME NEW family, IsFiniteSet(family), \A e \in family : e.at \in Nat, NEW stage,
         StageStatus(family, stage) = "not_observed"
  PROVE  \E e \in family :
           /\ e.stage = stage /\ e.state = "not_observed"
           /\ \A f \in family : f.stage = stage /\ f.state = "observed" => f.at < e.at
<1> DEFINE reports == ReportsOf(family, stage)
           states == StatesOf(LastOf(reports))
<1>1. StageStatus(family, stage) = CASE states = {} -> "unknown"
                                     [] Cardinality(states) = 1 -> CHOOSE s \in states : TRUE
                                     [] OTHER -> "conflicted"
  BY DEF StageStatus, ReportsOf, LastOf, StatesOf
<1> HIDE DEF states
<1>2. states # {} /\ Cardinality(states) = 1 /\ "not_observed" \in states
  <2>1. CASE states = {}
    <3>1. Cardinality(states) # 1
      BY <2>1, FS_EmptySet
    <3>2. StageStatus(family, stage) = "unknown"
      BY <1>1, <2>1, <3>1, Zenon
    <3> QED BY <3>2
  <2>2. CASE states # {} /\ Cardinality(states) # 1
    <3>1. StageStatus(family, stage) = "conflicted"
      BY <1>1, <2>2, Zenon
    <3> QED BY <3>1
  <2>3. CASE states # {} /\ Cardinality(states) = 1
    <3>1. "not_observed" = CHOOSE s \in states : TRUE
      BY <1>1, <2>3
    <3> QED BY <2>3, <3>1
  <2> QED BY <2>1, <2>2, <2>3
<1>3. PICK e \in LastOf(reports) : e.state = "not_observed"
  BY <1>2 DEF states, StatesOf
<1>4. e \in family /\ e.stage = stage /\ \A f \in reports : f.at <= e.at
  BY DEF LastOf, ReportsOf
<1>5. ASSUME NEW f \in family, f.stage = stage, f.state = "observed"
      PROVE  f.at < e.at
  <2>1. f \in reports /\ f.at <= e.at
    BY <1>4, <1>5 DEF ReportsOf
  <2>2. CASE f.at = e.at
    <3>1. f \in LastOf(reports)
      BY <1>4, <2>1, <2>2 DEF LastOf
    <3>2. "observed" \in states
      BY <1>5, <3>1 DEF states, StatesOf
    <3>3. IsFiniteSet(states)
      <4>1. IsFiniteSet(LastOf(reports))
        BY FS_Subset DEF LastOf, ReportsOf
      <4> DEFINE say == [x \in LastOf(reports) |-> x.state]
      <4>2. say \in Surjection(LastOf(reports), states)
        <5>1. \A t \in states : \E x \in LastOf(reports) : say[x] = t
          BY DEF states, StatesOf
        <5>2. say \in [LastOf(reports) -> states]
          BY DEF states, StatesOf
        <5> QED BY <5>1, <5>2 DEF Surjection
      <4> QED BY <4>1, <4>2, FS_Surjection
    <3>4. Cardinality({"observed", "not_observed"}) = 2 /\ IsFiniteSet({"observed", "not_observed"})
      <4>1. IsFiniteSet({"observed"}) /\ Cardinality({"observed"}) = 1
        BY FS_Singleton
      <4>2. {"observed", "not_observed"} = {"observed"} \cup {"not_observed"}
        OBVIOUS
      <4> DEFINE one == {"observed"}
      <4>3. "not_observed" \notin one
        OBVIOUS
      <4>4. IsFiniteSet(one) /\ Cardinality(one) = 1
        BY <4>1
      <4> HIDE DEF one
      <4>5. /\ IsFiniteSet(one \cup {"not_observed"})
            /\ Cardinality(one \cup {"not_observed"}) = Cardinality(one) + 1
        BY <4>3, <4>4, FS_AddElement
      <4> QED BY <4>2, <4>4, <4>5 DEF one
    <3>5. {"observed", "not_observed"} \in SUBSET states
      BY <1>2, <3>2
    <3>6. Cardinality({"observed", "not_observed"}) <= Cardinality(states)
      BY <3>3, <3>5, FS_Subset
    <3> QED BY <1>2, <3>4, <3>6
  <2> QED BY <1>4, <1>5, <2>1, <2>2
<1> QED BY <1>3, <1>4, <1>5

\* What an item of the audit is made of.
LEMMA ItemIs ==
  ASSUME IndexOK, NEW config, MemoryConfigOK(config), NEW i \in MemoryItems(events, config)
  PROVE  \E family \in SUBSET MemoryEvidence(events, config) :
           /\ i = AuditItem(family, config)
           /\ \E e \in family : e.stage = "inventory" /\ e.state = "observed"
BY DEF MemoryItems, FamilyOf

\* The recommendations to give up.
LEMMA GivesUp ==
  ASSUME NEW status, NEW age \in Int, NEW superseded \in BOOLEAN, NEW config, MemoryConfigOK(config),
         Recommend(status, age, superseded, config).disposition \in {"park", "retire"}
  PROVE  /\ \A stage \in AuditedStages : status[stage] = "not_observed"
         /\ age >= config.nonUseDays
         /\ Recommend(status, age, superseded, config).disposition = IF superseded THEN "retire" ELSE "park"
<1> DEFINE said == {status[stage] : stage \in AuditedStages}
           unused == said = {"not_observed"}
           r == Recommend(status, age, superseded, config)
<1>1. unused /\ age >= config.nonUseDays
  BY DEF Recommend, Recommendation, MemoryConfigOK
<1>2. r.disposition = IF superseded THEN "retire" ELSE "park"
  BY <1>1 DEF Recommend, Recommendation, MemoryConfigOK
<1> QED BY <1>1, <1>2

\* Memory is given up only when nothing says that it is in use
\* (GivenUpOnlyUnused), whatever hosts report and in whatever order.
THEOREM UsedMemoryIsKept == LiveSpec => []GivenUpOnlyUnused
<1>1. ASSUME IndexOK, NEW config \in archive.asked.memory, NEW i \in MemoryItems(events, config),
             i.disposition \in {"park", "retire"}
      PROVE  /\ i.family \subseteq {e \in events : e.kind = "memory_evidence"}
             /\ \A e \in i.family : e.stage = "inventory" /\ e.state = "observed"
                                      => e.at + config.nonUseDays <= config.cutoff
             /\ \A stage \in {"loaded", "retrieved", "referenced", "applied"} :
                  \E e \in i.family :
                    /\ e.stage = stage /\ e.state = "not_observed"
                    /\ \A f \in i.family : f.stage = stage /\ f.state = "observed" => f.at < e.at
             /\ i.disposition = "retire" <=> \E e \in i.family : e.supersededBy # None
  <2>1. MemoryConfigOK(config)
    BY <1>1, AskedAssumption DEF IndexOK
  <2>2. PICK family \in SUBSET MemoryEvidence(events, config) :
          /\ i = AuditItem(family, config)
          /\ \E e \in family : e.stage = "inventory" /\ e.state = "observed"
    BY <1>1, <2>1, ItemIs
  <2> DEFINE inventory == {e \in family : e.stage = "inventory" /\ e.state = "observed"}
             times == {e.at : e \in inventory}
             superseded == \E e \in family : e.supersededBy # None
             age == config.cutoff - Max(times)
             status == [stage \in AuditedStages |-> StageStatus(family, stage)]
  <2>3. /\ i.family = family
        /\ i.disposition = Recommend(status, age, superseded, config).disposition
    BY <2>2 DEF AuditItem
  <2>4. family \subseteq {e \in events : e.kind = "memory_evidence"}
    BY DEF MemoryEvidence
  <2>5. IsFiniteSet(family) /\ \A e \in family : e.at \in Nat
    BY <1>1, <2>4, IndexFinite, FS_Subset DEF WellFormed
  <2>6. times \in SUBSET Nat /\ IsFiniteSet(times) /\ times # {}
    <3>1. IsFiniteSet(inventory)
      BY <2>5, FS_Subset
    <3> DEFINE when == [x \in inventory |-> x.at]
    <3>2. when \in Surjection(inventory, times)
      BY DEF Surjection
    <3>3. IsFiniteSet(times)
      BY <3>1, <3>2, FS_Surjection
    <3> QED BY <2>2, <2>5, <3>3
  <2> HIDE DEF times, status
  <2>7. Max(times) \in Nat /\ \A t \in times : t <= Max(times)
    BY <2>6, MaxOf
  <2>8. age \in Int /\ superseded \in BOOLEAN
    BY <2>1, <2>7 DEF MemoryConfigOK
  <2> HIDE DEF age, superseded
  <2>9. /\ \A stage \in AuditedStages : status[stage] = "not_observed"
        /\ age >= config.nonUseDays
        /\ i.disposition = IF superseded THEN "retire" ELSE "park"
    <3> DEFINE advice == Recommend(status, age, superseded, config).disposition
    <3>1. advice = i.disposition
      BY <2>3
    <3>2. advice \in {"park", "retire"}
      BY <1>1, <3>1
    <3>3. /\ \A stage \in AuditedStages : status[stage] = "not_observed"
          /\ age >= config.nonUseDays
          /\ advice = IF superseded THEN "retire" ELSE "park"
      BY <2>1, <2>8, <3>2, GivesUp
    <3> HIDE DEF advice
    <3> QED BY <3>1, <3>3
  <2>10. ASSUME NEW e \in family, e.stage = "inventory", e.state = "observed"
         PROVE  e.at + config.nonUseDays <= config.cutoff
    <3>1. e.at <= Max(times) /\ e.at \in Nat
      BY <2>5, <2>7, <2>10 DEF times
    <3> QED BY <2>1, <2>7, <2>9, <3>1 DEF age, MemoryConfigOK
  <2>11. ASSUME NEW stage \in {"loaded", "retrieved", "referenced", "applied"}
         PROVE  \E e \in family :
                  /\ e.stage = stage /\ e.state = "not_observed"
                  /\ \A f \in family : f.stage = stage /\ f.state = "observed" => f.at < e.at
    <3>1. StageStatus(family, stage) = "not_observed"
      BY <2>9 DEF status, AuditedStages
    <3> QED BY <2>5, <3>1, LastSaid
  <2> QED BY <2>3, <2>4, <2>9, <2>10, <2>11 DEF superseded
<1>2. IndexOK => GivenUpOnlyUnused
  BY <1>1 DEF GivenUpOnlyUnused
<1> QED BY <1>2, IndexHolds, PTL
-----------------------------------------------------------------------------
(* Gates.                                                                  *)

\* When a mint was told, and its id, which is that of no other.
Place(m) == <<m.at, m.id>>
WindowUpTo(mints, days, m) ==
  {n \in mints : (n = m \/ Before(Place(n), Place(m))) /\ m.at <= n.at + days}
Fullest(mints, days) ==
  {m \in mints : \A n \in mints :
     Cardinality(WindowUpTo(mints, days, n)) <= Cardinality(WindowUpTo(mints, days, m))}

\* Mints as an index has them.
Ranked(mints) ==
  /\ IsFiniteSet(mints)
  /\ \A m \in mints : m.at \in Nat
  /\ Ordered({m.id : m \in mints})
  /\ \A m, n \in mints : m.id = n.id => m = n

\* Places are a strict and total order.
LEMMA PlacesOrdered ==
  ASSUME NEW mints, Ranked(mints)
  PROVE  /\ \A m \in mints : ~Before(Place(m), Place(m))
         /\ \A m, n, k \in mints :
              Before(Place(m), Place(n)) /\ Before(Place(n), Place(k)) => Before(Place(m), Place(k))
         /\ \A m, n \in mints : m = n \/ Before(Place(m), Place(n)) \/ Before(Place(n), Place(m))
         /\ \A m, n \in mints : Before(Place(m), Place(n)) => m.at <= n.at
<1> DEFINE ids == {m.id : m \in mints}
<1>1. \A m \in mints : m.id \in ids /\ m.at \in Nat
  BY DEF Ranked
<1>2. Ordered(ids)
  BY DEF Ranked
<1> HIDE DEF ids
<1>3. \A m, n \in mints : Before(Place(m), Place(n)) <=> m.at < n.at \/ (m.at = n.at /\ m.id < n.id)
  BY BeforePair DEF Place
<1>4. \A m \in mints : ~Before(Place(m), Place(m))
  BY <1>1, <1>2, <1>3 DEF Ordered
<1>5. ASSUME NEW m \in mints, NEW n \in mints, NEW k \in mints,
             Before(Place(m), Place(n)), Before(Place(n), Place(k))
      PROVE  Before(Place(m), Place(k))
  <2>1. m.id < n.id /\ n.id < k.id => m.id < k.id
    BY <1>1, <1>2 DEF Ordered
  <2>2. m.at \in Nat /\ n.at \in Nat /\ k.at \in Nat
    BY <1>1
  <2>3. m.at < n.at \/ (m.at = n.at /\ m.id < n.id)
    BY <1>3, <1>5
  <2>4. n.at < k.at \/ (n.at = k.at /\ n.id < k.id)
    BY <1>3, <1>5
  <2>5. m.at < k.at \/ (m.at = k.at /\ m.id < k.id)
    BY <2>1, <2>2, <2>3, <2>4
  <2> QED BY <1>3, <2>5
<1>6. ASSUME NEW m \in mints, NEW n \in mints
      PROVE  m = n \/ Before(Place(m), Place(n)) \/ Before(Place(n), Place(m))
  <2>1. m.id < n.id \/ m.id = n.id \/ n.id < m.id
    BY <1>1, <1>2 DEF Ordered
  <2>2. m.id = n.id => m = n
    BY DEF Ranked
  <2>3. m.at < n.at \/ m.at = n.at \/ n.at < m.at
    BY <1>1
  <2> QED BY <1>3, <2>1, <2>2, <2>3
<1>7. ASSUME NEW m \in mints, NEW n \in mints, Before(Place(m), Place(n))
      PROVE  m.at <= n.at
  <2>1. m.at < n.at \/ m.at = n.at
    BY <1>3, <1>7
  <2> QED BY <1>1, <2>1
<1> QED BY <1>4, <1>5, <1>6, <1>7

\* Some mints are the first of all, and some the last.
LEMMA EndsOf ==
  ASSUME NEW mints, Ranked(mints), NEW some \in SUBSET mints, some # {}
  PROVE  /\ \E m \in some : \A n \in some \ {m} : Before(Place(m), Place(n))
         /\ \E m \in some : \A n \in some : n = m \/ Before(Place(n), Place(m))
<1> DEFINE before == {w \in some \X some : Before(Place(w[1]), Place(w[2]))}
           after == {w \in some \X some : Before(Place(w[2]), Place(w[1]))}
<1>1. IsFiniteSet(some)
  BY FS_Subset DEF Ranked
<1>2. /\ \A m, n \in some : <<m, n>> \in before <=> Before(Place(m), Place(n))
      /\ \A m, n \in some : <<m, n>> \in after <=> Before(Place(n), Place(m))
  OBVIOUS
<1>3. \A m \in some : m \in mints
  OBVIOUS
<1> HIDE DEF before, after
<1>4. \A m \in some : <<m, m>> \notin before /\ <<m, m>> \notin after
  BY <1>2, <1>3, PlacesOrdered
<1>5. \A m, n, k \in some : /\ <<m, n>> \in before /\ <<n, k>> \in before => <<m, k>> \in before
                            /\ <<m, n>> \in after /\ <<n, k>> \in after => <<m, k>> \in after
  BY <1>2, <1>3, PlacesOrdered
<1>6. \E m \in some : \A n \in some : <<n, m>> \notin before
  BY <1>1, <1>4, <1>5, BestOf
<1>7. \E m \in some : \A n \in some : <<n, m>> \notin after
  BY <1>1, <1>4, <1>5, BestOf
<1>8. \E m \in some : \A n \in some \ {m} : Before(Place(m), Place(n))
  BY <1>2, <1>3, <1>6, PlacesOrdered
<1>9. \E m \in some : \A n \in some : n = m \/ Before(Place(n), Place(m))
  BY <1>2, <1>3, <1>7, PlacesOrdered
<1> QED BY <1>8, <1>9

\* The densest window is one of those that end with a mint, and has the most.
LEMMA DensestIs ==
  ASSUME NEW mints, Ranked(mints), mints # {}, NEW days \in Nat
  PROVE  \E m \in Fullest(mints, days) : DensestWindow(mints, days) = WindowUpTo(mints, days, m)
<1> DEFINE size(m) == Cardinality(WindowUpTo(mints, days, m))
           fuller == {w \in mints \X mints : size(w[1]) > size(w[2])}
<1>1. \A m \in mints : size(m) \in Nat
  BY FS_Subset, FS_CardinalityType DEF WindowUpTo, Ranked
<1>2. \A m, n \in mints : <<m, n>> \in fuller <=> size(m) > size(n)
  OBVIOUS
<1> HIDE DEF size, fuller
<1>3. \A m \in mints : <<m, m>> \notin fuller
  BY <1>1, <1>2
<1>4. \A m, n, k \in mints : <<m, n>> \in fuller /\ <<n, k>> \in fuller => <<m, k>> \in fuller
  BY <1>1, <1>2
<1>5. PICK m \in mints : \A n \in mints : <<n, m>> \notin fuller
  BY <1>3, <1>4, BestOf DEF Ranked
<1>6. ASSUME NEW n \in mints PROVE size(n) <= size(m)
  <2>1. ~(size(n) > size(m))
    BY <1>2, <1>5
  <2>2. size(n) \in Nat /\ size(m) \in Nat
    BY <1>1
  <2> QED BY <2>1, <2>2
<1>7. m \in Fullest(mints, days)
  BY <1>6 DEF size, Fullest
<1> DEFINE most == Fullest(mints, days)
<1>8. most \in SUBSET mints /\ most # {}
  BY <1>7 DEF Fullest
<1>9. most = {x \in mints : \A n \in mints :
                Cardinality({k \in mints : (k = n \/ Before(<<k.at, k.id>>, <<n.at, n.id>>)) /\ n.at <= k.at + days})
                  <= Cardinality({k \in mints : (k = x \/ Before(<<k.at, k.id>>, <<x.at, x.id>>)) /\ x.at <= k.at + days})}
  BY DEF Fullest, WindowUpTo, Place
<1> DEFINE first == CHOOSE x \in most : \A n \in most \ {x} : Before(Place(x), Place(n))
<1>10. first \in most
  <2> HIDE DEF most
  <2>1. \E x \in most : \A n \in most \ {x} : Before(Place(x), Place(n))
    BY <1>8, EndsOf
  <2> QED BY <2>1
<1>11. DensestWindow(mints, days) = WindowUpTo(mints, days, first)
  BY <1>9 DEF DensestWindow, WindowUpTo, Place
<1> QED BY <1>10, <1>11

\* It is as full as any mints that lie close together.
LEMMA DensestCounts ==
  ASSUME NEW mints, Ranked(mints), NEW days \in Nat, NEW least \in Nat \ {0}
  PROVE  Cardinality(DensestWindow(mints, days)) >= least
           <=> \E close \in SUBSET mints : /\ Cardinality(close) >= least
                                           /\ \A m, n \in close : m.at <= n.at + days
<1> DEFINE window == DensestWindow(mints, days)
<1>1. CASE mints = {}
  <2>1. window = {} /\ Cardinality({}) = 0
    BY <1>1, FS_EmptySet DEF DensestWindow
  <2>2. SUBSET mints = {{}}
    BY <1>1
  <2> HIDE DEF window
  <2>3. ~(Cardinality(window) >= least) /\ ~(Cardinality({}) >= least)
    BY <2>1
  <2> QED BY <2>2, <2>3 DEF window
<1>2. CASE mints # {}
  <2>1. PICK m \in Fullest(mints, days) : window = WindowUpTo(mints, days, m)
    BY <1>2, DensestIs
  <2>2. m \in mints
    BY DEF Fullest
  <2> HIDE DEF window
  <2>3. window \in SUBSET mints
    BY <2>1 DEF WindowUpTo
  <2>4. ASSUME NEW x \in window, NEW y \in window PROVE x.at <= y.at + days
    <3>1. /\ x \in mints /\ y \in mints /\ m.at <= y.at + days
          /\ x = m \/ Before(Place(x), Place(m))
      BY <2>1 DEF WindowUpTo
    <3>2. x.at <= m.at
      <4>1. m.at \in Nat
        BY <2>2 DEF Ranked
      <4> QED BY <2>2, <3>1, <4>1, PlacesOrdered
    <3>3. x.at \in Nat /\ y.at \in Nat /\ m.at \in Nat
      BY <2>2, <3>1 DEF Ranked
    <3> QED BY <3>1, <3>2, <3>3
  <2>5. ASSUME NEW close \in SUBSET mints, Cardinality(close) >= least,
               \A x, y \in close : x.at <= y.at + days
        PROVE  Cardinality(window) >= least
    <3>1. IsFiniteSet(close) /\ close # {}
      <4>1. IsFiniteSet(close) /\ Cardinality(close) # 0
        BY <2>5, FS_Subset, FS_CardinalityType DEF Ranked
      <4> QED BY <4>1, FS_EmptySet
    <3>2. PICK last \in close : \A n \in close : n = last \/ Before(Place(n), Place(last))
      BY <3>1, EndsOf
    <3>3. close \in SUBSET WindowUpTo(mints, days, last)
      BY <2>5, <3>2 DEF WindowUpTo
    <3>4. \A x \in mints : IsFiniteSet(WindowUpTo(mints, days, x))
                           /\ Cardinality(WindowUpTo(mints, days, x)) \in Nat
      BY FS_Subset, FS_CardinalityType DEF WindowUpTo, Ranked
    <3>5. Cardinality(close) <= Cardinality(WindowUpTo(mints, days, last)) /\ Cardinality(close) \in Nat
      BY <3>1, <3>3, <3>4, FS_Subset, FS_CardinalityType
    <3>6. Cardinality(WindowUpTo(mints, days, last)) <= Cardinality(window)
      BY <2>1 DEF Fullest
    <3> QED BY <2>1, <2>2, <2>5, <3>4, <3>5, <3>6
  <2> QED BY <2>3, <2>4, <2>5 DEF window
<1> QED BY <1>1, <1>2

MintsOf(E, g) == {m \in Mints(E) : m.coordinate = g}
NamedBy(E, e) == {m \in Mints(E) : e.coordinate = <<"target", m.mint>> /\ m.coordinate # None}
AboutGate(E, g) ==
  {e \in E \ Mints(E) :
     IF NamedBy(E, e) = {} THEN e.coordinate = g ELSE NamedBy(E, e) \cap MintsOf(E, g) # {}}
RelatedTo(E, g) == {e \in E : CanonicalCoordinate(e, E) = g}

\* What is told of a gate, by its name or by a mint, is what is related to it.
LEMMA CanonicalIs ==
  ASSUME NEW E, \A m, n \in Mints(E) : m.mint = n.mint => m = n, NEW g
  PROVE  RelatedTo(E, g) \ Mints(E) = AboutGate(E, g)
<1>1. ASSUME NEW e \in E \ Mints(E)
      PROVE  CanonicalCoordinate(e, E) = g
               <=> IF NamedBy(E, e) = {} THEN e.coordinate = g ELSE NamedBy(E, e) \cap MintsOf(E, g) # {}
  <2> DEFINE gates == {m.coordinate : m \in {m \in Mints(E) :
                        m.coordinate # None /\ e.coordinate = <<"target", m.mint>>}}
             coordinate == CanonicalCoordinate(e, E)
  <2>1. coordinate = IF e.evidence # "mint" /\ gates # {} THEN CHOOSE x \in gates : TRUE ELSE e.coordinate
    BY DEF CanonicalCoordinate
  <2>2. e.evidence # "mint"
    BY <1>1 DEF Mints
  <2>3. gates = {m.coordinate : m \in NamedBy(E, e)}
    BY DEF NamedBy
  <2>4. CASE NamedBy(E, e) = {}
    BY <2>1, <2>3, <2>4
  <2>5. CASE NamedBy(E, e) # {}
    <3>1. PICK m \in NamedBy(E, e) : TRUE
      BY <2>5
    <3>2. ASSUME NEW n \in NamedBy(E, e) PROVE n = m
      <4>1. <<"target", m.mint>> = <<"target", n.mint>> /\ m \in Mints(E) /\ n \in Mints(E)
        BY <3>1, <3>2 DEF NamedBy
      <4>2. m.mint = n.mint
        BY <4>1
      <4> QED BY <4>1, <4>2
    <3>3. NamedBy(E, e) = {m}
      BY <3>1, <3>2
    <3>4. gates = {m.coordinate}
      BY <2>3, <3>3
    <3> HIDE DEF gates
    <3>5. coordinate = m.coordinate
      BY <2>1, <2>2, <3>4
    <3>6. NamedBy(E, e) \cap MintsOf(E, g) # {} <=> m.coordinate = g
      BY <3>1, <3>3 DEF MintsOf, NamedBy
    <3> QED BY <2>5, <3>5, <3>6
  <2> QED BY <2>4, <2>5
<1> QED BY <1>1 DEF RelatedTo, AboutGate

Settling == {"decision", "disposition"}

\* What one gate is found to be.
LEMMA GateIs ==
  ASSUME NEW E, Ranked(Mints(E)), \A m, n \in Mints(E) : m.mint = n.mint => m = n,
         NEW config, GateConfigOK(config), NEW g, MintsOf(E, g) # {},
         NEW a \in AssessGate(g, MintsOf(E, g), RelatedTo(E, g), config)
  PROVE  /\ a.coordinate = g
         /\ a.rule \in Rules
         /\ a.rule = "re-minted" =>
              (a.state = "detected"
                 <=> \E close \in SUBSET MintsOf(E, g) :
                       /\ Cardinality(close) >= config.remintThreshold
                       /\ \A m, n \in close : m.at <= n.at + config.remintDays)
         /\ a.rule = "condition-resolved" =>
              (a.state = "detected"
                 <=> \E e \in AboutGate(E, g) : e.evidence \in Settling /\ e.status \in SettledStates)
         /\ a.rule = "old-unconsulted" /\ a.state = "detected" =>
              /\ ~\E e \in AboutGate(E, g) : e.evidence \in Settling /\ e.status \in SettledStates
              /\ \E m \in MintsOf(E, g) : m.at + config.oldDays <= config.cutoff
              /\ ~\E e \in AboutGate(E, g) : e.evidence = "consult" /\ e.consultation = "consulted"
<1> DEFINE mints == MintsOf(E, g)
           related == RelatedTo(E, g)
           resolved == {e \in related : e.evidence \in Settling /\ e.status \in SettledStates}
           window == DensestWindow(mints, config.remintDays)
           reminted == Cardinality(window) >= config.remintThreshold
           consults == {e \in related : e.evidence = "consult"}
           said == {e.consultation : e \in consults}
           times == {m.at : m \in mints}
           age == config.cutoff - Min(times)
           old == CASE resolved # {} -> <<"not_detected", "already-resolved">>
                    [] resolved = {} /\ age < config.oldDays -> <<"not_detected", "too-young">>
                    [] resolved = {} /\ age >= config.oldDays /\ "consulted" \in said ->
                         <<"not_detected", "consulted">>
                    [] resolved = {} /\ age >= config.oldDays /\ "consulted" \notin said
                         /\ "not_consulted" \in said -> <<"detected", "explicit-not-consulted">>
                    [] OTHER -> <<"abstain", "consultation-unknown">>
<1>1. a \in {IF resolved # {}
             THEN Assessment("condition-resolved", "detected", "resolution-receipt", g, mints, resolved)
             ELSE Assessment("condition-resolved", "not_detected", "no-resolution", g, mints, {}),
             IF reminted
             THEN Assessment("re-minted", "detected", "re-mint-threshold", g, window, {})
             ELSE Assessment("re-minted", "not_detected", "below-threshold", g, window, {}),
             Assessment("old-unconsulted", old[1], old[2], g, mints, consults)}
  BY DEF AssessGate, Settling
<1>2. related \ Mints(E) = AboutGate(E, g)
  BY CanonicalIs
<1>3. /\ resolved # {} <=> \E e \in AboutGate(E, g) : e.evidence \in Settling /\ e.status \in SettledStates
      /\ "consulted" \notin said =>
           ~\E e \in AboutGate(E, g) : e.evidence = "consult" /\ e.consultation = "consulted"
  <2>1. \A e \in related : e.evidence # "mint" => e \in AboutGate(E, g)
    BY <1>2 DEF Mints
  <2>2. \A e \in AboutGate(E, g) : e \in related
    BY <1>2
  <2> QED BY <2>1, <2>2 DEF Settling
<1>4. reminted <=> \E close \in SUBSET mints : /\ Cardinality(close) >= config.remintThreshold
                                               /\ \A m, n \in close : m.at <= n.at + config.remintDays
  <2>1. Ranked(mints)
    <3>1. mints \subseteq Mints(E) /\ IsFiniteSet(mints)
      BY FS_Subset DEF Ranked, MintsOf
    <3> QED BY <3>1 DEF Ranked, Ordered
  <2>2. config.remintThreshold \in Nat \ {0} /\ config.remintDays \in Nat
    BY DEF GateConfigOK
  <2> HIDE DEF mints
  <2> QED BY <2>1, <2>2, DensestCounts
<1>5. /\ times \in SUBSET Nat /\ times # {}
      /\ config.oldDays \in Nat /\ config.cutoff \in Nat
  BY DEF MintsOf, Ranked, GateConfigOK
<1>6. Min(times) \in times
  <2> HIDE DEF times
  <2> QED BY <1>5, MinOf
<1>7. age >= config.oldDays => \E m \in mints : m.at + config.oldDays <= config.cutoff
  <2>1. PICK m \in mints : m.at = Min(times)
    BY <1>6
  <2>2. m.at \in Nat
    BY <1>5
  <2> QED BY <1>5, <2>1, <2>2
<1>8. age \in Int /\ config.oldDays \in Int
  BY <1>5, <1>6
<1> HIDE DEF resolved, age, said, reminted, window, consults, mints
<1>9. old[1] = "detected" => resolved = {} /\ age >= config.oldDays /\ "consulted" \notin said
  <2>1. CASE resolved # {}
    <3>1. old = <<"not_detected", "already-resolved">>
      BY <2>1
    <3> HIDE DEF old
    <3> QED BY <3>1
  <2>2. CASE resolved = {} /\ ~(age >= config.oldDays)
    <3>1. age < config.oldDays
      BY <1>8, <2>2
    <3>2. old = <<"not_detected", "too-young">>
      BY <2>2, <3>1
    <3> HIDE DEF old
    <3> QED BY <3>2
  <2>3. CASE resolved = {} /\ age >= config.oldDays /\ "consulted" \in said
    <3>1. ~(age < config.oldDays)
      BY <1>8, <2>3
    <3>2. old = <<"not_detected", "consulted">>
      BY <2>3, <3>1
    <3> HIDE DEF old
    <3> QED BY <3>2
  <2> QED BY <2>1, <2>2, <2>3
<1> HIDE DEF old
<1>10. \/ a.rule = "condition-resolved" /\ a.coordinate = g
          /\ a.state = IF resolved # {} THEN "detected" ELSE "not_detected"
       \/ a.rule = "re-minted" /\ a.coordinate = g
          /\ a.state = IF reminted THEN "detected" ELSE "not_detected"
       \/ a.rule = "old-unconsulted" /\ a.coordinate = g /\ a.state = old[1]
  BY <1>1 DEF Assessment
<1> QED BY <1>3, <1>4, <1>7, <1>9, <1>10 DEF Rules, mints

\* The mints of an index have places, and each is of one entry.
LEMMA MintsAre ==
  ASSUME IdsOrdered, IndexOK, NEW config
  PROVE  LET mints == Mints(GateEvidence(events, config))
         IN  Ranked(mints) /\ \A m, n \in mints : m.mint = n.mint => m = n
<1> DEFINE mints == Mints(GateEvidence(events, config))
           ids == {e.id : e \in events}
<1>1. mints \subseteq {e \in events : e.kind = "gate_evidence" /\ e.evidence = "mint"}
  BY DEF Mints, GateEvidence
<1>2. archive \in Archives /\ events \subseteq Tellable(archive) /\ Consistent(events)
  BY DEF IndexOK
<1>3. \A m, n \in mints : m.id = n.id => m = n
  BY <1>1, <1>2 DEF Consistent
<1>4. \A m, n \in mints : m.mint = n.mint => m = n
  <2>1. ASSUME NEW m \in mints, NEW n \in mints, m.mint = n.mint PROVE m.id = n.id
    BY <1>1, <1>2, <2>1, AskedAssumption
  <2> QED BY <1>3, <2>1
<1>5. IsFiniteSet(mints) /\ \A m \in mints : m.at \in Nat
  BY <1>1, IndexFinite, FS_Subset DEF WellFormed
<1>6. Ordered({m.id : m \in mints})
  <2>1. Ordered({e.id : e \in Tellable(archive)})
    BY <1>2 DEF IdsOrdered
  <2>2. {m.id : m \in mints} \subseteq {e.id : e \in Tellable(archive)}
    BY <1>1, <1>2
  <2> QED BY <2>1, <2>2 DEF Ordered
<1> HIDE DEF mints
<1> QED BY <1>3, <1>4, <1>5, <1>6 DEF Ranked, mints

\* What is found of the gates is so (GateVerdicts), in whatever order their
\* mints and what is decided of them are told.
THEOREM GatesAreJudged == IdsOrdered => (LiveSpec => []GateVerdicts)
<1> SUFFICES ASSUME IdsOrdered PROVE LiveSpec => []GateVerdicts
  OBVIOUS
<1>1. ASSUME IndexOK, NEW config \in archive.asked.gates, config.source = "fresh",
             NEW a \in GateAssessments(events, config), a.coordinate # None
      PROVE  LET E == GateEvidence(events, config)
                 g == a.coordinate
             IN  /\ a \in AssessGate(g, MintsOf(E, g), RelatedTo(E, g), config)
                 /\ MintsOf(E, g) # {}
                 /\ Ranked(Mints(E))
                 /\ \A m, n \in Mints(E) : m.mint = n.mint => m = n
                 /\ GateConfigOK(config)
  <2> DEFINE E == GateEvidence(events, config)
             gates == {m.coordinate : m \in Mints(E)} \ {None}
             unkeyed == {Assessment(rule, "abstain",
                             IF m.ambiguous THEN "coordinate-ambiguous" ELSE "coordinate-unavailable",
                             None, {m}, {}) :
                           rule \in Rules, m \in {m \in Mints(E) : m.coordinate = None}}
             judged == UNION {AssessGate(g, MintsOf(E, g), RelatedTo(E, g), config) : g \in gates}
  <2>1. GateConfigOK(config)
    BY <1>1, AskedAssumption DEF IndexOK
  <2>2. Ranked(Mints(E)) /\ \A m, n \in Mints(E) : m.mint = n.mint => m = n
    BY <1>1, MintsAre
  <2>3. GateAssessments(events, config) = unkeyed \cup judged
    BY <1>1 DEF GateAssessments, MintsOf, RelatedTo
  <2>4. a \notin unkeyed
    BY <1>1 DEF Assessment
  <2> HIDE DEF unkeyed
  <2>5. PICK g \in gates : a \in AssessGate(g, MintsOf(E, g), RelatedTo(E, g), config)
    <3>1. a \in judged
      BY <1>1, <2>3, <2>4
    <3> QED BY <3>1
  <2>6. MintsOf(E, g) # {}
    BY <2>5 DEF MintsOf
  <2> HIDE DEF E, gates, judged
  <2>7. a.coordinate = g
    BY <2>1, <2>2, <2>5, <2>6, GateIs
  <2> QED BY <2>1, <2>2, <2>5, <2>6, <2>7 DEF E
<1>2. IndexOK => GateVerdicts
  <2> SUFFICES ASSUME IndexOK,
                      NEW config \in {c \in archive.asked.gates : c.source = "fresh"},
                      NEW a \in {a \in GateAssessments(events, config) : a.coordinate # None}
               PROVE  LET E == GateEvidence(events, config)
                          g == a.coordinate
                          settled == \E e \in AboutGate(E, g) : /\ e.evidence \in {"decision", "disposition"}
                                                                /\ e.status \in SettledStates
                      IN  CASE a.rule = "re-minted" ->
                                 a.state = "detected"
                                   <=> \E close \in SUBSET MintsOf(E, g) :
                                         /\ Cardinality(close) >= config.remintThreshold
                                         /\ \A m, n \in close : m.at <= n.at + config.remintDays
                            [] a.rule = "condition-resolved" -> a.state = "detected" <=> settled
                            [] OTHER ->
                                 a.state = "detected" =>
                                   /\ ~settled
                                   /\ \E m \in MintsOf(E, g) : m.at + config.oldDays <= config.cutoff
                                   /\ ~\E e \in AboutGate(E, g) : /\ e.evidence = "consult"
                                                                  /\ e.consultation = "consulted"
    BY DEF GateVerdicts, AboutGate, MintsOf, NamedBy
  <2> DEFINE E == GateEvidence(events, config)
             g == a.coordinate
  <2>1. /\ a \in AssessGate(g, MintsOf(E, g), RelatedTo(E, g), config)
        /\ MintsOf(E, g) # {}
        /\ Ranked(Mints(E)) /\ \A m, n \in Mints(E) : m.mint = n.mint => m = n
        /\ GateConfigOK(config)
    BY <1>1
  <2> HIDE DEF E, g
  <2>2. a.rule \in Rules
    BY <2>1, GateIs
  <2>3. a.rule = "re-minted" =>
          (a.state = "detected"
             <=> \E close \in SUBSET MintsOf(E, g) :
                   /\ Cardinality(close) >= config.remintThreshold
                   /\ \A m, n \in close : m.at <= n.at + config.remintDays)
    BY <2>1, GateIs
  <2>4. a.rule = "condition-resolved" =>
          (a.state = "detected"
             <=> \E e \in AboutGate(E, g) : e.evidence \in Settling /\ e.status \in SettledStates)
    BY <2>1, GateIs
  <2>5. a.rule = "old-unconsulted" /\ a.state = "detected" =>
          /\ ~\E e \in AboutGate(E, g) : e.evidence \in Settling /\ e.status \in SettledStates
          /\ \E m \in MintsOf(E, g) : m.at + config.oldDays <= config.cutoff
          /\ ~\E e \in AboutGate(E, g) : e.evidence = "consult" /\ e.consultation = "consulted"
    BY <2>1, GateIs
  <2> QED BY <2>2, <2>3, <2>4, <2>5 DEF Rules, Settling, E, g
<1> QED BY <1>2, IndexHolds, PTL
-----------------------------------------------------------------------------
(* Effectiveness: a window of research outcomes and what they cost.        *)

ReceiptsIn(config) == WindowOf(Receipts({e \in events : e.at < config.until}), config)

LEMMA FoundIs ==
  ASSUME NEW found \in EffectivenessFound
  PROVE  \E config \in archive.asked.effectiveness : \E X, R :
           found = BarnowlEffectiveness(events, X, R, config)
BY DEF EffectivenessFound

EventsBefore(config) == {e \in events : e.at < config.until}
ByDimension(S) == [r \in S |-> RawDimension(r)]
ByWorkload(S) == [r \in S |-> r.detail.workload]
ByTreatment(S) == [r \in S |-> r.detail.treatment]

\* What a document says of a window.
LEMMA DocumentIs ==
  ASSUME NEW config, NEW X, NEW R
  PROVE  LET found == BarnowlEffectiveness(events, X, R, config)
             before == EventsBefore(config)
             selected == ReceiptsIn(config)
             records == EffectiveRecords(events, X, R, config)
             gaps == Gaps(selected, Receipts(before))
             invalid == Invalid(selected, gaps)
             chains == Chains(selected, invalid)
         IN  /\ found.window = config /\ found.selected = selected /\ found.records = records
             /\ found.invalid = invalid /\ found.chains = chains
             /\ found.coverage = JoinCoverage(selected, records, before)
             /\ found.raw = Grouped(selected, records, ByDimension(selected))
             /\ found.workloads = Grouped(selected, records, ByWorkload(selected))
             /\ found.treatments = Grouped(selected, records, ByTreatment(selected))
             /\ found.sources.selected = Cardinality(selected)
             /\ found.allocation = Allocation(records)
             /\ found.funnel = Funnel(chains, invalid, Links(selected), records)
             /\ found.reasons = Reasons(JoinCoverage(selected, records, before), records, gaps, chains, config)
BY DEF BarnowlEffectiveness, Attributed, FollowUp, Document, ReceiptsIn, SourceCoverage,
       ByDimension, ByWorkload, ByTreatment, EventsBefore

\* Receipts as a window of an index has them.
ReceiptsOK(S) ==
  /\ IsFiniteSet(S)
  /\ \A r \in S : r.at \in Nat /\ r.reference # None /\ IsFiniteSet(DOMAIN r.detail.calls)
  /\ \A r, s \in S : r.reference = s.reference => r = s

LEMMA ReceiptsAre ==
  ASSUME IndexOK, NEW config \in archive.asked.effectiveness
  PROVE  /\ ReceiptsOK(ReceiptsIn(config))
         /\ ReceiptsIn(config) = WindowOf(Receipts(events), config)
         /\ \A r \in Receipts(events) : r.adapter = "barnowl-research-outcome" /\ r.reference # None
<1> DEFINE S == ReceiptsIn(config)
<1>1. archive \in Archives /\ events \subseteq Tellable(archive) /\ Consistent(events)
  BY DEF IndexOK
<1>2. S = WindowOf(Receipts(events), config) /\ S \subseteq Receipts(events)
  BY DEF ReceiptsIn, WindowOf, Receipts
<1>3. Receipts(events) \subseteq Receipts(Tellable(archive)) /\ Receipts(events) \subseteq events
  BY <1>1 DEF Receipts
<1>4. archive.asked.effectiveness # {}
  OBVIOUS
<1>5. /\ \A r \in Receipts(Tellable(archive)) :
           /\ r.adapter = "barnowl-research-outcome" /\ r.reference # None
           /\ IsFiniteSet(DOMAIN r.detail.calls)
      /\ \A r, s \in Receipts(Tellable(archive)) : r.reference = s.reference => r.id = s.id
  BY <1>1, <1>4, ReceiptsAssumption, ArchivesAssumption DEF Receipts
<1>6. IsFiniteSet(S) /\ \A r \in S : r.at \in Nat
  BY <1>2, <1>3, IndexFinite, FS_Subset DEF WellFormed
<1>7. \A r, s \in S : r.reference = s.reference => r = s
  BY <1>1, <1>2, <1>3, <1>5 DEF Consistent
<1> QED BY <1>2, <1>3, <1>5, <1>6, <1>7 DEF ReceiptsOK

\* Each record of attributed costs is of one receipt of the window.
OfReceipts(records, S) ==
  \A r \in {r \in records : r.state = "attributed"} :
    \E s \in S : \E c : r.best = {c} /\ c.ref = Ref(Barnowl, s.reference)

\* The candidates for research outcomes are research outcomes.
LEMMA ResearchCandidates ==
  ASSUME NEW E, NEW c \in Candidates(E, {Barnowl}),
         \A e \in Receipts(E) : e.adapter = "barnowl-research-outcome" /\ e.reference # None
  PROVE  \E e \in Receipts(E) : c.ref = Ref(Barnowl, e.reference)
<1>1. PICK e \in E : /\ e.kind = "outcome" /\ CandidateRef(e) # None /\ CandidateRef(e).ns \in {Barnowl}
                     /\ c.ref = CandidateRef(e)
  <2> DEFINE outcomes == {e \in E : e.kind = "outcome" /\ CandidateRef(e) # None /\ CandidateRef(e).ns \in {Barnowl}}
             latest == {k \in outcomes : \A f \in outcomes \ {k} :
                          CandidateRef(f) = CandidateRef(k) => Before(<<f.at, f.id>>, <<k.at, k.id>>)}
             as(k) == [type |-> CandidateRef(k).ns, ref |-> CandidateRef(k), event |-> k.id, status |-> k.status]
  <2>1. c \in {as(k) : k \in latest}
    BY DEF Candidates
  <2>2. PICK e \in latest : c = as(e)
    BY <2>1
  <2> QED BY <2>2
<1> DEFINE cr == CandidateRef(e)
           p1 == e.type = "git.commit" /\ e.reference # None
           p2 == e.adapter = "george" /\ e.type # None
           p3 == e.type = "fab.job" /\ e.reference # None
           p4 == e.type = "fab.attempt"
           p5 == e.type = Barnowl /\ e.adapter = "barnowl-research-outcome" /\ e.reference # None
<1>2. cr = CASE p1 -> Ref("git.commit", e.reference)
             [] p2 -> Ref("george.entry", e.native)
             [] p3 -> Ref("fab.job", e.reference)
             [] p4 -> Ref("fab.attempt", e.native)
             [] p5 -> Ref(Barnowl, e.reference)
             [] OTHER -> None
  BY DEF CandidateRef
<1>3. cr # None /\ cr.ns = Barnowl
  BY <1>1
<1> HIDE DEF cr, p1, p2, p3, p4, p5
<1>4. \/ cr = Ref("git.commit", e.reference) \/ cr = Ref("george.entry", e.native)
      \/ cr = Ref("fab.job", e.reference) \/ cr = Ref("fab.attempt", e.native)
      \/ (p5 /\ cr = Ref(Barnowl, e.reference)) \/ cr = None
  BY <1>2
<1>5. p5 /\ cr = Ref(Barnowl, e.reference)
  BY <1>3, <1>4 DEF Ref, Barnowl
<1>6. e \in Receipts(E)
  BY <1>1, <1>5 DEF p5, Receipts
<1> QED BY <1>1, <1>5, <1>6 DEF cr

LEMMA EffectiveAre ==
  ASSUME IndexOK, NEW config \in archive.asked.effectiveness, NEW X, NEW R
  PROVE  LET records == EffectiveRecords(events, X, R, config)
             costs == Selected(WindowOf(events, config))
         IN  OneEach(records, costs) /\ Priced(costs) /\ OfReceipts(records, ReceiptsIn(config))
<1> DEFINE before == {e \in events : e.at < config.until}
           outside == Receipts(events) \ WindowOf(Receipts(events), config)
           kept == before \ outside
           costs == {e \in WindowOf(events, config) : e.kind = "cost"}
           x == LinksAsOf(X, config.until)
           r == LinksAsOf(R, config.until)
           candidates == Candidates(kept, {Barnowl})
           edges == Edges(x, r, kept)
           records == {Attribute(c, kept, r, candidates, edges) : c \in Selected(WindowOf(events, config))}
<1>1. Consistent(events)
  BY DEF IndexOK
<1>2. costs \subseteq kept
  BY DEF WindowOf, Receipts
<1>3. {e \in kept : e.id \in {k.id : k \in costs}} = costs
  BY <1>1, <1>2 DEF Consistent
<1>4. Selected(costs) = Selected(WindowOf(events, config))
  <2>1. Observations(costs) = Observations(WindowOf(events, config))
    BY DEF Observations
  <2> HIDE DEF costs
  <2> QED BY <2>1 DEF Selected
<1>5. EffectiveRecords(events, X, R, config) = records
  <2>1. EffectiveRecords(events, X, R, config) = Attributions(kept, x, r, {k.id : k \in costs}, {Barnowl})
    BY DEF EffectiveRecords
  <2> HIDE DEF kept, x, r, costs
  <2> QED BY <1>3, <1>4, <2>1 DEF Attributions
<1>6. WindowOf(events, config) \in SUBSET events
  BY DEF WindowOf
<1>7. IsFiniteSet(candidates)
  <2>1. IsFiniteSet(kept)
    BY IndexFinite, FS_Subset
  <2> HIDE DEF kept
  <2> QED BY <2>1, CandidatesFinite
<1>8. Receipts(kept) \subseteq ReceiptsIn(config) /\ Receipts(kept) \subseteq Receipts(events)
  BY DEF Receipts, ReceiptsIn, WindowOf
<1>9. \A c \in candidates : \E s \in ReceiptsIn(config) : c.ref = Ref(Barnowl, s.reference)
  <2> HIDE DEF kept
  <2> QED BY <1>8, ReceiptsAre, ResearchCandidates
<1> HIDE DEF kept, x, r, candidates, edges
<1>10. ASSUME NEW a \in records, a.state = "attributed"
       PROVE  \E s \in ReceiptsIn(config) : \E c : a.best = {c} /\ c.ref = Ref(Barnowl, s.reference)
  <2>1. PICK k \in Selected(WindowOf(events, config)) : a = Attribute(k, kept, r, candidates, edges)
    OBVIOUS
  <2> DEFINE eligible == Eligible(k, kept, r, candidates, edges)
  <2>2. eligible \subseteq candidates /\ TopOf(eligible) \subseteq eligible
    BY DEF Eligible, TopOf
  <2> HIDE DEF eligible
  <2>3. a.best = TopOf(eligible) /\ Cardinality(TopOf(eligible)) = 1
    BY <1>10, <2>1, AttributeIs DEF eligible
  <2>4. IsFiniteSet(TopOf(eligible))
    BY <1>7, <2>2, FS_Subset
  <2>5. PICK c : TopOf(eligible) = {c}
    BY <2>3, <2>4, FS_Singleton
  <2>6. c \in candidates
    BY <2>2, <2>5
  <2> QED BY <1>9, <2>3, <2>5, <2>6
<1> QED BY <1>5, <1>6, <1>10, AttributionsAreOneEach, SelectedIsPriced DEF OfReceipts

CostsFor(some, records) == {r.cost : r \in RecordsFor(some, records)}

\* What is attributed to different receipts are different costs, and all the
\* receipts of a window have all that is attributed.
LEMMA CostsAreApart ==
  ASSUME NEW S, ReceiptsOK(S), NEW C, NEW records, OneEach(records, C), OfReceipts(records, S)
  PROVE  /\ \A T \in SUBSET S : CostsFor(T, records) \in SUBSET C
         /\ \A T, U \in SUBSET S : T \cap U = {} => CostsFor(T, records) \cap CostsFor(U, records) = {}
         /\ CostsFor(S, records) = CostsIn(records, "attributed")
<1>1. ASSUME NEW T \in SUBSET S, NEW r
      PROVE  r \in RecordsFor(T, records) <=>
               /\ r \in records /\ r.state = "attributed"
               /\ \E c \in r.best, t \in T : c.ref = Ref(Barnowl, t.reference)
  BY DEF RecordsFor
<1>2. ASSUME NEW T \in SUBSET S, NEW U \in SUBSET S, NEW r,
             r \in RecordsFor(T, records), r \in RecordsFor(U, records)
      PROVE  T \cap U # {}
  <2>1. PICK c \in r.best, t \in T : c.ref = Ref(Barnowl, t.reference)
    BY <1>1, <1>2
  <2>2. PICK d \in r.best, u \in U : d.ref = Ref(Barnowl, u.reference)
    BY <1>1, <1>2
  <2>3. c = d
    <3>1. r \in records /\ r.state = "attributed"
      BY <1>1, <1>2
    <3> QED BY <2>1, <2>2, <3>1 DEF OfReceipts
  <2>4. t.reference = u.reference
    BY <2>1, <2>2, <2>3 DEF Ref
  <2>5. t = u
    BY <2>4 DEF ReceiptsOK
  <2> QED BY <2>5
<1>3. \A T \in SUBSET S : CostsFor(T, records) \in SUBSET C
  BY <1>1 DEF CostsFor, OneEach
<1>4. ASSUME NEW T \in SUBSET S, NEW U \in SUBSET S, T \cap U = {}
      PROVE  CostsFor(T, records) \cap CostsFor(U, records) = {}
  <2> SUFFICES ASSUME NEW k, k \in CostsFor(T, records), k \in CostsFor(U, records) PROVE FALSE
    OBVIOUS
  <2>1. PICK q \in RecordsFor(T, records) : q.cost = k
    BY DEF CostsFor
  <2>2. PICK r \in RecordsFor(U, records) : r.cost = k
    BY DEF CostsFor
  <2>3. q = r
    BY <1>1, <2>1, <2>2 DEF OneEach
  <2> QED BY <1>2, <1>4, <2>1, <2>2, <2>3
<1>5. RecordsFor(S, records) = {r \in records : r.state = "attributed"}
  BY <1>1 DEF OfReceipts
<1> QED BY <1>3, <1>4, <1>5 DEF CostsFor, CostsIn

\* Costs add up over disjoint parts of the receipts.
LEMMA CostsAddUp ==
  ASSUME NEW S, ReceiptsOK(S), NEW C, Priced(C), NEW records, OneEach(records, C), OfReceipts(records, S),
         NEW K, IsFiniteSet(K), NEW part, \A k \in K : part[k] \in SUBSET S,
         \A k, l \in K : k # l => part[k] \cap part[l] = {},
         NEW w, \A k \in K : w[k] = CostOf(part[k], records)
  PROVE  SumOver(w, K) = CostOf(Whole(part, K), records)
<1> DEFINE costs == [k \in K |-> CostsFor(part[k], records)]
<1>1. \A T : CostOf(T, records) = Amount(CostsFor(T, records))
  BY DEF CostOf, CostsFor
<1>2. \A k \in K : costs[k] \in SUBSET C
  BY CostsAreApart
<1>3. \A k, l \in K : k # l => costs[k] \cap costs[l] = {}
  BY CostsAreApart
<1>4. \A k \in K : w[k] = Amount(costs[k])
  BY <1>1
<1>5. Whole(costs, K) = CostsFor(Whole(part, K), records)
  <2>1. \A k \in K : costs[k] = {r.cost : r \in RecordsFor(part[k], records)}
    BY DEF CostsFor
  <2> HIDE DEF costs
  <2>2. \A r : r \in RecordsFor(Whole(part, K), records)
                 <=> \E k \in K : r \in RecordsFor(part[k], records)
    BY DEF RecordsFor, Whole
  <2>3. \A c \in Whole(costs, K) : c \in CostsFor(Whole(part, K), records)
    BY <2>1, <2>2 DEF Whole, CostsFor
  <2>4. \A c \in CostsFor(Whole(part, K), records) : c \in Whole(costs, K)
    <3> TAKE c \in CostsFor(Whole(part, K), records)
    <3>1. PICK r \in RecordsFor(Whole(part, K), records) : c = r.cost
      BY DEF CostsFor
    <3>2. PICK k \in K : r \in RecordsFor(part[k], records)
      BY <2>2, <3>1
    <3>3. c \in costs[k]
      BY <2>1, <3>1, <3>2
    <3> QED BY <3>3 DEF Whole
  <2> QED BY <2>3, <2>4
<1> HIDE DEF costs
<1>6. SumOver(w, K) = Amount(Whole(costs, K))
  BY <1>2, <1>3, <1>4, AmountsAddUp
<1> QED BY <1>1, <1>5, <1>6

\* However receipts are grouped, the groups have all of them and all that is
\* attributed.
LEMMA GroupsAddUp ==
  ASSUME NEW S, ReceiptsOK(S), NEW C, Priced(C), NEW records, OneEach(records, C), OfReceipts(records, S),
         NEW key, DOMAIN key = S
  PROVE  /\ SumFunction([g \in Grouped(S, records, key) |-> g[2].outcomes]) = Cardinality(S)
         /\ SumFunction([g \in Grouped(S, records, key) |-> g[2].cost]) = TotalOf(records, "attributed")
<1> DEFINE of(k) == {r \in S : key[r] = k}
           group(k) == <<k, ReceiptMetrics(of(k), records)>>
           G == Grouped(S, records, key)
           part == [g \in G |-> of(g[1])]
           outcomes == [g \in G |-> g[2].outcomes]
           costs == [g \in G |-> g[2].cost]
           one == [r \in S |-> 1]
<1>1. G = {group(k) : k \in Range(key)}
  BY DEF Grouped
<1>2. Range(key) = {key[r] : r \in S}
  BY DEF Range
<1>3. \A k : group(k)[1] = k /\ group(k)[2].outcomes = Cardinality(of(k))
             /\ group(k)[2].cost = CostOf(of(k), records)
  BY DEF ReceiptMetrics
<1> HIDE DEF group
<1>4. /\ \A g \in G : g = group(g[1]) /\ g[1] \in Range(key)
      /\ \A r \in S : group(key[r]) \in G
  BY <1>1, <1>2, <1>3
<1>5. IsFiniteSet(G)
  <2> DEFINE f == [r \in S |-> group(key[r])]
  <2>1. \A g \in G : \E r \in S : f[r] = g
    BY <1>2, <1>4
  <2>2. f \in Surjection(S, G)
    <3>1. f \in [S -> G]
      BY <1>4
    <3> HIDE DEF f, G
    <3> QED BY <2>1, <3>1 DEF Surjection
  <2> QED BY <2>2, FS_Surjection DEF ReceiptsOK
<1>6. /\ \A g \in G : part[g] \in SUBSET S
      /\ \A g, h \in G : g # h => part[g] \cap part[h] = {}
  <2>1. \A g, h \in G : g # h => g[1] # h[1]
    BY <1>4
  <2>2. \A g \in G : part[g] = of(g[1])
    OBVIOUS
  <2> HIDE DEF G, part
  <2> QED BY <2>1, <2>2
<1>7. Whole(part, G) = S
  <2>1. \A r \in S : group(key[r]) \in G /\ r \in of(group(key[r])[1])
    BY <1>3, <1>4
  <2>2. \A g \in G : part[g] = of(g[1])
    OBVIOUS
  <2> HIDE DEF G, part
  <2>3. \A r \in S : r \in Whole(part, G)
    BY <2>1, <2>2 DEF Whole
  <2>4. Whole(part, G) \subseteq S
    BY <1>6 DEF Whole
  <2> QED BY <2>3, <2>4
<1>8. /\ \A g \in G : outcomes[g] = Cardinality(part[g]) /\ costs[g] = CostOf(part[g], records)
  <2>1. \A g \in G : g[2].outcomes = Cardinality(of(g[1])) /\ g[2].cost = CostOf(of(g[1]), records)
    BY <1>3, <1>4
  <2> QED BY <2>1
<1>9. \A g \in G : IsFiniteSet(part[g])
  BY <1>6, FS_Subset DEF ReceiptsOK
<1>10. /\ SumFunction([g \in G |-> g[2].outcomes]) = SumOver(outcomes, G)
       /\ SumFunction([g \in G |-> g[2].cost]) = SumOver(costs, G)
  <2>1. /\ [g \in G |-> outcomes[g]] = [g \in G |-> g[2].outcomes]
        /\ [g \in G |-> costs[g]] = [g \in G |-> g[2].cost]
    OBVIOUS
  <2> HIDE DEF G, outcomes, costs
  <2> QED BY <2>1 DEF SumOver
<1> HIDE DEF G, part, outcomes, costs
<1>11. SumOver(outcomes, G) = Cardinality(S)
  <2>1. \A g \in G : \A r \in part[g] : one[r] = 1 /\ one[r] \in Int
    BY <1>6
  <2>2. \A r \in S : one[r] = 1
    OBVIOUS
  <2> HIDE DEF one
  <2>3. \A g \in G : outcomes[g] = SumOver(one, part[g])
    BY <1>8, <1>9, <2>1, SumOfOnes
  <2>4. SumOver(outcomes, G) = SumOver(one, Whole(part, G))
    BY <1>5, <1>6, <1>9, <2>1, <2>3, SumParts
  <2> QED BY <1>7, <2>2, <2>4, SumOfOnes DEF ReceiptsOK
<1>12. SumOver(costs, G) = CostOf(S, records)
  <2>1. SumOver(costs, G) = CostOf(Whole(part, G), records)
    BY <1>5, <1>6, <1>8, CostsAddUp
  <2> QED BY <1>7, <2>1
<1>13. CostOf(S, records) = TotalOf(records, "attributed")
  BY CostsAreApart DEF CostOf, CostsFor, TotalOf, CostsIn
<1> QED BY <1>10, <1>11, <1>12, <1>13 DEF G

\* A call that a receipt names is not both joined and missing.
LEMMA CallsAreCounted ==
  ASSUME NEW S, ReceiptsOK(S), NEW records, NEW E
  PROVE  LET coverage == JoinCoverage(S, records, E)
         IN  coverage.joined + coverage.missing <= coverage.named
<1> DEFINE slotsOf == [r \in S |-> {r} \X DOMAIN r.detail.calls]
           slots == UNION {slotsOf[r] : r \in S}
           named == {s \in slots : s[1].detail.calls[s[2]].call # None}
           of(s) == {r \in records : CallRoot(r.cost, E) = Ref("somm.call", s[1].detail.calls[s[2]].call)}
           joined == {s \in named : of(s) \cap RecordsFor({s[1]}, records) # {}}
           missing == {s \in named : of(s) = {}}
<1>1. IsFiniteSet(slots)
  <2> DEFINE all == {slotsOf[r] : r \in S}
  <2>1. \A r \in S : IsFiniteSet(slotsOf[r])
    BY FS_Singleton, FS_Product DEF ReceiptsOK
  <2>2. slotsOf \in Surjection(S, all)
    BY DEF Surjection
  <2>3. IsFiniteSet(all)
    BY <2>2, FS_Surjection DEF ReceiptsOK
  <2>4. \A x \in all : IsFiniteSet(x)
    BY <2>1
  <2> HIDE DEF slotsOf, all
  <2>5. IsFiniteSet(UNION all)
    BY <2>3, <2>4, FS_UNION
  <2> QED BY <2>5 DEF all
<1>2. JoinCoverage(S, records, E)
        = [named |-> Cardinality(named), joined |-> Cardinality(joined), missing |-> Cardinality(missing)]
  <2>1. slots = UNION {{r} \X DOMAIN r.detail.calls : r \in S}
    OBVIOUS
  <2> HIDE DEF slots
  <2> QED BY <2>1 DEF JoinCoverage
<1>3. joined \subseteq named /\ missing \subseteq named /\ joined \cap missing = {} /\ named \subseteq slots
  OBVIOUS
<1> HIDE DEF slots, named, joined, missing
<1>4. IsFiniteSet(named) /\ IsFiniteSet(joined) /\ IsFiniteSet(missing)
  BY <1>1, <1>3, FS_Subset
<1>5. Cardinality(joined \cup missing) = Cardinality(joined) + Cardinality(missing) - Cardinality({})
  BY <1>3, <1>4, FS_Union
<1>6. Cardinality(joined \cup missing) <= Cardinality(named)
  BY <1>3, <1>4, FS_Subset
<1>7. /\ Cardinality({}) = 0 /\ Cardinality(joined) \in Nat /\ Cardinality(missing) \in Nat
      /\ Cardinality(named) \in Nat
  BY <1>4, FS_EmptySet, FS_CardinalityType
<1>8. Cardinality(joined) + Cardinality(missing) <= Cardinality(named)
  BY <1>5, <1>6, <1>7
<1> QED BY <1>2, <1>8

\* However a window is cut, the parts are the whole (CutsAgree), whatever the
\* outcomes and the links of the index.
THEOREM CutsAddUp == LiveSpec => []CutsAgree
<1>1. ASSUME IndexOK, NEW found \in EffectivenessFound
      PROVE  LET spent(state) == IF state \in DOMAIN found.allocation.states
                                 THEN found.allocation.states[state][2] ELSE 0
             IN  /\ \A by \in {"raw", "workloads", "treatments"} :
                      /\ SumFunction([g \in found[by] |-> g[2].outcomes]) = found.sources.selected
                      /\ SumFunction([g \in found[by] |-> g[2].cost]) = spent("attributed")
                 /\ spent("attributed") + spent("ambiguous") + spent("unallocated")
                      = Amount(Selected(WindowOf(events, found.window)))
                 /\ found.coverage.joined + found.coverage.missing <= found.coverage.named
  <2>1. PICK config \in archive.asked.effectiveness : \E X, R : found = BarnowlEffectiveness(events, X, R, config)
    BY FoundIs
  <2>2. PICK X, R : found = BarnowlEffectiveness(events, X, R, config)
    BY <2>1
  <2> DEFINE S == ReceiptsIn(config)
             records == EffectiveRecords(events, X, R, config)
             costs == Selected(WindowOf(events, config))
             spent(state) == IF state \in DOMAIN found.allocation.states
                             THEN found.allocation.states[state][2] ELSE 0
  <2>3. ReceiptsOK(S)
    BY <1>1, ReceiptsAre
  <2>4. OneEach(records, costs) /\ Priced(costs) /\ OfReceipts(records, S)
    BY <1>1, EffectiveAre
  <2>5. /\ found.window = config
        /\ found.coverage = JoinCoverage(S, records, EventsBefore(config))
        /\ found.raw = Grouped(S, records, ByDimension(S))
        /\ found.workloads = Grouped(S, records, ByWorkload(S))
        /\ found.treatments = Grouped(S, records, ByTreatment(S))
        /\ found.sources.selected = Cardinality(S)
        /\ found.allocation = Allocation(records)
    <3> DEFINE document == BarnowlEffectiveness(events, X, R, config)
    <3>1. /\ document.window = config
          /\ document.coverage = JoinCoverage(S, records, EventsBefore(config))
          /\ document.raw = Grouped(S, records, ByDimension(S))
          /\ document.workloads = Grouped(S, records, ByWorkload(S))
          /\ document.treatments = Grouped(S, records, ByTreatment(S))
          /\ document.sources.selected = Cardinality(S)
          /\ document.allocation = Allocation(records)
      BY DocumentIs
    <3> HIDE DEF document, S, records
    <3> QED BY <2>2, <3>1 DEF document
  <2> HIDE DEF S, records, costs
  <2>6. ASSUME NEW state PROVE spent(state) = TotalOf(records, state)
    <3>1. found.allocation.states = [s \in {r.state : r \in records} |->
                                       <<Cardinality({r \in records : r.state = s}), TotalOf(records, s)>>]
      BY <2>5 DEF Allocation
    <3>2. CASE state \in {r.state : r \in records}
      BY <3>1, <3>2
    <3>3. CASE state \notin {r.state : r \in records}
      <4>1. CostsIn(records, state) = {}
        BY <3>3 DEF CostsIn
      <4>2. TotalOf(records, state) = 0
        BY <4>1, AmountOfNothing DEF TotalOf, CostsIn
      <4>3. state \notin DOMAIN found.allocation.states
        BY <3>1, <3>3
      <4> QED BY <4>2, <4>3
    <3> QED BY <3>2, <3>3
  <2>7. ASSUME NEW key, DOMAIN key = S
        PROVE  /\ SumFunction([g \in Grouped(S, records, key) |-> g[2].outcomes]) = found.sources.selected
               /\ SumFunction([g \in Grouped(S, records, key) |-> g[2].cost]) = spent("attributed")
    BY <2>3, <2>4, <2>5, <2>6, <2>7, GroupsAddUp
  <2> HIDE DEF spent
  <2>8. ASSUME NEW by \in {"raw", "workloads", "treatments"}
        PROVE  /\ SumFunction([g \in found[by] |-> g[2].outcomes]) = found.sources.selected
               /\ SumFunction([g \in found[by] |-> g[2].cost]) = spent("attributed")
    <3>1. \E key : DOMAIN key = S /\ found[by] = Grouped(S, records, key)
      <4>1. CASE by = "raw"
        BY <2>5, <4>1 DEF ByDimension
      <4>2. CASE by = "workloads"
        BY <2>5, <4>2 DEF ByWorkload
      <4>3. CASE by = "treatments"
        BY <2>5, <4>3 DEF ByTreatment
      <4> QED BY <4>1, <4>2, <4>3
    <3> QED BY <2>7, <3>1
  <2>9. spent("attributed") + spent("ambiguous") + spent("unallocated") = Amount(costs)
    BY <2>4, <2>6, BucketsReconcile
  <2>10. found.coverage.joined + found.coverage.missing <= found.coverage.named
    BY <2>3, <2>5, CallsAreCounted
  <2> QED BY <2>5, <2>8, <2>9, <2>10 DEF spent, costs
<1>2. IndexOK => CutsAgree
  BY <1>1 DEF CutsAgree
<1> QED BY <1>2, IndexHolds, PTL
-----------------------------------------------------------------------------
(* Effectiveness: chains of receipts.                                      *)

\* Links from earlier to later, at most one to and one from each.
Linear(V, links) ==
  /\ IsFiniteSet(V) /\ links \in SUBSET (V \X V)
  /\ \A r \in V : r.at \in Nat
  /\ \A l \in links : l[1].at < l[2].at
  /\ \A l, m \in links : l[1] = m[1] \/ l[2] = m[2] => l = m

IsRoot(r, links) == ~\E l \in links : l[2] = r
IsPath(c, V, links) ==
  c \in Seq(V) /\ Len(c) >= 1 /\ \A i \in 2..Len(c) : <<c[i - 1], c[i]>> \in links
IsChain(c, V, links) ==
  IsPath(c, V, links) /\ IsRoot(c[1], links) /\ ~\E l \in links : l[1] = c[Len(c)]

Followers(r, links) == {l[2] : l \in {l \in links : l[1] = r}}
Further(c, links) ==
  IF Followers(Last(c), links) = {} THEN c
  ELSE Append(c, CHOOSE r \in Followers(Last(c), links) : TRUE)
Walk(root, links) ==
  LET walk[n \in Nat] == IF n = 0 THEN <<root>> ELSE Further(walk[n - 1], links) IN walk

LEMMA ChainsAre ==
  ASSUME NEW S, NEW invalid
  PROVE  LET V == S \ invalid
         IN  Chains(S, invalid) = {Walk(r, Links(V))[Cardinality(V)] : r \in {r \in V : IsRoot(r, Links(V))}}
BY DEF Chains, Walk, Further, Followers, IsRoot

\* A path goes on as long as something follows.
LEMMA FurtherIs ==
  ASSUME NEW V, NEW links, Linear(V, links), NEW c, IsPath(c, V, links)
  PROVE  /\ IsPath(Further(c, links), V, links) /\ Further(c, links)[1] = c[1]
         /\ \/ Len(Further(c, links)) = Len(c) + 1
            \/ Further(c, links) = c /\ ~\E l \in links : l[1] = c[Len(c)]
<1> DEFINE n == Len(c)
           after == Followers(c[n], links)
           next == CHOOSE r \in after : TRUE
<1>1. c \in Seq(V) /\ n \in Nat /\ n >= 1 /\ \A i \in 2..n : <<c[i - 1], c[i]>> \in links
  BY DEF IsPath
<1>2. Further(c, links) = IF after = {} THEN c ELSE Append(c, next)
  BY DEF Further, Last
<1>3. CASE after = {}
  <2>1. Further(c, links) = c /\ ~\E l \in links : l[1] = c[n]
    BY <1>2, <1>3 DEF Followers
  <2> QED BY <2>1
<1>4. CASE after # {}
  <2>1. next \in after
    BY <1>4
  <2>2. PICK l \in links : l[1] = c[n] /\ l[2] = next
    BY <2>1 DEF Followers
  <2>3. l = <<c[n], next>> /\ next \in V
    <3> HIDE DEF next
    <3>1. l \in V \X V
      BY DEF Linear
    <3>2. l = <<l[1], l[2]>> /\ l[2] \in V
      BY <3>1
    <3> QED BY <2>2, <3>2
  <2> DEFINE d == Append(c, next)
  <2>4. Further(c, links) = d
    BY <1>2, <1>4
  <2> HIDE DEF next, after
  <2>5. d \in Seq(V) /\ Len(d) = n + 1 /\ d[n + 1] = next /\ \A i \in 1..n : d[i] = c[i]
    BY <1>1, <2>3
  <2> HIDE DEF d
  <2>6. ASSUME NEW i \in 2..(n + 1) PROVE <<d[i - 1], d[i]>> \in links
    <3>1. CASE i = n + 1
      <4>1. i - 1 = n /\ n \in 1..n
        BY <1>1, <3>1
      <4>2. d[i - 1] = c[n] /\ d[i] = next
        BY <2>5, <3>1, <4>1
      <4> QED BY <2>3, <4>2
    <3>2. CASE i # n + 1
      <4>1. i \in 2..n /\ i \in 1..n /\ i - 1 \in 1..n
        BY <1>1, <3>2
      <4> QED BY <1>1, <2>5, <4>1
    <3> QED BY <3>1, <3>2
  <2>7. d[1] = c[1]
    BY <1>1, <2>5
  <2>8. IsPath(d, V, links)
    BY <1>1, <2>5, <2>6 DEF IsPath
  <2> QED BY <2>4, <2>5, <2>7, <2>8
<1> QED BY <1>3, <1>4

LEMMA WalkDef ==
  ASSUME NEW V, NEW links, Linear(V, links), NEW root \in V
  PROVE  /\ Walk(root, links)[0] = <<root>>
         /\ \A n \in Nat : Walk(root, links)[n + 1] = Further(Walk(root, links)[n], links)
<1> DEFINE start == <<root>>
           D == {c \in Seq(V) : IsPath(c, V, links)}
           more(c) == Further(c, links)
           next == [c \in D |-> more(c)]
           eq(w) == w = [n \in Nat |-> IF n = 0 THEN start ELSE more(w[n - 1])]
<1>1. start \in D
  <2>1. start \in Seq(V) /\ Len(start) = 1
    OBVIOUS
  <2>2. 2..1 = {}
    OBVIOUS
  <2> HIDE DEF start
  <2>3. IsPath(start, V, links)
    <3> HIDE DEF D
    <3> QED BY <2>1, <2>2 DEF IsPath
  <2> QED BY <2>1, <2>3
<1>2. next \in [D -> D]
  BY FurtherIs DEF IsPath
<1>3. PICK f \in [Nat -> D] : f[0] = start /\ \A n \in Nat : f[n + 1] = next[f[n]]
  <2> HIDE DEF D, next, start
  <2> QED  BY <1>1, <1>2, Iteration
<1>4. eq(f)
  <2>1. ASSUME NEW n \in Nat PROVE f[n] = IF n = 0 THEN start ELSE more(f[n - 1])
    <3>1. CASE n = 0
      BY <1>3, <3>1
    <3>2. CASE n # 0
      <4>1. n - 1 \in Nat /\ (n - 1) + 1 = n
        BY <3>2
      <4>2. f[n] = next[f[n - 1]] /\ f[n - 1] \in D
        BY <1>3, <4>1
      <4>3. next[f[n - 1]] = more(f[n - 1])
        BY <4>2
      <4> QED  BY <3>2, <4>2, <4>3
    <3> QED  BY <3>1, <3>2
  <2> HIDE DEF more
  <2> QED  BY <2>1
<1>5. Walk(root, links) = CHOOSE w : eq(w)
  BY DEF Walk
<1>6. eq(Walk(root, links))
  <2> HIDE DEF eq
  <2> QED  BY <1>4, <1>5
<1> DEFINE r == Walk(root, links)
<1>7. r = [n \in Nat |-> IF n = 0 THEN start ELSE more(r[n - 1])]
  BY <1>6
<1> HIDE DEF r, more
<1>8. r[0] = start
  BY <1>7
<1>9. ASSUME NEW n \in Nat PROVE r[n + 1] = more(r[n])
  <2>1. n + 1 \in Nat /\ n + 1 # 0 /\ (n + 1) - 1 = n
    OBVIOUS
  <2> QED  BY <1>7, <2>1
<1> QED  BY <1>8, <1>9 DEF r, more

\* A path goes forward in time, and is no longer than there are receipts.
LEMMA PathsAreShort ==
  ASSUME NEW V, NEW links, Linear(V, links), NEW c, IsPath(c, V, links)
  PROVE  /\ \A i, j \in 1..Len(c) : i < j => c[i].at < c[j].at
         /\ Len(c) <= Cardinality(V)
<1> DEFINE n == Len(c)
           P == {j \in Nat : j \in 1..n => \A i \in 1..n : i < j => c[i].at < c[j].at}
<1>1. /\ n \in Nat /\ c \in [1..n -> V] /\ \A i \in 1..n : c[i].at \in Nat
      /\ \A i \in 2..n : c[i - 1].at < c[i].at
  <2>1. c \in Seq(V) /\ \A i \in 2..n : <<c[i - 1], c[i]>> \in links
    BY DEF IsPath
  <2>2. \A i \in 2..n : c[i - 1].at < c[i].at
    BY <2>1 DEF Linear
  <2>3. n \in Nat /\ c \in [1..n -> V]
    BY <2>1
  <2>4. \A i \in 1..n : c[i].at \in Nat
    BY <2>3 DEF Linear
  <2> QED BY <2>2, <2>3, <2>4
<1> HIDE DEF n
<1>2. 0 \in P
  OBVIOUS
<1>3. ASSUME NEW j \in Nat, j \in P PROVE j + 1 \in P
  <2> SUFFICES ASSUME j + 1 \in 1..n, NEW i \in 1..n, i < j + 1 PROVE c[i].at < c[j + 1].at
    BY <1>3
  <2>1. j \in 1..n /\ j + 1 \in 2..n /\ (j + 1) - 1 = j
    BY <1>1
  <2>2. c[j].at < c[j + 1].at
    BY <1>1, <2>1
  <2>3. i = j \/ c[i].at < c[j].at
    BY <1>3, <2>1
  <2>4. c[i].at \in Nat /\ c[j].at \in Nat /\ c[j + 1].at \in Nat
    BY <1>1, <2>1
  <2> QED BY <2>2, <2>3, <2>4
<1>4. \A i, j \in 1..n : i < j => c[i].at < c[j].at
  <2> HIDE DEF P
  <2>1. Nat \subseteq P
    BY <1>2, <1>3, Induction
  <2>2. \A j \in 1..n : j \in P
    BY <1>1, <2>1
  <2> QED BY <2>2 DEF P
<1>5. c \in Injection(1..n, V)
  <2>1. \A i, j \in 1..n : c[i] = c[j] => i = j
    <3> TAKE i, j \in 1..n
    <3>1. c[i].at \in Nat /\ c[j].at \in Nat
      BY <1>1
    <3> QED BY <1>4, <3>1
  <2> QED BY <1>1, <2>1 DEF Injection, IsInjective
<1>6. Cardinality(1..n) <= Cardinality(V)
  BY <1>5, FS_Injection DEF Linear
<1>7. Cardinality(1..n) = n
  BY <1>1, FS_Interval
<1> QED BY <1>4, <1>6, <1>7 DEF n

\* What is walked from a root is a chain.
LEMMA WalkIs ==
  ASSUME NEW V, NEW links, Linear(V, links), NEW root \in V, IsRoot(root, links)
  PROVE  LET c == Walk(root, links)[Cardinality(V)] IN IsChain(c, V, links) /\ c[1] = root
<1> DEFINE w == Walk(root, links)
           ended(c) == ~\E l \in links : l[1] = c[Len(c)]
           P == {n \in Nat : /\ IsPath(w[n], V, links) /\ w[n][1] = root
                             /\ Len(w[n]) = n + 1 \/ ended(w[n])}
<1>1. w[0] = <<root>> /\ \A n \in Nat : w[n + 1] = Further(w[n], links)
  BY WalkDef
<1> HIDE DEF w, ended
<1>2. 0 \in P
  <2> DEFINE start == <<root>>
  <2>1. start \in Seq(V) /\ Len(start) = 1 /\ start[1] = root /\ 2..1 = {}
    OBVIOUS
  <2> HIDE DEF start
  <2>2. IsPath(start, V, links)
    BY <2>1 DEF IsPath
  <2>3. w[0] = start
    BY <1>1 DEF start
  <2> QED BY <2>1, <2>2, <2>3
<1>3. ASSUME NEW n \in Nat, n \in P PROVE n + 1 \in P
  <2>1. IsPath(w[n], V, links) /\ w[n][1] = root /\ (Len(w[n]) = n + 1 \/ ended(w[n]))
    BY <1>3
  <2>2. w[n + 1] = Further(w[n], links)
    BY <1>1
  <2>3. /\ IsPath(w[n + 1], V, links) /\ w[n + 1][1] = root
        /\ Len(w[n + 1]) = Len(w[n]) + 1 \/ (w[n + 1] = w[n] /\ ended(w[n]))
    BY <2>1, <2>2, FurtherIs DEF ended
  <2>4. ended(w[n]) => w[n + 1] = w[n]
    <3> SUFFICES ASSUME ended(w[n]) PROVE Further(w[n], links) = w[n]
      BY <2>2
    <3>1. Followers(Last(w[n]), links) = {}
      BY DEF Followers, Last, ended
    <3> QED BY <3>1 DEF Further
  <2>5. Len(w[n + 1]) = (n + 1) + 1 \/ ended(w[n + 1])
    BY <2>1, <2>3, <2>4
  <2> QED BY <2>3, <2>5
<1>4. Cardinality(V) \in Nat
  BY FS_CardinalityType DEF Linear
<1>5. Cardinality(V) \in P
  <2> HIDE DEF P
  <2>1. Nat \subseteq P
    BY <1>2, <1>3, Induction
  <2> QED BY <1>4, <2>1
<1> DEFINE c == w[Cardinality(V)]
<1>6. IsPath(c, V, links) /\ c[1] = root /\ (Len(c) = Cardinality(V) + 1 \/ ended(c))
  BY <1>5
<1>7. Len(c) <= Cardinality(V) /\ Len(c) \in Nat
  <2> HIDE DEF c
  <2> QED BY <1>6, PathsAreShort DEF IsPath
<1> HIDE DEF c
<1>8. ended(c)
  BY <1>4, <1>6, <1>7
<1> QED BY <1>6, <1>8 DEF IsChain, ended, c, w

WalksOf(V, links) == {Walk(r, links)[Cardinality(V)] : r \in {r \in V : IsRoot(r, links)}}

\* Chains that meet begin with the same receipt.
LEMMA ChainsMeet ==
  ASSUME NEW V, NEW links, Linear(V, links), NEW c, NEW d, IsChain(c, V, links), IsChain(d, V, links),
         NEW i \in 1..Len(c), NEW j \in 1..Len(d), c[i] = d[j]
  PROVE  c[1] = d[1]
<1> DEFINE P == {n \in Nat : \A k \in 1..Len(d) : n \in 1..Len(c) /\ c[n] = d[k] => c[1] = d[1]}
<1>1. /\ Len(c) \in Nat /\ Len(d) \in Nat
      /\ IsRoot(c[1], links) /\ IsRoot(d[1], links)
      /\ \A n \in 2..Len(c) : <<c[n - 1], c[n]>> \in links
      /\ \A n \in 2..Len(d) : <<d[n - 1], d[n]>> \in links
  BY DEF IsChain, IsPath
<1>2. 0 \in P
  OBVIOUS
<1>3. ASSUME NEW n \in Nat, n \in P PROVE n + 1 \in P
  <2> SUFFICES ASSUME NEW k \in 1..Len(d), n + 1 \in 1..Len(c), c[n + 1] = d[k] PROVE c[1] = d[1]
    BY <1>3
  <2>1. CASE n = 0
    <3>1. k = 1
      <4> SUFFICES ASSUME k # 1 PROVE FALSE
        OBVIOUS
      <4>1. k \in 2..Len(d)
        BY <1>1
      <4>2. <<d[k - 1], d[k]>> \in links /\ <<d[k - 1], d[k]>>[2] = d[k]
        BY <1>1, <4>1
      <4>3. d[k] = c[1]
        BY <2>1
      <4> QED BY <1>1, <4>2, <4>3 DEF IsRoot
    <3> QED BY <2>1, <3>1
  <2>2. CASE n # 0
    <3>1. n + 1 \in 2..Len(c) /\ (n + 1) - 1 = n /\ n \in 1..Len(c)
      BY <1>1, <2>2
    <3> DEFINE l == <<c[n], c[n + 1]>>
               m == <<d[k - 1], d[k]>>
    <3>2. l \in links /\ l[1] = c[n] /\ l[2] = d[k]
      BY <1>1, <3>1
    <3>3. k # 1
      BY <1>1, <3>2 DEF IsRoot
    <3>4. k \in 2..Len(d) /\ k - 1 \in 1..Len(d)
      BY <1>1, <3>3
    <3>5. m \in links /\ m[1] = d[k - 1] /\ m[2] = d[k]
      BY <1>1, <3>4
    <3> HIDE DEF l, m
    <3>6. l = m
      BY <3>2, <3>5 DEF Linear
    <3>7. c[n] = d[k - 1]
      BY <3>2, <3>5, <3>6
    <3> QED BY <1>3, <3>1, <3>4, <3>7
  <2> QED BY <2>1, <2>2
<1>4. i \in P
  <2> HIDE DEF P
  <2>1. Nat \subseteq P
    BY <1>2, <1>3, Induction
  <2> QED BY <1>1, <2>1
<1> QED BY <1>4

\* The chains divide the receipts.
LEMMA WalksDivide ==
  ASSUME NEW V, NEW links, Linear(V, links)
  PROVE  /\ IsFiniteSet(WalksOf(V, links))
         /\ \A c \in WalksOf(V, links) : IsChain(c, V, links) /\ Range(c) \in SUBSET V
         /\ \A c, d \in WalksOf(V, links) : c # d => Range(c) \cap Range(d) = {}
         /\ \A r \in V : \E c \in WalksOf(V, links) : r \in Range(c)
<1> DEFINE roots == {r \in V : IsRoot(r, links)}
           walk == [r \in roots |-> Walk(r, links)[Cardinality(V)]]
           all == WalksOf(V, links)
<1>1. all = {walk[r] : r \in roots}
  BY DEF WalksOf
<1>2. \A r \in roots : IsChain(walk[r], V, links) /\ walk[r][1] = r
  BY WalkIs
<1>3. IsFiniteSet(all)
  <2>1. IsFiniteSet(roots)
    BY FS_Subset DEF Linear
  <2>2. walk \in [roots -> all]
    BY <1>1
  <2>3. \A c \in all : \E r \in roots : walk[r] = c
    BY <1>1
  <2> HIDE DEF walk, all, roots
  <2>4. walk \in Surjection(roots, all)
    BY <2>2, <2>3 DEF Surjection
  <2> QED BY <2>1, <2>4, FS_Surjection
<1> HIDE DEF walk, all
<1>4. \A c \in all : /\ IsChain(c, V, links) /\ c[1] \in roots /\ c = walk[c[1]]
                     /\ Len(c) \in Nat \ {0} /\ c \in [1..Len(c) -> V]
  <2> TAKE c \in all
  <2>1. PICK r \in roots : c = walk[r]
    BY <1>1
  <2>2. IsChain(c, V, links) /\ c[1] = r
    BY <1>2, <2>1
  <2>3. c \in Seq(V) /\ Len(c) >= 1
    BY <2>2 DEF IsChain, IsPath
  <2>4. Len(c) \in Nat \ {0} /\ c \in [1..Len(c) -> V]
    BY <2>3
  <2> QED BY <2>1, <2>2, <2>4
<1>5. \A c \in all : \A r : r \in Range(c) <=> \E i \in 1..Len(c) : c[i] = r
  BY <1>4 DEF Range
<1>6. \A c \in all : Range(c) \in SUBSET V
  <2> TAKE c \in all
  <2>1. \A i \in 1..Len(c) : c[i] \in V
    BY <1>4
  <2> QED BY <1>5, <2>1
<1>7. ASSUME NEW c \in all, NEW d \in all, c # d PROVE Range(c) \cap Range(d) = {}
  <2> SUFFICES ASSUME NEW r \in Range(c), r \in Range(d) PROVE FALSE
    OBVIOUS
  <2>1. PICK i \in 1..Len(c) : c[i] = r
    BY <1>5
  <2>2. PICK j \in 1..Len(d) : d[j] = r
    BY <1>5
  <2>3. c[1] = d[1]
    BY <1>4, <2>1, <2>2, ChainsMeet
  <2> QED BY <1>4, <1>7, <2>3
<1> DEFINE P == {n \in Nat : \A r \in V : r.at < n => \E c \in all : r \in Range(c)}
<1>8. 0 \in P
  BY DEF Linear
<1>9. ASSUME NEW n \in Nat, n \in P PROVE n + 1 \in P
  <2> SUFFICES ASSUME NEW r \in V, r.at < n + 1 PROVE \E c \in all : r \in Range(c)
    BY <1>9
  <2>1. CASE IsRoot(r, links)
    <3>1. r \in roots
      BY <2>1
    <3>2. walk[r] \in all /\ walk[r][1] = r
      BY <1>1, <1>2, <3>1
    <3>3. 1 \in 1..Len(walk[r])
      BY <1>4, <3>2
    <3> QED BY <1>5, <3>2, <3>3
  <2>2. CASE ~IsRoot(r, links)
    <3>1. PICK l \in links : l[2] = r
      BY <2>2 DEF IsRoot
    <3>2. l[1] \in V /\ l[1].at \in Nat /\ r.at \in Nat /\ l[1].at < r.at
      <4>1. l \in V \X V /\ l[1].at < l[2].at
        BY DEF Linear
      <4> QED BY <3>1, <4>1 DEF Linear
    <3>3. l[1].at < n
      BY <3>2
    <3>4. PICK c \in all : l[1] \in Range(c)
      BY <1>9, <3>2, <3>3
    <3>5. PICK i \in 1..Len(c) : c[i] = l[1]
      BY <1>5, <3>4
    <3>6. i # Len(c)
      BY <1>4, <3>5 DEF IsChain
    <3>7. i + 1 \in 2..Len(c) /\ (i + 1) - 1 = i /\ i + 1 \in 1..Len(c)
      BY <1>4, <3>6
    <3> DEFINE m == <<c[i], c[i + 1]>>
    <3>8. m \in links /\ m[1] = l[1] /\ m[2] = c[i + 1]
      BY <1>4, <3>5, <3>7 DEF IsChain, IsPath
    <3> HIDE DEF m
    <3>9. m = l
      BY <3>8 DEF Linear
    <3>10. c[i + 1] = r
      BY <3>1, <3>8, <3>9
    <3> QED BY <1>5, <3>7, <3>10
  <2> QED BY <2>1, <2>2
<1>10. \A r \in V : \E c \in all : r \in Range(c)
  <2> HIDE DEF P
  <2>1. Nat \subseteq P
    BY <1>8, <1>9, Induction
  <2> TAKE r \in V
  <2>2. r.at \in Nat /\ r.at + 1 \in Nat /\ r.at < r.at + 1
    BY DEF Linear
  <2>3. r.at + 1 \in P
    BY <2>1, <2>2
  <2> QED BY <2>2, <2>3 DEF P
<1> QED BY <1>3, <1>4, <1>6, <1>7, <1>10 DEF all

\* What is cyclic is of the window.
LEMMA CyclesStay ==
  ASSUME NEW S, IsFiniteSet(S) PROVE UNION Cycles(Links(S)) \subseteq S
<1> DEFINE links == Links(S)
           back == {<<l[2], l[1]>> : l \in links}
           before(r) == {l[1] : l \in {l \in links : l[2] = r}}
<1>1. links \in SUBSET (S \X S)
  BY DEF Links
<1>2. Cardinality(links) \in Nat
  BY <1>1, FS_Product, FS_Subset, FS_CardinalityType
<1> HIDE DEF links
<1>3. \A r : before(r) \subseteq S
  BY <1>1
<1>4. \A s \in back : s[1] \in S => s[2] \in S
  BY <1>1
<1>5. \A r : Predecessors(r, links) \subseteq S
  <2> TAKE r
  <2>1. Predecessors(r, links) = Reach(before(r), back)[Cardinality(links)]
    BY DEF Predecessors
  <2>2. before(r) \subseteq S
    BY <1>3
  <2> HIDE DEF before, back
  <2> QED BY <1>2, <1>4, <2>1, <2>2, ReachStaysIn
<1>6. Cycles(links) = {Predecessors(l[1], links) : l \in {l \in links : l[1] \in Predecessors(l[1], links)}}
  BY DEF Cycles
<1> QED BY <1>5, <1>6 DEF links

\* What no gap leaves invalid is linear, and apart from the rest.
LEMMA ValidIsLinear ==
  ASSUME NEW S, ReceiptsOK(S), NEW known
  PROVE  LET gaps == Gaps(S, known)
             invalid == Invalid(S, gaps)
             V == S \ invalid
         IN  /\ invalid \subseteq S
             /\ Linear(V, Links(V))
             /\ \A l \in Links(V) : l[1].detail.domain = l[2].detail.domain
             /\ \A r \in V : r.detail.supersedes # None => ~IsRoot(r, Links(V))
             /\ \A v \in V, r \in S : r.detail.supersedes = v.reference => <<v, r>> \in Links(V)
             /\ (\A gap \in DOMAIN gaps : gaps[gap] = {}) => invalid = {}
<1> DEFINE links == Links(S)
           gaps == Gaps(S, known)
           open == {r \in S : r.detail.supersedes # None /\ ~\E l \in links : l[2] = r}
           outside == {r \in open : \E k \in known : k.reference = r.detail.supersedes}
           cross == {l \in links : l[1].detail.domain # l[2].detail.domain}
           late == {l \in links : l[1].at >= l[2].at}
           fork == {l \in links : \E m \in links : m[1] = l[1] /\ m[2] # l[2]}
           at == gaps.outside_window \cup gaps.missing_target \cup (UNION gaps.cycle)
                   \cup UNION {{l[1], l[2]} : l \in gaps.cross_domain \cup gaps.non_increasing_timestamp
                                                      \cup gaps.fork}
           invalid == Invalid(S, gaps)
           V == S \ invalid
<1>1. gaps = [outside_window |-> outside, missing_target |-> open \ outside, cross_domain |-> cross,
              non_increasing_timestamp |-> late, fork |-> fork, cycle |-> Cycles(links)]
  BY DEF Gaps
<1>2. invalid = Reach(at, BothWays(links))[Cardinality(S)]
  BY DEF Invalid
<1>3. links \in SUBSET (S \X S)
  BY DEF Links
<1>4. IsFiniteSet(S)
  BY DEF ReceiptsOK
<1>5. UNION Cycles(links) \subseteq S
  BY <1>4, CyclesStay
<1>6. links = {l \in S \X S : l[2].detail.supersedes = l[1].reference}
  BY DEF Links
<1> HIDE DEF links, gaps
<1>7. at \in SUBSET S
  <2>1. open \subseteq S /\ outside \subseteq open /\ cross \subseteq links /\ late \subseteq links /\ fork \subseteq links
    OBVIOUS
  <2> HIDE DEF open, outside, cross, late, fork
  <2>2. \A l \in links : {l[1], l[2]} \subseteq S
    BY <1>3
  <2>3. UNION {{l[1], l[2]} : l \in cross \cup late \cup fork} \subseteq S
    BY <2>1, <2>2
  <2>4. at = outside \cup (open \ outside) \cup (UNION Cycles(links))
               \cup UNION {{l[1], l[2]} : l \in cross \cup late \cup fork}
    BY <1>1
  <2> HIDE DEF at
  <2> QED BY <1>5, <2>1, <2>3, <2>4
<1>8. /\ \A r \in open : r \in at
      /\ \A l \in cross \cup late \cup fork : l[1] \in at /\ l[2] \in at
  BY <1>1
<1>9. (\A gap \in DOMAIN gaps : gaps[gap] = {}) => at = {}
  <2>1. {"outside_window", "missing_target", "cross_domain", "non_increasing_timestamp", "fork", "cycle"}
          \subseteq DOMAIN gaps
    BY <1>1
  <2> SUFFICES ASSUME \A gap \in DOMAIN gaps : gaps[gap] = {} PROVE at = {}
    OBVIOUS
  <2>2. /\ gaps.outside_window = {} /\ gaps.missing_target = {} /\ gaps.cross_domain = {}
        /\ gaps.non_increasing_timestamp = {} /\ gaps.fork = {} /\ gaps.cycle = {}
    BY <2>1
  <2> QED BY <2>2
<1> HIDE DEF at, invalid
<1>10. Cardinality(S) \in Nat
  BY <1>4, FS_CardinalityType
<1> DEFINE both == BothWays(links)
<1>11. both \in SUBSET (S \X S) /\ \A l \in links : l \in both /\ <<l[2], l[1]>> \in both
  BY <1>3 DEF BothWays
<1> HIDE DEF both
<1>12. /\ invalid \subseteq S
       /\ \A s \in both : s[1] \in invalid => s[2] \in invalid
  <2>1. invalid = Reach(at, both)[Cardinality(S)]
    BY <1>2 DEF both
  <2> QED BY <1>4, <1>7, <1>11, <2>1, ReachCloses
<1>13. at \subseteq invalid
  <2>1. Reach(at, both)[0] = at
    BY ReachStarts
  <2>2. Reach(at, both)[0] \subseteq Reach(at, both)[Cardinality(S)]
    BY <1>10, ReachGrows
  <2> QED BY <1>2, <2>1, <2>2 DEF both
<1>14. \A l \in links : l[1] \in invalid <=> l[2] \in invalid
  <2> TAKE l \in links
  <2>1. l \in both /\ <<l[2], l[1]>> \in both
    BY <1>11
  <2>2. l[1] \in invalid => l[2] \in invalid
    BY <1>12, <2>1
  <2>3. <<l[2], l[1]>>[1] \in invalid => <<l[2], l[1]>>[2] \in invalid
    BY <1>12, <2>1
  <2>4. l[2] \in invalid => l[1] \in invalid
    BY <2>3
  <2> QED BY <2>2, <2>4
<1>15. \A l : l \in Links(V) <=> l \in links /\ l[1] \in V /\ l[2] \in V
  BY <1>6 DEF Links
<1>16. \A l \in Links(V) : l \notin cross /\ l \notin late /\ l \notin fork
  BY <1>8, <1>13, <1>15
<1>17. Linear(V, Links(V))
  <2>1. IsFiniteSet(V) /\ Links(V) \in SUBSET (V \X V) /\ \A r \in V : r.at \in Nat
    <3>1. IsFiniteSet(V)
      BY <1>4, FS_Subset
    <3>2. Links(V) \in SUBSET (V \X V)
      BY DEF Links
    <3> QED BY <3>1, <3>2 DEF ReceiptsOK
  <2>2. \A l \in Links(V) : l[1].at < l[2].at
    <3> TAKE l \in Links(V)
    <3>1. ~(l[1].at >= l[2].at)
      BY <1>15, <1>16
    <3>2. l[1].at \in Nat /\ l[2].at \in Nat
      BY <2>1, <1>15
    <3> QED BY <3>1, <3>2
  <2>3. ASSUME NEW l \in Links(V), NEW m \in Links(V), l[1] = m[1] \/ l[2] = m[2] PROVE l = m
    <3>1. l \in links /\ m \in links /\ l \in S \X S /\ m \in S \X S
      BY <1>3, <1>15
    <3>2. l = <<l[1], l[2]>> /\ m = <<m[1], m[2]>> /\ l[1] \in S /\ m[1] \in S
      BY <3>1
    <3>3. CASE l[1] = m[1]
      <4>1. l[2] = m[2]
        BY <1>16, <3>1, <3>3
      <4> QED BY <3>2, <3>3, <4>1
    <3>4. CASE l[2] = m[2]
      <4>1. l[1].reference = m[1].reference
        BY <1>6, <3>1, <3>4
      <4>2. l[1] = m[1]
        BY <3>2, <4>1 DEF ReceiptsOK
      <4> QED BY <3>2, <3>4, <4>2
    <3> QED BY <2>3, <3>3, <3>4
  <2> QED BY <2>1, <2>2, <2>3 DEF Linear
<1>18. \A l \in Links(V) : l[1].detail.domain = l[2].detail.domain
  BY <1>15, <1>16
<1>19. ASSUME NEW r \in V, r.detail.supersedes # None PROVE ~IsRoot(r, Links(V))
  <2>1. r \notin open
    BY <1>8, <1>13
  <2>2. PICK l \in links : l[2] = r
    BY <1>19, <2>1
  <2>3. l[1] \in S
    BY <1>3
  <2>4. l[1] \in V
    BY <1>14, <2>2, <2>3
  <2>5. l \in Links(V)
    BY <1>15, <2>2, <2>4
  <2> QED BY <2>2, <2>5 DEF IsRoot
<1>20. ASSUME NEW v \in V, NEW r \in S, r.detail.supersedes = v.reference PROVE <<v, r>> \in Links(V)
  <2> DEFINE l == <<v, r>>
  <2>1. l[1] = v /\ l[2] = r /\ l \in S \X S
    OBVIOUS
  <2> HIDE DEF l
  <2>2. l \in links
    BY <1>6, <1>20, <2>1
  <2>3. r \in V
    BY <1>14, <2>1, <2>2
  <2>4. l \in Links(V)
    BY <1>15, <2>1, <2>2, <2>3
  <2> QED BY <2>4 DEF l
<1>21. at = {} => invalid = {}
  <2> SUFFICES ASSUME at = {} PROVE invalid = {}
    OBVIOUS
  <2>1. \A n \in Nat : Reach({}, both)[n] \subseteq {}
    BY ReachStaysIn
  <2> QED BY <1>2, <1>10, <2>1 DEF both
<1> QED BY <1>9, <1>12, <1>17, <1>18, <1>19, <1>20, <1>21 DEF gaps, invalid

\* What a document says of the receipts of its window.
LEMMA FollowUpIs ==
  ASSUME IndexOK, NEW found \in EffectivenessFound
  PROVE  \E S, C, records, known :
           /\ ReceiptsOK(S) /\ Priced(C) /\ OneEach(records, C) /\ OfReceipts(records, S)
           /\ found.selected = S /\ found.records = records
           /\ found.invalid = Invalid(S, Gaps(S, known))
           /\ found.chains = Chains(S, found.invalid)
           /\ found.funnel = Funnel(found.chains, found.invalid, Links(S), records)
           /\ \E coverage, config :
                found.reasons = Reasons(coverage, records, Gaps(S, known), found.chains, config)
<1>1. PICK config \in archive.asked.effectiveness : \E X, R : found = BarnowlEffectiveness(events, X, R, config)
  BY FoundIs
<1>2. PICK X, R : found = BarnowlEffectiveness(events, X, R, config)
  BY <1>1
<1> DEFINE S == ReceiptsIn(config)
           C == Selected(WindowOf(events, config))
           records == EffectiveRecords(events, X, R, config)
           known == Receipts(EventsBefore(config))
           coverage == JoinCoverage(S, records, EventsBefore(config))
           document == BarnowlEffectiveness(events, X, R, config)
<1>3. ReceiptsOK(S) /\ Priced(C) /\ OneEach(records, C) /\ OfReceipts(records, S)
  BY ReceiptsAre, EffectiveAre
<1>4. /\ document.selected = S /\ document.records = records
      /\ document.invalid = Invalid(S, Gaps(S, known))
      /\ document.chains = Chains(S, Invalid(S, Gaps(S, known)))
      /\ document.funnel = Funnel(Chains(S, Invalid(S, Gaps(S, known))), Invalid(S, Gaps(S, known)),
                                  Links(S), records)
      /\ document.reasons = Reasons(coverage, records, Gaps(S, known),
                                    Chains(S, Invalid(S, Gaps(S, known))), config)
  BY DocumentIs
<1>5. found = document
  BY <1>2
<1> HIDE DEF S, C, records, known, coverage, document
<1> QED BY <1>3, <1>4, <1>5

\* Chains go forward in time from a first receipt, are of one domain each, and
\* divide the receipts that no gap leaves invalid.
LEMMA ChainsFollow ==
  ASSUME NEW S, ReceiptsOK(S), NEW known
  PROVE  LET invalid == Invalid(S, Gaps(S, known))
             chains == Chains(S, invalid)
         IN  /\ IsFiniteSet(chains) /\ invalid \subseteq S
             /\ UNION {Range(c) : c \in chains} = S \ invalid
             /\ \A c, d \in chains : c # d => Range(c) \cap Range(d) = {}
             /\ \A c \in chains :
                  /\ Len(c) \in Nat \ {0} /\ DOMAIN c = 1..Len(c) /\ Range(c) \in SUBSET S
                  /\ \A i \in 2..Len(c) : c[i].detail.supersedes = c[i - 1].reference
                  /\ \A i \in 1..Len(c) : c[i].detail.domain = c[1].detail.domain
                  /\ \A i, j \in 1..Len(c) : i < j => c[i].at < c[j].at
                  /\ c[1].detail.supersedes = None
                  /\ \A r \in S \ Range(c), i \in 1..Len(c) : r.detail.supersedes # c[i].reference
<1> DEFINE gaps == Gaps(S, known)
           invalid == Invalid(S, gaps)
           V == S \ invalid
           links == Links(V)
           chains == WalksOf(V, links)
<1>1. /\ invalid \subseteq S /\ Linear(V, links)
      /\ \A l \in links : l[1].detail.domain = l[2].detail.domain
      /\ \A r \in V : r.detail.supersedes # None => ~IsRoot(r, links)
      /\ \A v \in V, r \in S : r.detail.supersedes = v.reference => <<v, r>> \in links
  BY ValidIsLinear
<1>2. Chains(S, invalid) = chains
  BY ChainsAre DEF WalksOf
<1>3. \A l \in links : l[2].detail.supersedes = l[1].reference
  BY DEF Links
<1> HIDE DEF invalid, links, chains
<1>4. /\ IsFiniteSet(chains)
      /\ \A c \in chains : IsChain(c, V, links) /\ Range(c) \in SUBSET V
      /\ \A c, d \in chains : c # d => Range(c) \cap Range(d) = {}
      /\ \A r \in V : \E c \in chains : r \in Range(c)
  <2> HIDE DEF V
  <2> QED BY <1>1, WalksDivide DEF chains
<1>5. UNION {Range(c) : c \in chains} = V
  BY <1>4
<1>6. ASSUME NEW c \in chains
      PROVE  /\ Len(c) \in Nat \ {0} /\ DOMAIN c = 1..Len(c)
             /\ \A i \in 2..Len(c) : c[i].detail.supersedes = c[i - 1].reference
             /\ \A i \in 1..Len(c) : c[i].detail.domain = c[1].detail.domain
             /\ \A i, j \in 1..Len(c) : i < j => c[i].at < c[j].at
             /\ c[1].detail.supersedes = None
             /\ \A r \in S \ Range(c), i \in 1..Len(c) : r.detail.supersedes # c[i].reference
  <2>1. /\ c \in Seq(V) /\ Len(c) >= 1 /\ IsPath(c, V, links)
        /\ \A i \in 2..Len(c) : <<c[i - 1], c[i]>> \in links
        /\ IsRoot(c[1], links) /\ ~\E l \in links : l[1] = c[Len(c)]
    BY <1>4 DEF IsChain, IsPath
  <2>2. Len(c) \in Nat \ {0} /\ DOMAIN c = 1..Len(c) /\ \A i \in 1..Len(c) : c[i] \in V
    BY <2>1
  <2>3. ASSUME NEW i \in 2..Len(c)
        PROVE  /\ c[i].detail.supersedes = c[i - 1].reference
               /\ c[i - 1].detail.domain = c[i].detail.domain
    <3> DEFINE l == <<c[i - 1], c[i]>>
    <3>1. l \in links /\ l[1] = c[i - 1] /\ l[2] = c[i]
      BY <2>1
    <3> HIDE DEF l
    <3> QED BY <1>1, <1>3, <3>1
  <2>4. \A i \in 1..Len(c) : c[i].detail.domain = c[1].detail.domain
    <3> DEFINE P == {n \in Nat : n \in 1..Len(c) => c[n].detail.domain = c[1].detail.domain}
    <3>1. 0 \in P
      OBVIOUS
    <3>2. ASSUME NEW n \in Nat, n \in P PROVE n + 1 \in P
      <4> SUFFICES ASSUME n + 1 \in 1..Len(c), n # 0
                   PROVE  c[n + 1].detail.domain = c[1].detail.domain
        OBVIOUS
      <4>1. n \in 1..Len(c) /\ n + 1 \in 2..Len(c) /\ (n + 1) - 1 = n
        BY <2>2
      <4>2. c[n].detail.domain = c[n + 1].detail.domain
        BY <2>3, <4>1
      <4> QED BY <3>2, <4>1, <4>2
    <3> HIDE DEF P
    <3>3. Nat \subseteq P
      BY <3>1, <3>2, Induction
    <3>4. \A i \in 1..Len(c) : i \in P
      BY <2>2, <3>3
    <3> QED BY <3>4 DEF P
  <2>5. \A i, j \in 1..Len(c) : i < j => c[i].at < c[j].at
    BY <1>1, <2>1, PathsAreShort
  <2>6. c[1].detail.supersedes = None
    BY <1>1, <2>1, <2>2
  <2>7. ASSUME NEW r \in S \ Range(c), NEW i \in 1..Len(c), r.detail.supersedes = c[i].reference PROVE FALSE
    <3> DEFINE l == <<c[i], r>>
    <3>1. l \in links /\ l[1] = c[i] /\ l[2] = r
      BY <1>1, <2>2, <2>7
    <3> HIDE DEF l
    <3>2. i # Len(c)
      BY <2>1, <3>1
    <3>3. i + 1 \in 2..Len(c) /\ (i + 1) - 1 = i /\ i + 1 \in 1..Len(c)
      <4>1. Len(c) \in Nat
        BY <2>2
      <4> QED BY <3>2, <4>1
    <3> DEFINE m == <<c[i], c[i + 1]>>
    <3>4. m \in links /\ m[1] = c[i] /\ m[2] = c[i + 1]
      BY <2>1, <3>3
    <3> HIDE DEF m
    <3>5. l = m
      BY <1>1, <3>1, <3>4 DEF Linear
    <3>6. r = c[i + 1]
      BY <3>1, <3>4, <3>5
    <3> QED BY <2>2, <2>7, <3>3, <3>6 DEF Range
  <2> QED BY <2>2, <2>3, <2>4, <2>5, <2>6, <2>7
<1>7. \A c \in chains : Range(c) \in SUBSET S
  BY <1>4
<1> QED BY <1>1, <1>2, <1>4, <1>5, <1>6, <1>7 DEF invalid

\* What is attributed is in the cost of one chain, or excluded.
LEMMA ChainsCost ==
  ASSUME NEW S, ReceiptsOK(S), NEW C, Priced(C), NEW records, OneEach(records, C), OfReceipts(records, S),
         NEW known
  PROVE  LET invalid == Invalid(S, Gaps(S, known))
             funnel == Funnel(Chains(S, invalid), invalid, Links(S), records)
         IN  funnel.all.cost + funnel.excluded.cost = TotalOf(records, "attributed")
<1> DEFINE invalid == Invalid(S, Gaps(S, known))
           chains == Chains(S, invalid)
           funnel == Funnel(chains, invalid, Links(S), records)
           V == S \ invalid
           part == [c \in chains |-> Range(c)]
           cost == [c \in chains |-> CostOf(Range(c), records)]
<1>1. funnel.all.cost = SumFunction(cost) /\ funnel.excluded.cost = CostOf(invalid, records)
  BY DEF Funnel
<1>2. /\ IsFiniteSet(chains) /\ invalid \subseteq S
      /\ UNION {Range(c) : c \in chains} = V
      /\ \A c, d \in chains : c # d => Range(c) \cap Range(d) = {}
      /\ \A c \in chains : Range(c) \in SUBSET S
  BY ChainsFollow
<1> HIDE DEF invalid, chains, funnel
<1>3. SumFunction(cost) = SumOver(cost, chains)
  <2>1. [c \in chains |-> cost[c]] = cost
    OBVIOUS
  <2> HIDE DEF cost
  <2> QED BY <2>1 DEF SumOver
<1>4. Whole(part, chains) = V
  <2>1. \A r : r \in Whole(part, chains) <=> \E c \in chains : r \in Range(c)
    BY DEF Whole
  <2> HIDE DEF part, V
  <2> QED BY <1>2, <2>1
<1>5. /\ \A c \in chains : part[c] \in SUBSET S /\ cost[c] = CostOf(part[c], records)
      /\ \A c, d \in chains : c # d => part[c] \cap part[d] = {}
  BY <1>2
<1> HIDE DEF part, cost
<1>6. SumOver(cost, chains) = CostOf(V, records)
  <2>1. SumOver(cost, chains) = CostOf(Whole(part, chains), records)
    BY <1>2, <1>5, CostsAddUp
  <2> QED BY <1>4, <2>1
<1>7. /\ CostsFor(V, records) \in SUBSET C /\ CostsFor(invalid, records) \in SUBSET C
      /\ CostsFor(V, records) \cap CostsFor(invalid, records) = {}
      /\ CostsFor(S, records) = CostsIn(records, "attributed")
  BY <1>2, CostsAreApart
<1>8. CostsFor(V, records) \cup CostsFor(invalid, records) = CostsFor(S, records)
  <2>1. RecordsFor(V, records) \cup RecordsFor(invalid, records) = RecordsFor(S, records)
    <3>1. V \cup invalid = S
      BY <1>2
    <3> HIDE DEF V
    <3> QED BY <3>1 DEF RecordsFor
  <2> QED BY <2>1 DEF CostsFor
<1>9. Amount(CostsFor(S, records)) = Amount(CostsFor(V, records)) + Amount(CostsFor(invalid, records))
  <2> HIDE DEF V
  <2> QED BY <1>7, <1>8, AmountsAdd
<1>10. \A T : CostOf(T, records) = Amount(CostsFor(T, records))
  BY DEF CostOf, CostsFor
<1>11. TotalOf(records, "attributed") = Amount(CostsIn(records, "attributed"))
  BY DEF TotalOf, CostsIn
<1>12. funnel.all.cost + funnel.excluded.cost = TotalOf(records, "attributed")
  BY <1>1, <1>3, <1>6, <1>7, <1>9, <1>10, <1>11
<1> QED BY <1>12 DEF funnel, chains, invalid

\* Chains are whole (ChainsAreWhole), whatever follows on what in the index.
THEOREM ChainsDivide == LiveSpec => []ChainsAreWhole
<1>1. ASSUME IndexOK, NEW found \in EffectivenessFound
      PROVE  LET members == UNION {Range(c) : c \in found.chains}
             IN  /\ members = found.selected \ found.invalid
                 /\ \A c, d \in found.chains : c # d => Range(c) \cap Range(d) = {}
                 /\ \A c \in found.chains :
                      /\ \A i \in 2..Len(c) : /\ c[i].detail.supersedes = c[i - 1].reference
                                              /\ c[i].detail.domain = c[1].detail.domain
                                              /\ c[i - 1].at < c[i].at
                      /\ c[1].detail.supersedes = None
                      /\ \A r \in found.selected \ Range(c), i \in DOMAIN c :
                           r.detail.supersedes # c[i].reference
                 /\ found.funnel.all.cost + found.funnel.excluded.cost
                      = TotalOf(found.records, "attributed")
  <2>1. PICK S, C, records, known :
           /\ ReceiptsOK(S) /\ Priced(C) /\ OneEach(records, C) /\ OfReceipts(records, S)
           /\ found.selected = S /\ found.records = records
           /\ found.invalid = Invalid(S, Gaps(S, known))
           /\ found.chains = Chains(S, found.invalid)
           /\ found.funnel = Funnel(found.chains, found.invalid, Links(S), records)
    BY <1>1, FollowUpIs
  <2>2. /\ UNION {Range(c) : c \in found.chains} = S \ found.invalid
        /\ \A c, d \in found.chains : c # d => Range(c) \cap Range(d) = {}
        /\ \A c \in found.chains :
             /\ Len(c) \in Nat \ {0} /\ DOMAIN c = 1..Len(c)
             /\ \A i \in 2..Len(c) : c[i].detail.supersedes = c[i - 1].reference
             /\ \A i \in 1..Len(c) : c[i].detail.domain = c[1].detail.domain
             /\ \A i, j \in 1..Len(c) : i < j => c[i].at < c[j].at
             /\ c[1].detail.supersedes = None
             /\ \A r \in S \ Range(c), i \in 1..Len(c) : r.detail.supersedes # c[i].reference
    BY <2>1, ChainsFollow
  <2>3. found.funnel.all.cost + found.funnel.excluded.cost = TotalOf(records, "attributed")
    BY <2>1, ChainsCost
  <2>4. \A c \in found.chains : \A i \in 2..Len(c) : /\ c[i].detail.supersedes = c[i - 1].reference
                                                     /\ c[i].detail.domain = c[1].detail.domain
                                                     /\ c[i - 1].at < c[i].at
    <3> TAKE c \in found.chains
    <3> TAKE i \in 2..Len(c)
    <3>1. Len(c) \in Nat
      BY <2>2
    <3>2. i \in 1..Len(c) /\ i - 1 \in 1..Len(c) /\ i - 1 < i
      BY <3>1
    <3> QED BY <2>2, <3>2
  <2> QED BY <2>1, <2>2, <2>3, <2>4
<1>2. IndexOK => ChainsAreWhole
  BY <1>1 DEF ChainsAreWhole
<1> QED BY <1>2, IndexHolds, PTL

\* What is not the case if there is no reason to claim nothing.
LEMMA ReasonsAre ==
  ASSUME NEW coverage, NEW records, NEW gaps, NEW chains, NEW config,
         Reasons(coverage, records, gaps, chains, config) = {}
  PROVE  /\ ~\E r \in records : r.state = "ambiguous"
         /\ \A gap \in DOMAIN gaps : gaps[gap] = {}
         /\ \E c \in chains : ContainsAdmitted(c)
         /\ \A c \in chains : TerminalBucket(c) # "unmapped"
         /\ \A c \in chains : ContainsAdmitted(c) => TerminalBucket(c) # "ADMITTED"
BY DEF Reasons

\* Something is claimed only of a window where nothing is open
\* (ClaimsAreBacked), whatever follows on what in the index.
THEOREM ClaimsHold == LiveSpec => []ClaimsAreBacked
<1>1. ASSUME IndexOK, NEW found \in EffectivenessFound, found.reasons = {}
      PROVE  /\ \E r \in found.selected : Bucket(r) = "ADMITTED"
             /\ \A r \in found.selected :
                  /\ Bucket(r) = "ADMITTED" =>
                       \E s \in found.selected : /\ s.detail.domain = r.detail.domain /\ s.at > r.at
                                                 /\ Bucket(s) \notin {"ADMITTED", "unmapped"}
                  /\ r.detail.supersedes # None =>
                       \E s \in found.selected : s.reference = r.detail.supersedes
             /\ TotalOf(found.records, "ambiguous") = 0
  <2>1. PICK S, C, records, known :
           /\ ReceiptsOK(S) /\ found.selected = S /\ found.records = records
           /\ found.invalid = Invalid(S, Gaps(S, known))
           /\ found.chains = Chains(S, found.invalid)
           /\ \E coverage, config :
                found.reasons = Reasons(coverage, records, Gaps(S, known), found.chains, config)
    BY <1>1, FollowUpIs
  <2> DEFINE chains == found.chains
             gaps == Gaps(S, known)
  <2>2. /\ ~\E r \in records : r.state = "ambiguous"
        /\ \A gap \in DOMAIN gaps : gaps[gap] = {}
        /\ \E c \in chains : ContainsAdmitted(c)
        /\ \A c \in chains : TerminalBucket(c) # "unmapped"
        /\ \A c \in chains : ContainsAdmitted(c) => TerminalBucket(c) # "ADMITTED"
    BY <1>1, <2>1, ReasonsAre
  <2>3. found.invalid = {}
    BY <2>1, <2>2, ValidIsLinear
  <2>4. /\ UNION {Range(c) : c \in chains} = S
        /\ \A c \in chains :
             /\ Len(c) \in Nat \ {0} /\ DOMAIN c = 1..Len(c) /\ Range(c) \in SUBSET S
             /\ \A i \in 2..Len(c) : c[i].detail.supersedes = c[i - 1].reference
             /\ \A i \in 1..Len(c) : c[i].detail.domain = c[1].detail.domain
             /\ \A i, j \in 1..Len(c) : i < j => c[i].at < c[j].at
             /\ c[1].detail.supersedes = None
    <3>1. UNION {Range(c) : c \in chains} = S \ found.invalid
      BY <2>1, ChainsFollow
    <3>2. S \ found.invalid = S
      BY <2>3
    <3> QED BY <2>1, <3>1, <3>2, ChainsFollow
  <2> HIDE DEF chains, gaps
  <2>5. \A c \in chains : \A i \in 1..Len(c) : c[i] \in S
    BY <2>4 DEF Range
  <2>6. \E r \in S : Bucket(r) = "ADMITTED"
    BY <2>2, <2>4, <2>5 DEF ContainsAdmitted
  <2>7. \A r \in S : \E c \in chains : \E i \in 1..Len(c) : c[i] = r
    <3> TAKE r \in S
    <3>1. PICK c \in chains : r \in Range(c)
      BY <2>4
    <3> QED BY <2>4, <3>1 DEF Range
  <2>8. ASSUME NEW r \in S, Bucket(r) = "ADMITTED"
        PROVE  \E s \in S : /\ s.detail.domain = r.detail.domain /\ s.at > r.at
                            /\ Bucket(s) \notin {"ADMITTED", "unmapped"}
    <3>1. PICK c \in chains : \E i \in 1..Len(c) : c[i] = r
      BY <2>7
    <3>2. PICK i \in 1..Len(c) : c[i] = r
      BY <3>1
    <3>3. ContainsAdmitted(c)
      BY <2>4, <2>8, <3>2 DEF ContainsAdmitted
    <3> DEFINE n == Len(c)
    <3>4. Bucket(c[n]) \notin {"ADMITTED", "unmapped"}
      BY <2>2, <3>3 DEF TerminalBucket, Last
    <3>5. n \in Nat \ {0} /\ n \in 1..n
      BY <2>4
    <3>6. i < n
      BY <2>8, <3>2, <3>4, <3>5
    <3>7. c[i].at < c[n].at
      BY <2>4, <3>5, <3>6
    <3>8. c[n].detail.domain = c[i].detail.domain
      BY <2>4, <3>5
    <3>9. c[n] \in S /\ c[n].at \in Nat /\ r.at \in Nat
      BY <2>1, <2>5, <3>5 DEF ReceiptsOK
    <3> QED BY <3>2, <3>4, <3>7, <3>8, <3>9
  <2>9. ASSUME NEW r \in S, r.detail.supersedes # None
        PROVE  \E s \in S : s.reference = r.detail.supersedes
    <3>1. PICK c \in chains : \E i \in 1..Len(c) : c[i] = r
      BY <2>7
    <3>2. PICK i \in 1..Len(c) : c[i] = r
      BY <3>1
    <3>3. i # 1
      BY <2>4, <2>9, <3>2
    <3>4. Len(c) \in Nat
      BY <2>4
    <3>5. i \in 2..Len(c) /\ i - 1 \in 1..Len(c)
      BY <3>3, <3>4
    <3> QED BY <2>4, <2>5, <3>2, <3>5
  <2>10. TotalOf(records, "ambiguous") = 0
    <3>1. CostsIn(records, "ambiguous") = {}
      BY <2>2 DEF CostsIn
    <3> QED BY <3>1, AmountOfNothing DEF TotalOf, CostsIn
  <2> QED BY <2>1, <2>6, <2>8, <2>9, <2>10
<1>2. IndexOK => ClaimsAreBacked
  BY <1>1 DEF ClaimsAreBacked
<1> QED BY <1>2, IndexHolds, PTL
-----------------------------------------------------------------------------
(* Motifs.                                                                 *)

\* The events of the window that a session has, its own included.
SessionFamily(config, root) ==
  {root} \cup {e \in MotifWindow(events, config) : e.kind # "session" /\ e.session = root.id}

FailuresIn(config, root) == {e \in SessionFamily(config, root) : e.kind = "tool_call" /\ e.status = "failed"}
OutcomesIn(config, root) == {e \in SessionFamily(config, root) : e.kind = "outcome"}
ToolsIn(config, root) == {e \in SessionFamily(config, root) : e.kind = "tool_call"}
ChangesIn(config, root) == {e \in SessionFamily(config, root) : "scopeChanges" \in DOMAIN e}

LEMMA FacetsAre ==
  ASSUME NEW config, NEW facet \in Facets(events, config)
  PROVE  \E root \in MotifWindow(events, config) :
           /\ root.kind = "session" /\ facet.session = root.id
           /\ facet = Facet(root, SessionFamily(config, root))
<1> DEFINE of(root) == SessionFamily(config, root)
<1>1. PICK root \in MotifWindow(events, config) : root.kind = "session" /\ facet = Facet(root, of(root))
  BY DEF Facets, SessionFamily
<1> HIDE DEF of
<1>2. facet.session = root.id
  BY <1>1 DEF Facet
<1> QED BY <1>1, <1>2 DEF of

LEMMA FacetIs ==
  ASSUME NEW config, NEW root
  PROVE  LET facet == Facet(root, SessionFamily(config, root))
             failed == FailuresIn(config, root)
             outcomes == OutcomesIn(config, root)
         IN  /\ facet.session = root.id
             /\ facet.events = {e.id : e \in SessionFamily(config, root)}
             /\ facet.receipts = {e.id : e \in outcomes \cup failed}
             /\ facet.repeatedFailed = Repeated(failed, [e \in failed |-> e.tool])
             /\ facet.repeatedAction = Repeated(failed, [e \in failed |-> e.action])
             /\ facet.outcomes = {e.status : e \in outcomes}
             /\ facet.errors = {e.error : e \in ToolsIn(config, root)} \ {None}
             /\ facet.scopeChanges = SumFunction([e \in ChangesIn(config, root) |-> e.scopeChanges])
<1> DEFINE family == SessionFamily(config, root)
<1>1. /\ FailuresIn(config, root) = {e \in {e \in family : e.kind = "tool_call"} : e.status = "failed"}
      /\ OutcomesIn(config, root) = {e \in family : e.kind = "outcome"}
      /\ ToolsIn(config, root) = {e \in family : e.kind = "tool_call"}
      /\ ChangesIn(config, root) = {e \in family : "scopeChanges" \in DOMAIN e}
  BY DEF FailuresIn, OutcomesIn, ToolsIn, ChangesIn
<1> HIDE DEF family
<1>2. LET facet == Facet(root, family)
          failed == {e \in {e \in family : e.kind = "tool_call"} : e.status = "failed"}
          outcomes == {e \in family : e.kind = "outcome"}
      IN  /\ facet.session = root.id
          /\ facet.events = {e.id : e \in family}
          /\ facet.receipts = {e.id : e \in outcomes \cup failed}
          /\ facet.repeatedFailed = Repeated(failed, [e \in failed |-> e.tool])
          /\ facet.repeatedAction = Repeated(failed, [e \in failed |-> e.action])
          /\ facet.outcomes = {e.status : e \in outcomes}
          /\ facet.errors = {e.error : e \in {e \in family : e.kind = "tool_call"}} \ {None}
          /\ facet.scopeChanges
               = SumFunction([e \in {e \in family : "scopeChanges" \in DOMAIN e} |-> e.scopeChanges])
  BY DEF Facet
<1> QED BY <1>1, <1>2 DEF family

LEMMA RepeatedTwice ==
  ASSUME NEW found, NEW value, Repeated(found, value) # {}
  PROVE  \E e, f \in found : e # f /\ value[e] # None /\ value[e] = value[f]
BY DEF Repeated

\* Sessions that fail in the way of a motif, by what they did in the window.
Fails(config, root, motif) ==
  CASE motif = "retry-storm" ->
         \E e, f \in FailuresIn(config, root) : e # f /\ e.action # None /\ e.action = f.action
    [] motif = "permission-loop" ->
         /\ \E e, f \in FailuresIn(config, root) : e # f /\ e.tool # None /\ e.tool = f.tool
         /\ \E e \in ToolsIn(config, root) : e.error = "permission"
    [] OTHER -> /\ \E e \in OutcomesIn(config, root) : e.status \in Terminal
                /\ ChangesIn(config, root) # {}

\* What supports a motif failed in its way, and is a receipt of that itself.
LEMMA SupportsAre ==
  ASSUME NEW config, NEW root, NEW motif \in {"retry-storm", "permission-loop", "context-drift"},
         FacetSupports(motif, Facet(root, SessionFamily(config, root)))
  PROVE  /\ Fails(config, root, motif)
         /\ Facet(root, SessionFamily(config, root)).receipts # {}
<1> DEFINE facet == Facet(root, SessionFamily(config, root))
           failed == FailuresIn(config, root)
           outcomes == OutcomesIn(config, root)
           tools == ToolsIn(config, root)
           changes == ChangesIn(config, root)
<1>1. /\ facet.receipts = {e.id : e \in outcomes \cup failed}
      /\ facet.repeatedFailed = Repeated(failed, [e \in failed |-> e.tool])
      /\ facet.repeatedAction = Repeated(failed, [e \in failed |-> e.action])
      /\ facet.outcomes = {e.status : e \in outcomes}
      /\ facet.errors = {e.error : e \in tools} \ {None}
      /\ facet.scopeChanges = SumFunction([e \in changes |-> e.scopeChanges])
  BY FacetIs
<1> HIDE DEF facet, failed, outcomes, tools, changes
<1>2. CASE motif = "retry-storm"
  <2>1. Repeated(failed, [e \in failed |-> e.action]) # {}
    BY <1>1, <1>2 DEF FacetSupports, facet
  <2>2. \E e, f \in failed : e # f /\ e.action # None /\ e.action = f.action
    <3> DEFINE value == [e \in failed |-> e.action]
    <3>1. \A e \in failed : value[e] = e.action
      OBVIOUS
    <3>2. Repeated(failed, value) # {}
      BY <2>1
    <3> HIDE DEF value
    <3>3. \E e, f \in failed : e # f /\ value[e] # None /\ value[e] = value[f]
      BY <3>2, RepeatedTwice
    <3> QED BY <3>1, <3>3
  <2> QED BY <1>1, <1>2, <2>2 DEF Fails, failed, facet
<1>3. CASE motif = "permission-loop"
  <2>1. Repeated(failed, [e \in failed |-> e.tool]) # {}
    BY <1>1, <1>3 DEF FacetSupports, facet
  <2>2. \E e, f \in failed : e # f /\ e.tool # None /\ e.tool = f.tool
    <3> DEFINE value == [e \in failed |-> e.tool]
    <3>1. \A e \in failed : value[e] = e.tool
      OBVIOUS
    <3>2. Repeated(failed, value) # {}
      BY <2>1
    <3> HIDE DEF value
    <3>3. \E e, f \in failed : e # f /\ value[e] # None /\ value[e] = value[f]
      BY <3>2, RepeatedTwice
    <3> QED BY <3>1, <3>3
  <2>3. "permission" \in {e.error : e \in tools}
    BY <1>1, <1>3 DEF FacetSupports, facet
  <2>4. \E e \in tools : e.error = "permission"
    BY <2>3
  <2> QED BY <1>1, <1>3, <2>2, <2>4 DEF Fails, failed, tools, facet
<1>4. CASE motif = "context-drift"
  <2>1. {e.status : e \in outcomes} \cap Terminal # {}
    BY <1>1, <1>4 DEF FacetSupports, facet
  <2>2. \E e \in outcomes : e.status \in Terminal
    BY <2>1
  <2>3. SumFunction([e \in changes |-> e.scopeChanges]) > 0
    BY <1>1, <1>4 DEF FacetSupports, facet
  <2>4. changes # {}
    <3> SUFFICES ASSUME changes = {} PROVE FALSE
      OBVIOUS
    <3>1. [e \in changes |-> e.scopeChanges] = [x \in {} |-> [y \in {} |-> 0][x]]
      OBVIOUS
    <3>2. SumOver([y \in {} |-> 0], {}) = 0
      BY SumTake, FS_EmptySet
    <3> QED BY <2>3, <3>1, <3>2 DEF SumOver
  <2> QED BY <1>1, <1>4, <2>2, <2>4 DEF Fails, outcomes, changes, facet
<1> QED BY <1>2, <1>3, <1>4

\* The facets of the sessions of a proposal, and what is evidence in facets.
FacetsFor(proposal, facets) == {f \in facets : f.session \in proposal.sessions}
SessionsOf(facets) == {f.session : f \in facets}
CitedBy(facets, external) == UNION {f.events \cup (f.receipts \cup external[f.session]) : f \in facets}

\* A proposal is eligible only of sessions that the scan found and that all
\* support it, and so many as the floors ask for.
LEMMA EligibleIs ==
  ASSUME NEW proposal, NEW facets, NEW external, NEW config, NEW decision
  PROVE  LET a == AssessMotif(proposal, facets, external, config, decision)
             selected == FacetsFor(proposal, facets)
         IN  /\ a.motif = proposal.motif /\ a.sessions = proposal.sessions
             /\ a.evidence = CitedBy(selected, external)
             /\ a.state = "eligible" =>
                  /\ proposal.sessions \subseteq SessionsOf(facets)
                  /\ \A f \in selected : FacetSupports(proposal.motif, f)
                  /\ Cardinality(selected) >= config.recurrence
                  /\ Cardinality(selected) >= config.aggregation
<1> DEFINE selected == {f \in facets : f.session \in proposal.sessions}
           receipts(f) == f.receipts \cup external[f.session]
           received == {f \in selected : receipts(f) # {}}
           known == proposal.sessions \subseteq {f.session : f \in facets}
           supported == \A f \in selected : FacetSupports(proposal.motif, f)
           recurs == Cardinality(selected) >= config.recurrence
           grouped == Cardinality(selected) >= config.aggregation
           floors ==
             << <<known, "unknown-session">>, <<supported, "facet-unsupported">>,
                <<recurs, "insufficient-recurrence">>,
                <<Cardinality(received) >= config.receipts, "insufficient-receipts">>,
                <<grouped, "private-small-group">>, <<decision # "offline", "evaluation-offline">> >>
           missed == {i \in DOMAIN floors : ~floors[i][1]}
           evidence == UNION {f.events \cup receipts(f) : f \in selected}
           assessed(state, reason) ==
             [motif |-> proposal.motif, state |-> state, reason |-> reason,
              sessions |-> proposal.sessions, received |-> Cardinality(received), evidence |-> evidence]
           a == AssessMotif(proposal, facets, external, config, decision)
<1>1. a = IF missed = {} THEN assessed("eligible", "evidence-floors-met")
          ELSE assessed("abstain", floors[Min(missed)][2])
  BY DEF AssessMotif
<1>2. missed = {} => known /\ supported /\ recurs /\ grouped
  <2> HIDE DEF known, supported, recurs, grouped
  <2>1. /\ {1, 2, 3, 5} \subseteq DOMAIN floors
        /\ floors[1][1] = known /\ floors[2][1] = supported
        /\ floors[3][1] = recurs /\ floors[5][1] = grouped
    OBVIOUS
  <2> HIDE DEF floors
  <2> QED BY <2>1
<1>3. /\ evidence = CitedBy(selected, external) /\ selected = FacetsFor(proposal, facets)
      /\ known <=> proposal.sessions \subseteq SessionsOf(facets)
  BY DEF CitedBy, FacetsFor, SessionsOf
<1> HIDE DEF missed, floors, evidence, received
<1>4. /\ a.motif = proposal.motif /\ a.sessions = proposal.sessions /\ a.evidence = evidence
      /\ a.state = "eligible" => missed = {}
  BY <1>1
<1> HIDE DEF a, known, selected
<1> QED BY <1>2, <1>3, <1>4 DEF a

\* A session has one facet, and there are no more facets than events.
LEMMA FacetsAreOneEach ==
  ASSUME IndexOK, NEW config
  PROVE  /\ IsFiniteSet(Facets(events, config))
         /\ \A f, g \in Facets(events, config) : f.session = g.session => f = g
<1> DEFINE facets == Facets(events, config)
           W == MotifWindow(events, config)
           of(root) == Facet(root, SessionFamily(config, root))
           all == [root \in W |-> of(root)]
<1>1. \A f \in facets : \E root \in W : f.session = root.id /\ f = of(root)
  BY FacetsAre
<1>2. \A e, f \in W : e.id = f.id => e = f
  BY DEF IndexOK, Consistent, MotifWindow
<1>3. IsFiniteSet(W)
  BY IndexFinite, FS_Subset DEF MotifWindow
<1> HIDE DEF facets, W, of
<1>4. \A f, g \in facets : f.session = g.session => f = g
  BY <1>1, <1>2
<1>5. IsFiniteSet(facets)
  <2> DEFINE made == {all[root] : root \in W}
  <2>1. all \in Surjection(W, made)
    BY DEF Surjection
  <2>2. facets \subseteq made
    BY <1>1
  <2> HIDE DEF made, all
  <2> QED BY <1>3, <2>1, <2>2, FS_Surjection, FS_Subset
<1> QED BY <1>4, <1>5 DEF facets

FacetOf(facets, s) == CHOOSE f \in facets : f.session = s
External(config, X, R) ==
  [s \in {f.session : f \in Facets(events, config)} |->
     CorroboratingReceipts(FacetOf(Facets(events, config), s), config, events, X, R)]

LEMMA ProjectionIs ==
  ASSUME NEW synthesis, NEW evaluation, NEW config, NEW X, NEW R,
         MotifProjection(synthesis, evaluation, config, events, X, R) # None,
         NEW a \in MotifProjection(synthesis, evaluation, config, events, X, R)
  PROVE  \E p \in synthesis.proposals : \E decision :
           a = AssessMotif(p, Facets(events, config), External(config, X, R), config, decision)
BY DEF MotifProjection, External, FacetOf

\* Work elsewhere corroborates only sessions without receipts of their own.
LEMMA ExternalIs ==
  ASSUME IndexOK, NEW config, NEW X, NEW R, NEW f \in Facets(events, config), f.receipts # {}
  PROVE  External(config, X, R)[f.session] = {}
<1> DEFINE facets == Facets(events, config)
           g == FacetOf(facets, f.session)
<1>1. External(config, X, R)[f.session] = CorroboratingReceipts(g, config, events, X, R)
  BY DEF External
<1>2. g \in facets /\ g.session = f.session
  BY DEF FacetOf
<1>3. g = f
  BY <1>2, FacetsAreOneEach
<1> HIDE DEF g
<1> QED BY <1>1, <1>3 DEF CorroboratingReceipts

\* What is eligible is borne out by the window.
LEMMA EligibleFails ==
  ASSUME IndexOK, NEW config, MotifConfigOK(config), NEW X, NEW R, NEW decision, NEW p,
         p.motif \in {"retry-storm", "permission-loop", "context-drift"},
         NEW a, a = AssessMotif(p, Facets(events, config), External(config, X, R), config, decision),
         a.state = "eligible"
  PROVE  LET W == MotifWindow(events, config)
         IN  /\ Cardinality(a.sessions) >= config.recurrence
             /\ Cardinality(a.sessions) >= config.aggregation
             /\ \A s \in a.sessions : \E root \in W : /\ root.kind = "session" /\ root.id = s
                                                      /\ Fails(config, root, a.motif)
             /\ a.evidence \subseteq {e.id : e \in {e \in W : {e.id, e.session} \cap a.sessions # {}}}
<1> DEFINE W == MotifWindow(events, config)
           facets == Facets(events, config)
           external == External(config, X, R)
           selected == FacetsFor(p, facets)
           session == [f \in selected |-> f.session]
<1>1. /\ a.motif = p.motif /\ a.sessions = p.sessions
      /\ a.evidence = UNION {f.events \cup (f.receipts \cup external[f.session]) : f \in selected}
      /\ p.sessions \subseteq {f.session : f \in facets}
      /\ \A f \in selected : FacetSupports(p.motif, f)
      /\ Cardinality(selected) >= config.recurrence
      /\ Cardinality(selected) >= config.aggregation
  <2> DEFINE b == AssessMotif(p, facets, external, config, decision)
  <2>1. a = b
    OBVIOUS
  <2> HIDE DEF facets, external
  <2>2. /\ b.motif = p.motif /\ b.sessions = p.sessions
        /\ b.evidence = CitedBy(selected, external)
        /\ b.state = "eligible" =>
             /\ p.sessions \subseteq SessionsOf(facets)
             /\ \A f \in selected : FacetSupports(p.motif, f)
             /\ Cardinality(selected) >= config.recurrence
             /\ Cardinality(selected) >= config.aggregation
    BY EligibleIs
  <2> HIDE DEF b, selected
  <2> QED BY <2>1, <2>2 DEF CitedBy, SessionsOf
<1>2. IsFiniteSet(selected) /\ \A f, g \in selected : f.session = g.session => f = g
  BY FacetsAreOneEach, FS_Subset DEF FacetsFor
<1>3. p.sessions = {f.session : f \in selected}
  BY <1>1 DEF FacetsFor
<1> HIDE DEF facets, external, W
<1>4. Cardinality(p.sessions) >= Cardinality(selected) /\ Cardinality(p.sessions) \in Nat
      /\ Cardinality(selected) \in Nat
  <2>1. session \in Surjection(selected, p.sessions) /\ session \in Injection(selected, p.sessions)
    <3>1. session \in [selected -> p.sessions] /\ \A s \in p.sessions : \E f \in selected : session[f] = s
      BY <1>3
    <3>2. \A f, g \in selected : session[f] = session[g] => f = g
      BY <1>2
    <3> HIDE DEF session, selected
    <3> QED BY <3>1, <3>2 DEF Surjection, Injection, IsInjective
  <2> HIDE DEF session, selected
  <2>2. IsFiniteSet(p.sessions)
    BY <1>2, <2>1, FS_Surjection
  <2>3. Cardinality(selected) <= Cardinality(p.sessions)
    BY <2>1, <2>2, FS_Injection
  <2>4. Cardinality(p.sessions) \in Nat /\ Cardinality(selected) \in Nat
    BY <1>2, <2>2, FS_CardinalityType
  <2> QED BY <2>3, <2>4
<1>5. config.recurrence \in Nat /\ config.aggregation \in Nat
  BY DEF MotifConfigOK
<1>6. Cardinality(a.sessions) >= config.recurrence /\ Cardinality(a.sessions) >= config.aggregation
  <2> HIDE DEF selected
  <2> QED BY <1>1, <1>4, <1>5
<1>7. ASSUME NEW f \in selected
      PROVE  \E root \in W : /\ root.kind = "session" /\ root.id = f.session
                             /\ f.session \in a.sessions /\ Fails(config, root, a.motif)
                             /\ f.events = {e.id : e \in SessionFamily(config, root)}
                             /\ f.receipts \subseteq f.events /\ external[f.session] = {}
  <2>1. f \in facets /\ f.session \in a.sessions
    BY <1>1 DEF FacetsFor
  <2>2. PICK root \in W : root.kind = "session" /\ f.session = root.id /\ f = Facet(root, SessionFamily(config, root))
    BY <2>1, FacetsAre DEF facets, W
  <2>3. Fails(config, root, p.motif) /\ f.receipts # {}
    <3>1. FacetSupports(p.motif, Facet(root, SessionFamily(config, root)))
      BY <1>1, <2>2
    <3> QED BY <2>2, <3>1, SupportsAre
  <2>4. external[f.session] = {}
    BY <2>1, <2>3, ExternalIs DEF facets, external
  <2>5. /\ f.events = {e.id : e \in SessionFamily(config, root)}
        /\ f.receipts = {e.id : e \in OutcomesIn(config, root) \cup FailuresIn(config, root)}
    BY <2>2, FacetIs
  <2>6. f.receipts \subseteq f.events
    BY <2>5 DEF OutcomesIn, FailuresIn
  <2> QED BY <1>1, <2>1, <2>2, <2>3, <2>4, <2>5, <2>6
<1>8. \A s \in a.sessions : \E root \in W : /\ root.kind = "session" /\ root.id = s
                                            /\ Fails(config, root, a.motif)
  <2> TAKE s \in a.sessions
  <2>1. PICK f \in selected : f.session = s
    BY <1>1, <1>3
  <2> HIDE DEF selected
  <2> QED BY <1>7, <2>1
<1>9. a.evidence \subseteq {e.id : e \in {e \in W : {e.id, e.session} \cap a.sessions # {}}}
  <2> SUFFICES ASSUME NEW i \in a.evidence
               PROVE  \E e \in W : {e.id, e.session} \cap a.sessions # {} /\ i = e.id
    OBVIOUS
  <2>1. PICK f \in selected : i \in f.events \cup (f.receipts \cup external[f.session])
    BY <1>1
  <2>2. PICK root \in W : /\ root.id = f.session /\ f.session \in a.sessions
                          /\ f.events = {e.id : e \in SessionFamily(config, root)}
                          /\ f.receipts \subseteq f.events /\ external[f.session] = {}
    BY <1>7
  <2>3. PICK e \in SessionFamily(config, root) : i = e.id
    BY <2>1, <2>2
  <2>4. e \in W /\ (e = root \/ e.session = root.id)
    BY <2>3 DEF SessionFamily, W
  <2>5. {e.id, e.session} \cap a.sessions # {}
    BY <2>2, <2>4
  <2> QED BY <2>3, <2>4, <2>5
<1> QED BY <1>6, <1>8, <1>9 DEF W

\* A motif that surfaces is borne out by the window alone
\* (MotifsAreBorneOut), whatever was proposed and whatever else is known.
THEOREM MotifsHold == LiveSpec => []MotifsAreBorneOut
<1>1. ASSUME IndexOK, NEW asked \in archive.asked.motifs
      PROVE  LET config == asked.config
                 window == {e \in events : config.since <= e.at /\ e.at < config.cutoff}
                 failures(s) == {e \in window : e.kind = "tool_call" /\ e.session = s /\ e.status = "failed"}
                 proposals == [motif : {"retry-storm", "permission-loop", "context-drift"},
                               sessions : SUBSET {e.id : e \in {e \in archive.events : e.kind = "session"}}]
                 synthesis == [snapshot |-> MotifSnapshot(events, config), tuple |-> asked.tuple,
                               proposals |-> proposals]
                 found == MotifProjection(synthesis, asked.evaluation, config, events, crosswalks, relations)
             IN  found # None =>
                 \A a \in {a \in found : a.state = "eligible"} :
                   /\ Cardinality(a.sessions) >= config.recurrence
                   /\ Cardinality(a.sessions) >= config.aggregation
                   /\ \A s \in a.sessions :
                        /\ \E e \in window : e.kind = "session" /\ e.id = s
                        /\ CASE a.motif = "retry-storm" ->
                                  \E e, f \in failures(s) : e # f /\ e.action # None /\ e.action = f.action
                             [] a.motif = "permission-loop" ->
                                  /\ \E e, f \in failures(s) : e # f /\ e.tool # None /\ e.tool = f.tool
                                  /\ \E e \in window : /\ e.kind = "tool_call" /\ e.session = s
                                                       /\ e.error = "permission"
                             [] OTHER ->
                                  /\ \E e \in window : /\ e.kind = "outcome" /\ e.session = s
                                                       /\ e.status \in {"failed", "reverted", "abandoned"}
                                  /\ \E e \in window : s \in {e.id, e.session} /\ "scopeChanges" \in DOMAIN e
                   /\ a.evidence \subseteq {e.id : e \in {e \in window : {e.id, e.session} \cap a.sessions # {}}}
  <2> DEFINE config == asked.config
             W == MotifWindow(events, config)
             failures(s) == {e \in W : e.kind = "tool_call" /\ e.session = s /\ e.status = "failed"}
             motifs == {"retry-storm", "permission-loop", "context-drift"}
             proposals == [motif : motifs,
                           sessions : SUBSET {e.id : e \in {e \in archive.events : e.kind = "session"}}]
             synthesis == [snapshot |-> MotifSnapshot(events, config), tuple |-> asked.tuple,
                           proposals |-> proposals]
             found == MotifProjection(synthesis, asked.evaluation, config, events, crosswalks, relations)
  <2>1. MotifConfigOK(config)
    <3>1. archive \in Archives
      BY <1>1 DEF IndexOK
    <3> QED BY <3>1, AskedAssumption
  <2>2. W = {e \in events : config.since <= e.at /\ e.at < config.cutoff}
    BY DEF MotifWindow
  <2>3. synthesis.proposals = proposals /\ \A p \in proposals : p.motif \in motifs
    OBVIOUS
  <2> HIDE DEF W, config, synthesis, proposals
  <2>4. ASSUME found # None, NEW a \in found, a.state = "eligible"
        PROVE  /\ Cardinality(a.sessions) >= config.recurrence
               /\ Cardinality(a.sessions) >= config.aggregation
               /\ \A s \in a.sessions : \E root \in W : /\ root.kind = "session" /\ root.id = s
                                                        /\ Fails(config, root, a.motif)
               /\ a.evidence \subseteq {e.id : e \in {e \in W : {e.id, e.session} \cap a.sessions # {}}}
    <3>1. PICK p \in synthesis.proposals : \E decision :
            a = AssessMotif(p, Facets(events, config), External(config, crosswalks, relations), config, decision)
      BY <2>4, ProjectionIs
    <3>2. PICK decision :
            a = AssessMotif(p, Facets(events, config), External(config, crosswalks, relations), config, decision)
      BY <3>1
    <3>3. p.motif \in motifs
      BY <2>3
    <3> QED BY <1>1, <2>1, <2>4, <3>2, <3>3, EligibleFails DEF W
  <2>5. ASSUME NEW root \in W, root.kind = "session"
        PROVE  /\ FailuresIn(config, root) \subseteq failures(root.id)
               /\ OutcomesIn(config, root) \subseteq {e \in W : e.kind = "outcome" /\ e.session = root.id}
               /\ ToolsIn(config, root) \subseteq {e \in W : e.kind = "tool_call" /\ e.session = root.id}
               /\ ChangesIn(config, root)
                    \subseteq {e \in W : root.id \in {e.id, e.session} /\ "scopeChanges" \in DOMAIN e}
    BY <2>5 DEF FailuresIn, OutcomesIn, ToolsIn, ChangesIn, SessionFamily, W
  <2>6. ASSUME NEW root \in W, root.kind = "session", NEW motif, Fails(config, root, motif)
        PROVE  CASE motif = "retry-storm" ->
                      \E e, f \in failures(root.id) : e # f /\ e.action # None /\ e.action = f.action
                 [] motif = "permission-loop" ->
                      /\ \E e, f \in failures(root.id) : e # f /\ e.tool # None /\ e.tool = f.tool
                      /\ \E e \in W : /\ e.kind = "tool_call" /\ e.session = root.id
                                      /\ e.error = "permission"
                 [] OTHER ->
                      /\ \E e \in W : /\ e.kind = "outcome" /\ e.session = root.id
                                      /\ e.status \in {"failed", "reverted", "abandoned"}
                      /\ \E e \in W : root.id \in {e.id, e.session} /\ "scopeChanges" \in DOMAIN e
    <3>1. CASE motif = "retry-storm"
      BY <2>5, <2>6, <3>1 DEF Fails
    <3>2. CASE motif = "permission-loop"
      BY <2>5, <2>6, <3>2 DEF Fails
    <3>3. CASE motif \notin {"retry-storm", "permission-loop"}
      BY <2>5, <2>6, <3>3 DEF Fails, Terminal
    <3> QED BY <3>1, <3>2, <3>3
  <2>7. ASSUME found # None, NEW a \in found, a.state = "eligible"
        PROVE  /\ Cardinality(a.sessions) >= config.recurrence
               /\ Cardinality(a.sessions) >= config.aggregation
               /\ \A s \in a.sessions :
                    /\ \E e \in W : e.kind = "session" /\ e.id = s
                    /\ CASE a.motif = "retry-storm" ->
                              \E e, f \in failures(s) : e # f /\ e.action # None /\ e.action = f.action
                         [] a.motif = "permission-loop" ->
                              /\ \E e, f \in failures(s) : e # f /\ e.tool # None /\ e.tool = f.tool
                              /\ \E e \in W : /\ e.kind = "tool_call" /\ e.session = s
                                              /\ e.error = "permission"
                         [] OTHER ->
                              /\ \E e \in W : /\ e.kind = "outcome" /\ e.session = s
                                              /\ e.status \in {"failed", "reverted", "abandoned"}
                              /\ \E e \in W : s \in {e.id, e.session} /\ "scopeChanges" \in DOMAIN e
               /\ a.evidence \subseteq {e.id : e \in {e \in W : {e.id, e.session} \cap a.sessions # {}}}
    <3> HIDE DEF found, failures
    <3>1. \A s \in a.sessions : \E root \in W : /\ root.kind = "session" /\ root.id = s
                                                /\ Fails(config, root, a.motif)
      BY <2>4, <2>7
    <3>2. ASSUME NEW s \in a.sessions
          PROVE  /\ \E e \in W : e.kind = "session" /\ e.id = s
                 /\ CASE a.motif = "retry-storm" ->
                           \E e, f \in failures(s) : e # f /\ e.action # None /\ e.action = f.action
                      [] a.motif = "permission-loop" ->
                           /\ \E e, f \in failures(s) : e # f /\ e.tool # None /\ e.tool = f.tool
                           /\ \E e \in W : /\ e.kind = "tool_call" /\ e.session = s
                                           /\ e.error = "permission"
                      [] OTHER ->
                           /\ \E e \in W : /\ e.kind = "outcome" /\ e.session = s
                                           /\ e.status \in {"failed", "reverted", "abandoned"}
                           /\ \E e \in W : s \in {e.id, e.session} /\ "scopeChanges" \in DOMAIN e
      <4>1. PICK root \in W : root.kind = "session" /\ root.id = s /\ Fails(config, root, a.motif)
        BY <3>1
      <4> QED BY <2>6, <4>1
    <3> QED BY <2>4, <2>7, <3>2
  <2> HIDE DEF failures
  <2> QED BY <2>2, <2>7 DEF failures, found, synthesis, proposals, config
<1>2. IndexOK => MotifsAreBorneOut
  BY <1>1 DEF MotifsAreBorneOut
<1> QED BY <1>2, IndexHolds, PTL
=============================================================================
