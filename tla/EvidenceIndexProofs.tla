------------------------ MODULE EvidenceIndexProofs ------------------------
(***************************************************************************)
(* What holds of accounting, attribution and activity over every index,    *)
(* however it fills.                                                       *)
(***************************************************************************)
EXTENDS Projections, FoldProofs, FiniteSetTheorems

-----------------------------------------------------------------------------
(* The index.                                                              *)

\* Events are only ever added to an index, by records and by scans.
LEMMA EventsStay == [LiveNext]_liveVars => events \subseteq events'
<1> SUFFICES ASSUME [LiveNext]_liveVars PROVE events \subseteq events'
  OBVIOUS
<1>1. CASE Next
  BY <1>1 DEF Next, AppendEvent, AppendCrosswalk, AppendRelation, Refute
<1>2. CASE Grow
  BY <1>2 DEF Grow, vars
<1>3. CASE Scan
  BY <1>3 DEF Scan
<1>4. CASE UNCHANGED liveVars
  BY <1>4 DEF liveVars, vars
<1> QED  BY <1>1, <1>2, <1>3, <1>4 DEF LiveNext

\* The inductive invariant: an id is of one event, every event is one that the
\* sources have told at some time, and no refuted link is current.
IndexOK ==
  /\ archive \in Archives
  /\ now \in DOMAIN archive.history
  /\ events \subseteq Tellable(archive)
  /\ Consistent(events)
  /\ (crosswalks \cup relations) \cap refuted = {}

LEMMA MayReadIs ==
  ASSUME NEW name, NEW reading \in MayRead(name)
  PROVE  \E missed \in SUBSET Late(name), since \in archive.bounds :
           reading \in Readings(Content[name], Content, ReceiptsOf(Content[name]) \ missed, since)
<1> DEFINE read(missed, since) == Readings(Content[name], Content, ReceiptsOf(Content[name]) \ missed, since)
<1>1. MayRead(name) = UNION {read(missed, since) : missed \in SUBSET Late(name), since \in archive.bounds}
  BY DEF MayRead
<1> HIDE DEF read
<1>2. \E missed \in SUBSET Late(name), since \in archive.bounds : reading \in read(missed, since)
  BY <1>1
<1> QED BY <1>2 DEF read

LEMMA ScanTells ==
  ASSUME IndexOK, NEW name \in DOMAIN Content, NEW reading \in MayRead(name), NEW part \in Appended(reading)
  PROVE  part.events \subseteq Tellable(archive) /\ Consistent(events \cup part.events)
<1>1. reading.events \subseteq Tellable(archive)
  <2>1. PICK missed \in SUBSET Late(name), since \in archive.bounds :
          reading \in Readings(Content[name], Content, ReceiptsOf(Content[name]) \ missed, since)
    BY MayReadIs
  <2>2. reading \in AnyReadings(Content, since)
    <3>1. ReceiptsOf(Content[name]) \ missed \in SUBSET ReceiptsOf(Content[name])
      OBVIOUS
    <3> QED BY <2>1, <3>1 DEF AnyReadings
  <2>3. reading \in UNION {AnyReadings(archive.history[i], s) : i \in DOMAIN archive.history, s \in archive.bounds}
    BY <2>2 DEF IndexOK, Content
  <2> QED  BY <2>3 DEF Tellable
<1>2. part.events \subseteq reading.events /\ Consistent(events \cup part.events)
  <2>1. CASE Consistent(events \cup reading.events)
    BY <2>1 DEF Appended
  <2>2. CASE ~Consistent(events \cup reading.events)
    BY <2>2 DEF Appended
  <2> QED  BY <2>1, <2>2
<1> QED  BY <1>1, <1>2

LEMMA IndexStep == IndexOK /\ [LiveNext]_liveVars => IndexOK'
<1> SUFFICES ASSUME IndexOK, [LiveNext]_liveVars PROVE IndexOK'
  OBVIOUS
<1>1. CASE Next /\ UNCHANGED <<now, overtaken>>
  <2>1. UNCHANGED <<archive, now>>
    BY <1>1 DEF Next, AppendEvent, AppendCrosswalk, AppendRelation, Refute
  <2>2. events' \subseteq Tellable(archive) /\ Consistent(events')
    <3>1. CASE AppendEvent
      <4>1. archive.events \subseteq Tellable(archive)
        BY DEF Tellable
      <4> QED  BY <3>1, <4>1 DEF AppendEvent, IndexOK
    <3>2. CASE AppendCrosswalk \/ AppendRelation \/ Refute
      BY <3>2 DEF AppendCrosswalk, AppendRelation, Refute, IndexOK
    <3> QED  BY <1>1, <3>1, <3>2 DEF Next
  <2>3. ((crosswalks \cup relations) \cap refuted)' = {}
    <3>1. CASE AppendEvent
      BY <3>1 DEF AppendEvent, IndexOK
    <3>2. CASE AppendCrosswalk
      BY <3>2 DEF AppendCrosswalk, IndexOK
    <3>3. CASE AppendRelation
      BY <3>3 DEF AppendRelation, IndexOK
    <3>4. CASE Refute
      BY <3>4 DEF Refute, IndexOK
    <3> QED  BY <1>1, <3>1, <3>2, <3>3, <3>4 DEF Next
  <2> QED  BY <2>1, <2>2, <2>3 DEF IndexOK
<1>2. CASE Grow
  BY <1>2, ArchivesAssumption DEF Grow, IndexOK, vars
<1>3. CASE Scan
  <2> DEFINE told(part) == /\ events' = events \cup part.events
                           /\ crosswalks' = crosswalks \cup (part.crosswalks \ refuted)
                           /\ relations' = relations \cup (part.relations \ refuted)
  <2>1. PICK name \in DOMAIN Content :
          \E reading \in MayRead(name) : \E part \in Appended(reading) : told(part)
    BY <1>3 DEF Scan
  <2>2. PICK reading \in MayRead(name) : \E part \in Appended(reading) : told(part)
    BY <2>1
  <2>3. PICK part \in Appended(reading) : told(part)
    BY <2>2
  <2>4. part.events \subseteq Tellable(archive) /\ Consistent(events')
    BY <2>3, ScanTells
  <2>5. UNCHANGED <<archive, now, refuted>>
    BY <1>3 DEF Scan
  <2>6. ((crosswalks \cup relations) \cap refuted)' = {}
    BY <2>3, <2>5 DEF IndexOK
  <2> QED  BY <2>3, <2>4, <2>5, <2>6 DEF IndexOK
<1>4. CASE UNCHANGED liveVars
  BY <1>4 DEF liveVars, vars, IndexOK
<1> QED  BY <1>1, <1>2, <1>3, <1>4 DEF LiveNext

\* Unless a link is refuted, links are only ever added to an index.
LEMMA LinksStay ==
  ASSUME IndexOK, [LiveNext]_liveVars, refuted' = refuted
  PROVE  crosswalks \subseteq crosswalks' /\ relations \subseteq relations'
<1>1. CASE Next
  <2>1. CASE Refute
    BY <2>1 DEF Refute, IndexOK
  <2>2. CASE AppendEvent \/ AppendCrosswalk \/ AppendRelation
    BY <2>2 DEF AppendEvent, AppendCrosswalk, AppendRelation
  <2> QED  BY <1>1, <2>1, <2>2 DEF Next
<1>2. CASE Grow
  BY <1>2 DEF Grow, vars
<1>3. CASE Scan
  BY <1>3 DEF Scan
<1>4. CASE UNCHANGED liveVars
  BY <1>4 DEF liveVars, vars
<1> QED  BY <1>1, <1>2, <1>3, <1>4 DEF LiveNext

LEMMA IndexHolds == LiveSpec => []IndexOK
<1>1. LiveInit => IndexOK
  BY ArchivesAssumption DEF LiveInit, Init, IndexOK, Consistent
<1> QED  BY <1>1, IndexStep, PTL DEF LiveSpec

LEMMA IndexFinite ==
  ASSUME IndexOK
  PROVE  /\ IsFiniteSet(events) /\ Cardinality(events) \in Nat
         /\ \A e \in events :
              /\ WellFormed(e)
              /\ e.kind = "session" \/ (e.kind = "model_call" /\ e.adapter = "somm") => EventRef(e) # None
BY ArchivesAssumption, FS_Subset, FS_CardinalityType DEF IndexOK

-----------------------------------------------------------------------------
(* Accounting.                                                             *)

\* Python compares ids as texts: of two different ones, one is before the other.
Ordered(ids) ==
  /\ \A i \in ids : ~(i < i)
  /\ \A i, j, k \in ids : i < j /\ j < k => i < k
  /\ \A i, j \in ids : i < j \/ i = j \/ j < i

LEMMA MinOf ==
  ASSUME NEW S, S \subseteq Nat, S # {}
  PROVE  Min(S) \in S /\ \A y \in S : Min(S) <= y
BY LeastOf DEF Min

LEMMA IndexOfFirst ==
  ASSUME NEW s, Len(s) \in Nat, DOMAIN s = 1..Len(s), NEW x
  PROVE  /\ IndexOf(s, x) \in 1..(Len(s) + 1)
         /\ \A i \in DOMAIN s : s[i] = x /\ (\A j \in 1..(i - 1) : s[j] # x) => IndexOf(s, x) = i
<1> DEFINE S == {i \in DOMAIN s : s[i] = x} \cup {Len(s) + 1}
<1>1. S \subseteq 1..(Len(s) + 1) /\ S \subseteq Nat /\ Len(s) + 1 \in S
  OBVIOUS
<1>2. IndexOf(s, x) = Min(S)
  BY DEF IndexOf
<1>3. Min(S) \in S /\ \A y \in S : Min(S) <= y
  <2> HIDE DEF S
  <2> QED  BY <1>1, MinOf
<1>4. ASSUME NEW i \in DOMAIN s, s[i] = x, \A j \in 1..(i - 1) : s[j] # x
      PROVE  Min(S) = i
  <2>1. i \in S
    BY <1>4
  <2>2. Min(S) <= i
    BY <1>3, <2>1
  <2>3. Min(S) \in DOMAIN s /\ s[Min(S)] = x
    BY <1>1, <1>3, <2>2
  <2> HIDE DEF S
  <2>4. Min(S) \notin 1..(i - 1)
    BY <1>4, <2>3
  <2> QED  BY <2>2, <2>3, <2>4
<1> HIDE DEF S
<1> QED  BY <1>1, <1>2, <1>3, <1>4

Bases == <<"reported", "computed", "unknown">>
Accuracies == <<"actual", "estimated", "unknown">>

\* The accounting precedence goes by accuracy first and then by basis.
LEMMA PrecedencePlaces ==
  \A i, j \in 1..3 :
    /\ IndexOf(Bases, Bases[i]) = i /\ IndexOf(Accuracies, Accuracies[j]) = j
    /\ IndexOf(AccountingPrecedence, <<Bases[i], Accuracies[j]>>) = 3 * (j - 1) + i
<1> SUFFICES ASSUME NEW i \in 1..3, NEW j \in 1..3
             PROVE  /\ IndexOf(Bases, Bases[i]) = i /\ IndexOf(Accuracies, Accuracies[j]) = j
                    /\ IndexOf(AccountingPrecedence, <<Bases[i], Accuracies[j]>>) = 3 * (j - 1) + i
  OBVIOUS
<1>1. /\ Len(Bases) = 3 /\ DOMAIN Bases = 1..3
      /\ Len(Accuracies) = 3 /\ DOMAIN Accuracies = 1..3
      /\ \A k \in 1..(i - 1) : Bases[k] # Bases[i]
      /\ \A k \in 1..(j - 1) : Accuracies[k] # Accuracies[j]
  BY DEF Bases, Accuracies
<1>2. IndexOf(Bases, Bases[i]) = i /\ IndexOf(Accuracies, Accuracies[j]) = j
  <2>1. IndexOf(Bases, Bases[i]) = i
    BY <1>1, IndexOfFirst
  <2>2. IndexOf(Accuracies, Accuracies[j]) = j
    BY <1>1, IndexOfFirst
  <2> QED  BY <2>1, <2>2
<1>3. /\ Len(AccountingPrecedence) = 9 /\ DOMAIN AccountingPrecedence = 1..9
      /\ \A n \in 1..3, m \in 1..3 : AccountingPrecedence[3 * (m - 1) + n] = <<Bases[n], Accuracies[m]>>
  BY DEF AccountingPrecedence, Bases, Accuracies
<1>4. 3 * (j - 1) + i \in 1..9
  OBVIOUS
<1>5. ASSUME NEW k \in 1..((3 * (j - 1) + i) - 1)
      PROVE  AccountingPrecedence[k] # <<Bases[i], Accuracies[j]>>
  <2>1. PICK n \in 1..3, m \in 1..3 : k = 3 * (m - 1) + n
    OBVIOUS
  <2>2. AccountingPrecedence[k] = <<Bases[n], Accuracies[m]>>
    BY <1>3, <2>1
  <2>3. n # i \/ m # j
    BY <2>1
  <2>4. Bases[n] # Bases[i] \/ Accuracies[m] # Accuracies[j]
    BY <2>3 DEF Bases, Accuracies
  <2> QED  BY <2>2, <2>4
<1>6. IndexOf(AccountingPrecedence, <<Bases[i], Accuracies[j]>>) = 3 * (j - 1) + i
  <2> DEFINE p == 3 * (j - 1) + i
             x == <<Bases[i], Accuracies[j]>>
  <2>1. AccountingPrecedence[p] = x /\ 9 \in Nat
    BY <1>3
  <2>2. p \in 1..9 /\ \A k \in 1..(p - 1) : AccountingPrecedence[k] # x
    BY <1>4, <1>5
  <2> HIDE DEF p, x
  <2>3. /\ Len(AccountingPrecedence) \in Nat /\ p \in DOMAIN AccountingPrecedence
        /\ DOMAIN AccountingPrecedence = 1..Len(AccountingPrecedence)
    BY <1>3, <2>2
  <2>4. IndexOf(AccountingPrecedence, x) = p
    BY <2>1, <2>2, <2>3, IndexOfFirst
  <2> QED  BY <2>4 DEF p, x
<1> QED  BY <1>2, <1>6

\* A finite set has a best element under any strict order.
LEMMA BestOf ==
  ASSUME NEW S, IsFiniteSet(S), S # {}, NEW better,
         \A x \in S : <<x, x>> \notin better,
         \A x, y, z \in S : <<x, y>> \in better /\ <<y, z>> \in better => <<x, z>> \in better
  PROVE  \E x \in S : \A y \in S : <<y, x>> \notin better
<1> DEFINE above(x) == {y \in S : <<y, x>> \in better}
           sizes == {Cardinality(above(x)) : x \in S}
<1>1. \A x \in S : IsFiniteSet(above(x)) /\ Cardinality(above(x)) \in Nat
  BY FS_Subset, FS_CardinalityType
<1>2. sizes \subseteq Nat /\ sizes # {}
  <2> HIDE DEF above
  <2> QED  BY <1>1
<1>3. PICK n \in sizes : \A m \in sizes : n <= m
  <2> HIDE DEF sizes
  <2> QED  BY <1>2, LeastOf
<1>4. PICK x \in S : n = Cardinality(above(x))
  OBVIOUS
<1>5. ASSUME NEW y \in S, <<y, x>> \in better PROVE FALSE
  <2>1. above(y) \subseteq above(x) /\ y \in above(x) /\ y \notin above(y)
    BY <1>5
  <2>2. Cardinality(above(y)) <= Cardinality(above(x))
        /\ Cardinality(above(x)) # Cardinality(above(y))
    <3> HIDE DEF above
    <3> QED  BY <1>1, <2>1, FS_Subset
  <2>3. Cardinality(above(y)) \in sizes
    OBVIOUS
  <2>4. Cardinality(above(x)) <= Cardinality(above(y))
    BY <1>3, <1>4, <2>3
  <2>5. Cardinality(above(x)) \in Nat /\ Cardinality(above(y)) \in Nat
    BY <1>1
  <2> HIDE DEF above, sizes
  <2> QED  BY <2>2, <2>4, <2>5
<1> QED  BY <1>5

\* Quadruples are compared from left to right.
LEMMA BeforeQuad ==
  ASSUME NEW a1, NEW a2, NEW a3, NEW a4, NEW b1, NEW b2, NEW b3, NEW b4
  PROVE  Before(<<a1, a2, a3, a4>>, <<b1, b2, b3, b4>>)
           <=> \/ a1 < b1
               \/ a1 = b1 /\ a2 < b2
               \/ a1 = b1 /\ a2 = b2 /\ a3 < b3
               \/ a1 = b1 /\ a2 = b2 /\ a3 = b3 /\ a4 < b4
<1> DEFINE a == <<a1, a2, a3, a4>>
           b == <<b1, b2, b3, b4>>
           at(i) == (\A j \in 1..(i - 1) : a[j] = b[j]) /\ a[i] < b[i]
<1>1. DOMAIN a = 1..4
  OBVIOUS
<1>2. Before(a, b) <=> at(1) \/ at(2) \/ at(3) \/ at(4)
  <2>1. Before(a, b) <=> \E i \in 1..4 : at(i)
    BY <1>1 DEF Before
  <2> HIDE DEF at
  <2>2. \A i \in 1..4 : i = 1 \/ i = 2 \/ i = 3 \/ i = 4
    OBVIOUS
  <2> QED  BY <2>1, <2>2
<1>3. at(1) <=> a1 < b1
  OBVIOUS
<1>4. at(2) <=> a1 = b1 /\ a2 < b2
  OBVIOUS
<1>5. at(3) <=> a1 = b1 /\ a2 = b2 /\ a3 < b3
  OBVIOUS
<1>6. at(4) <=> a1 = b1 /\ a2 = b2 /\ a3 = b3 /\ a4 < b4
  OBVIOUS
<1> HIDE DEF at
<1> QED  BY <1>2, <1>3, <1>4, <1>5, <1>6

\* No two different observations have the same precedence.
LEMMA PrecedenceOrders ==
  ASSUME NEW ids, Ordered(ids)
  PROVE  /\ \A e : e.id \in ids => ~Before(Precedence(e), Precedence(e))
         /\ \A e, f, g : /\ {e.id, f.id, g.id} \subseteq ids
                         /\ Before(Precedence(e), Precedence(f)) /\ Before(Precedence(f), Precedence(g))
                         => Before(Precedence(e), Precedence(g))
         /\ \A e, f : {e.id, f.id} \subseteq ids /\ e.id # f.id =>
              Before(Precedence(e), Precedence(f)) \/ Before(Precedence(f), Precedence(e))
<1> DEFINE authority(e) == IF e.authority = None THEN e.adapter ELSE e.authority
           p1(e) == IndexOf(AccountingPrecedence, <<e.basis, e.accuracy>>)
           p2(e) == IndexOf(AuthorityPrecedence, authority(e))
           p3(e) == IndexOf(Lexical, authority(e))
<1>1. \A e : p1(e) \in Nat /\ p2(e) \in Nat /\ p3(e) \in Nat
  <2>1. \A x : IndexOf(AccountingPrecedence, x) \in Nat
    <3>1. /\ Len(AccountingPrecedence) = 9
          /\ DOMAIN AccountingPrecedence = 1..Len(AccountingPrecedence)
      BY DEF AccountingPrecedence
    <3> QED  BY <3>1, IndexOfFirst
  <2>2. \A x : IndexOf(AuthorityPrecedence, x) \in Nat
    <3>1. /\ Len(AuthorityPrecedence) = 6
          /\ DOMAIN AuthorityPrecedence = 1..Len(AuthorityPrecedence)
      BY DEF AuthorityPrecedence
    <3> QED  BY <3>1, IndexOfFirst
  <2>3. \A x : IndexOf(Lexical, x) \in Nat
    <3>1. Len(Lexical) \in Nat /\ DOMAIN Lexical = 1..Len(Lexical)
      BY LexicalAssumption
    <3> QED  BY <3>1, IndexOfFirst
  <2> QED  BY <2>1, <2>2, <2>3
<1>2. \A e : Precedence(e) = <<p1(e), p2(e), p3(e), e.id>>
  BY DEF Precedence
<1> HIDE DEF p1, p2, p3
<1>3. \A e, f : Before(Precedence(e), Precedence(f))
                 <=> \/ p1(e) < p1(f)
                     \/ p1(e) = p1(f) /\ p2(e) < p2(f)
                     \/ p1(e) = p1(f) /\ p2(e) = p2(f) /\ p3(e) < p3(f)
                     \/ p1(e) = p1(f) /\ p2(e) = p2(f) /\ p3(e) = p3(f) /\ e.id < f.id
  BY <1>2, BeforeQuad
<1>4. \A e : e.id \in ids => ~Before(Precedence(e), Precedence(e))
  BY <1>1, <1>3 DEF Ordered
<1>5. ASSUME NEW e, NEW f, NEW g, {e.id, f.id, g.id} \subseteq ids,
             Before(Precedence(e), Precedence(f)), Before(Precedence(f), Precedence(g))
      PROVE  Before(Precedence(e), Precedence(g))
  <2>1. e.id \in ids /\ f.id \in ids /\ g.id \in ids
    BY <1>5
  <2>2. e.id < f.id /\ f.id < g.id => e.id < g.id
    BY <2>1 DEF Ordered
  <2>3. /\ p1(e) \in Nat /\ p2(e) \in Nat /\ p3(e) \in Nat
        /\ p1(f) \in Nat /\ p2(f) \in Nat /\ p3(f) \in Nat
        /\ p1(g) \in Nat /\ p2(g) \in Nat /\ p3(g) \in Nat
    BY <1>1
  <2>4. /\ \/ p1(e) < p1(f)
           \/ p1(e) = p1(f) /\ p2(e) < p2(f)
           \/ p1(e) = p1(f) /\ p2(e) = p2(f) /\ p3(e) < p3(f)
           \/ p1(e) = p1(f) /\ p2(e) = p2(f) /\ p3(e) = p3(f) /\ e.id < f.id
        /\ \/ p1(f) < p1(g)
           \/ p1(f) = p1(g) /\ p2(f) < p2(g)
           \/ p1(f) = p1(g) /\ p2(f) = p2(g) /\ p3(f) < p3(g)
           \/ p1(f) = p1(g) /\ p2(f) = p2(g) /\ p3(f) = p3(g) /\ f.id < g.id
    BY <1>3, <1>5
  <2>5. \/ p1(e) < p1(g)
        \/ p1(e) = p1(g) /\ p2(e) < p2(g)
        \/ p1(e) = p1(g) /\ p2(e) = p2(g) /\ p3(e) < p3(g)
        \/ p1(e) = p1(g) /\ p2(e) = p2(g) /\ p3(e) = p3(g) /\ e.id < g.id
    BY <2>2, <2>3, <2>4
  <2> QED  BY <1>3, <2>5
<1>6. ASSUME NEW e, NEW f, {e.id, f.id} \subseteq ids, e.id # f.id
      PROVE  Before(Precedence(e), Precedence(f)) \/ Before(Precedence(f), Precedence(e))
  <2>1. e.id \in ids /\ f.id \in ids
    BY <1>6
  <2>2. e.id < f.id \/ f.id < e.id
    BY <1>6, <2>1 DEF Ordered
  <2>3. /\ p1(e) \in Nat /\ p2(e) \in Nat /\ p3(e) \in Nat
        /\ p1(f) \in Nat /\ p2(f) \in Nat /\ p3(f) \in Nat
    BY <1>1
  <2> QED  BY <1>3, <2>2, <2>3
<1> QED  BY <1>4, <1>5, <1>6

\* Who comes before in precedence is at least as settled and as direct.
LEMMA BeforeIsBetter ==
  ASSUME NEW e, NEW f, WellFormed(e), WellFormed(f), e.kind = "cost", f.kind = "cost",
         Before(Precedence(e), Precedence(f))
  PROVE  /\ Settled(e) <= Settled(f)
         /\ Settled(e) = Settled(f) => Obtained(e) <= Obtained(f)
<1> DEFINE place(g) == IndexOf(AccountingPrecedence, <<g.basis, g.accuracy>>)
<1>1. place(e) < place(f) \/ place(e) = place(f)
  BY BeforeQuad DEF Precedence
<1>2. ASSUME NEW g, WellFormed(g), g.kind = "cost"
      PROVE  /\ Settled(g) \in 1..3 /\ Obtained(g) \in 1..3
             /\ place(g) = 3 * (Settled(g) - 1) + Obtained(g)
  <2>1. PICK i \in 1..3 : g.basis = Bases[i]
    BY <1>2 DEF WellFormed, Bases
  <2>2. PICK j \in 1..3 : g.accuracy = Accuracies[j]
    BY <1>2 DEF WellFormed, Accuracies
  <2>3. Settled(g) = j /\ Obtained(g) = i
    BY <2>1, <2>2, PrecedencePlaces DEF Settled, Obtained, Bases, Accuracies
  <2> QED  BY <2>1, <2>2, <2>3, PrecedencePlaces
<1> HIDE DEF place
<1>3. /\ Settled(e) \in 1..3 /\ Obtained(e) \in 1..3 /\ place(e) = 3 * (Settled(e) - 1) + Obtained(e)
      /\ Settled(f) \in 1..3 /\ Obtained(f) \in 1..3 /\ place(f) = 3 * (Settled(f) - 1) + Obtained(f)
  BY <1>2
<1> QED  BY <1>1, <1>3

\* A billable unit is what exact keys make the same, and an observation alone.
LEMMA UnitsAreExact ==
  ASSUME NEW e, NEW f, WellFormed(e), WellFormed(f), e.kind = "cost", f.kind = "cost"
  PROVE  /\ SameUnit(e, f) => BillableUnit(e) = BillableUnit(f)
         /\ e.id # f.id /\ BillableUnit(e) = BillableUnit(f) => SameUnit(e, f)
<1>1. e.scope \in {"shared", "source", "unknown"} /\ f.scope \in {"shared", "source", "unknown"}
  BY DEF WellFormed
<1> DEFINE unit(g) == BillableUnit(g)
<1>2. ASSUME NEW g \in {e, f}
      PROVE  /\ g.key # None /\ g.scope = "shared" => unit(g) = << <<"shared", g.key>>, g.economic>>
             /\ g.key # None /\ g.scope = "source" =>
                  unit(g) = << <<"source", g.adapter, g.key>>, g.economic>>
             /\ g.key = None \/ g.scope = "unknown" => unit(g) = << <<"event", g.id>>, g.economic>>
  <2> DEFINE what == CASE g.key # None /\ g.scope = "shared" -> <<"shared", g.key>>
                       [] g.key # None /\ g.scope = "source" -> <<"source", g.adapter, g.key>>
                       [] OTHER -> <<"event", g.id>>
  <2>1. unit(g) = <<what, g.economic>>
    BY DEF BillableUnit
  <2>2. g.key # None /\ g.scope = "shared" => what = <<"shared", g.key>>
    OBVIOUS
  <2>3. g.key # None /\ g.scope = "source" => what = <<"source", g.adapter, g.key>>
    OBVIOUS
  <2>4. g.key = None \/ g.scope = "unknown" => what = <<"event", g.id>>
    OBVIOUS
  <2> QED  BY <2>1, <2>2, <2>3, <2>4
<1>3. SameUnit(e, f) => unit(e) = unit(f)
  BY <1>1, <1>2 DEF SameUnit
<1>4. ASSUME e.id # f.id, unit(e) = unit(f) PROVE SameUnit(e, f)
  <2>1. CASE e.key = None \/ e.scope = "unknown"
    BY <1>1, <1>2, <1>4, <2>1
  <2>2. CASE e.key # None /\ e.scope = "shared"
    BY <1>1, <1>2, <1>4, <2>2 DEF SameUnit
  <2>3. CASE e.key # None /\ e.scope = "source"
    BY <1>1, <1>2, <1>4, <2>3 DEF SameUnit
  <2> QED  BY <1>1, <2>1, <2>2, <2>3
<1> QED  BY <1>3, <1>4 DEF unit

\* An observation that another one beats is beaten in every larger index.
LEMMA BeatenStaysBeaten ==
  ASSUME NEW E, NEW F, E \subseteq F, NEW e \in Suppressed(E)
  PROVE  e \notin Selected(F)
<1>1. e \in Observations(E) /\ e \notin Selected(E)
  BY DEF Suppressed
<1>2. PICK f \in Observations(E) \ {e} :
        BillableUnit(f) = BillableUnit(e) /\ ~Before(Precedence(e), Precedence(f))
  BY <1>1 DEF Selected
<1>3. f \in Observations(F) \ {e}
  BY <1>2 DEF Observations
<1> QED  BY <1>2, <1>3 DEF Selected

\* What an index suppresses stays suppressed as it fills: _select_accounting
\* never returns to an amount that it has replaced.
THEOREM ReplacedForGood == LiveSpec => SuppressionIsFinal
<1>1. [LiveNext]_liveVars =>
        [\A e \in Suppressed(events) : e \notin Selected(events')]_vars
  <2> SUFFICES ASSUME [LiveNext]_liveVars,
                      NEW e \in Suppressed(events)
               PROVE  e \notin Selected(events')
    OBVIOUS
  <2> QED  BY EventsStay, BeatenStaysBeaten
<1> QED  BY <1>1, PTL DEF LiveSpec, SuppressionIsFinal

\* Python compares ids as texts, whichever events an index has.
IdsOrdered == \A a \in Archives : Ordered({e.id : e \in Tellable(a)})

LEMMA IdsOfIndex ==
  ASSUME IdsOrdered, IndexOK
  PROVE  \E ids : Ordered(ids) /\ \A e \in events : e.id \in ids
<1> DEFINE ids == {e.id : e \in Tellable(archive)}
<1>1. Ordered(ids)
  BY DEF IdsOrdered, IndexOK
<1>2. \A e \in events : e.id \in ids
  BY DEF IndexOK
<1> HIDE DEF ids
<1> QED  BY <1>1, <1>2

\* No billable unit is counted twice, and none is lost (SuppressedByBetter),
\* in every index and for every authority and key: the selection of
\* accounting.py has exactly one observation of each unit, the best one.
THEOREM BestIsSelected == IdsOrdered => (LiveSpec => []SuppressedByBetter)
<1> SUFFICES ASSUME IdsOrdered PROVE LiveSpec => []SuppressedByBetter
  OBVIOUS
<1>1. ASSUME IndexOK PROVE SuppressedByBetter
  <2> DEFINE observed == Observations(events)
             before(e, f) == Before(Precedence(e), Precedence(f))
  <2>1. PICK ids : Ordered(ids) /\ \A e \in events : e.id \in ids
    BY <1>1, IdsOfIndex
  <2>2. \A e \in events : e.id \in ids /\ WellFormed(e)
    BY <1>1, <2>1, IndexFinite
  <2>3. \A e, f \in events : e.id = f.id => e = f
    BY <1>1 DEF IndexOK, Consistent
  <2>4. /\ \A e \in events : ~before(e, e)
        /\ \A e, f, g \in events : before(e, f) /\ before(f, g) => before(e, g)
        /\ \A e, f \in events : e # f => before(e, f) \/ before(f, e)
    BY <2>1, <2>2, <2>3, PrecedenceOrders
  <2>5. observed \subseteq events /\ \A e \in observed : e.kind = "cost" /\ e.role # "rollup"
    BY DEF Observations
  <2>6. Selected(events) = {e \in observed : \A f \in observed \ {e} :
                              BillableUnit(f) = BillableUnit(e) => before(e, f)}
    BY DEF Selected
  <2>7. ASSUME NEW e \in Selected(events), NEW f \in Selected(events), e # f
        PROVE  ~SameUnit(e, f)
    <3>1. /\ e \in observed /\ f \in observed
          /\ BillableUnit(f) = BillableUnit(e) => before(e, f) /\ before(f, e)
      BY <2>6, <2>7
    <3>2. BillableUnit(f) # BillableUnit(e)
      <4> HIDE DEF before
      <4> QED  BY <2>4, <2>5, <3>1
    <3> HIDE DEF before, observed
    <3> QED  BY <2>2, <2>5, <3>1, <3>2, UnitsAreExact
  <2>8. ASSUME NEW e \in events \ Selected(events),
               e.kind = "cost", e.role # "rollup", e.amount # None
        PROVE  \E f \in Selected(events) : /\ SameUnit(e, f)
                                           /\ Settled(f) <= Settled(e)
                                           /\ Settled(f) = Settled(e) => Obtained(f) <= Obtained(e)
    <3> DEFINE S == {f \in observed : BillableUnit(f) = BillableUnit(e)}
               better == {w \in S \X S : before(w[1], w[2])}
    <3>1. e \in S /\ S \subseteq events /\ IsFiniteSet(S)
      <4>1. e \in observed
        BY <2>8 DEF Observations
      <4> QED  BY <1>1, <2>5, <4>1, IndexFinite, FS_Subset
    <3>2. \A f, g \in S : <<f, g>> \in better <=> before(f, g)
      OBVIOUS
    <3>3. PICK x \in S : \A y \in S : <<y, x>> \notin better
      <4> HIDE DEF S, better, before
      <4>1. \A y \in S : <<y, y>> \notin better
        BY <2>4, <3>1, <3>2
      <4>2. \A y, z, w \in S : <<y, z>> \in better /\ <<z, w>> \in better => <<y, w>> \in better
        BY <2>4, <3>1, <3>2
      <4> QED  BY <3>1, <4>1, <4>2, BestOf
    <3>4. \A y \in S \ {x} : before(x, y)
      <4> HIDE DEF S, better, before
      <4> QED  BY <2>4, <3>1, <3>2, <3>3
    <3>5. x \in Selected(events)
      <4> HIDE DEF before, better
      <4> QED  BY <2>6, <3>4
    <3>6. e # x /\ before(x, e) /\ e.id # x.id
      BY <2>3, <2>8, <3>1, <3>4, <3>5
    <3>7. SameUnit(e, x)
      <4>1. BillableUnit(e) = BillableUnit(x) /\ x.kind = "cost"
        BY <2>5
      <4> HIDE DEF before, S, better
      <4> QED  BY <2>2, <2>8, <3>1, <3>6, <4>1, UnitsAreExact
    <3>8. /\ Settled(x) <= Settled(e)
          /\ Settled(x) = Settled(e) => Obtained(x) <= Obtained(e)
      <4>1. x.kind = "cost" /\ x \in events
        BY <2>5
      <4> QED  BY <2>2, <2>8, <3>6, <4>1, BeforeIsBetter
    <3> QED  BY <3>5, <3>7, <3>8
  <2>9. \A e \in Selected(events) : e.role # "rollup"
    BY <2>5, <2>6
  <2> QED  BY <2>7, <2>8, <2>9 DEF SuppressedByBetter
<1> QED  BY <1>1, IndexHolds, PTL

-----------------------------------------------------------------------------
(* Attribution.                                                            *)

\* What attribution weighs for a cost, and the best of it.
Eligible(cost, E, R, candidates, edges) ==
  {c \in candidates : IsEligible(c, CallRoot(cost, E), Walks(Roots(cost, E), edges), R)}
TopOf(found) == {c \in found : \A d \in found : Rank(c) <= Rank(d)}

\* The record of a cost, case by case.
LEMMA AttributeIs ==
  ASSUME NEW cost, NEW E, NEW R, NEW candidates, NEW edges
  PROVE  LET r == Attribute(cost, E, R, candidates, edges)
             eligible == Eligible(cost, E, R, candidates, edges)
         IN  /\ r.cost = cost
             /\ Roots(cost, E) = {} \/ eligible = {} => r.state = "unallocated" /\ r.best = {}
             /\ Roots(cost, E) # {} /\ eligible # {} =>
                  /\ r.best = TopOf(eligible)
                  /\ Cardinality(TopOf(eligible)) = 1 => r.state = "attributed"
                  /\ Cardinality(TopOf(eligible)) # 1 => r.state = "ambiguous"
<1> DEFINE r == Attribute(cost, E, R, candidates, edges)
           roots == Roots(cost, E)
           walks == Walks(roots, edges)
           eligible == {c \in candidates : IsEligible(c, CallRoot(cost, E), walks, R)}
           top == {c \in eligible : \A d \in eligible : Rank(c) <= Rank(d)}
           reached == {c \in candidates : \E used \in BOOLEAN : <<c.ref, used>> \in walks}
           noRoot == Record(cost, "unallocated", "no-root-reference", {})
           noPath == Record(cost, "unallocated",
                            IF reached = {} THEN "no-outcome-path" ELSE "association-only", {})
           one == Record(cost, "attributed", "exact-directed-path", top)
           many == Record(cost, "ambiguous", "competing-outcomes", top)
<1>1. r = CASE roots = {} -> noRoot
            [] roots # {} /\ eligible = {} -> noPath
            [] roots # {} /\ Cardinality(top) = 1 -> one
            [] OTHER -> many
  BY Zenon DEF Attribute
<1>2. /\ noRoot.cost = cost /\ noRoot.state = "unallocated" /\ noRoot.best = {}
      /\ noPath.cost = cost /\ noPath.state = "unallocated" /\ noPath.best = {}
      /\ one.cost = cost /\ one.state = "attributed" /\ one.best = top
      /\ many.cost = cost /\ many.state = "ambiguous" /\ many.best = top
  <2> HIDE DEF top, reached
  <2> QED  BY DEF Record
<1>3. eligible = {} => Cardinality(top) # 1
  <2>1. eligible = {} => top = {}
    OBVIOUS
  <2> HIDE DEF top, eligible
  <2> QED  BY <2>1, FS_EmptySet
<1>4. Eligible(cost, E, R, candidates, edges) = eligible /\ TopOf(eligible) = top
  BY DEF Eligible, TopOf
<1> HIDE DEF r, roots, eligible, top, noRoot, noPath, one, many
<1>5. CASE roots = {}
  <2>1. r = noRoot
    BY <1>1, <1>3, <1>5, Zenon
  <2> QED  BY <1>2, <1>4, <1>5, <2>1 DEF r, roots
<1>6. CASE roots # {} /\ eligible = {}
  <2>1. r = noPath
    BY <1>1, <1>3, <1>6, Zenon
  <2> QED  BY <1>2, <1>4, <1>6, <2>1 DEF r, roots
<1>7. CASE roots # {} /\ eligible # {} /\ Cardinality(top) = 1
  <2>1. r = one
    BY <1>1, <1>7, Zenon
  <2> QED  BY <1>2, <1>4, <1>7, <2>1 DEF r, roots
<1>8. CASE roots # {} /\ eligible # {} /\ Cardinality(top) # 1
  <2>1. r = many
    BY <1>1, <1>8, Zenon
  <2> QED  BY <1>2, <1>4, <1>8, <2>1 DEF r, roots
<1> QED  BY <1>5, <1>6, <1>7, <1>8

\* The costs that have records, and what the records are.
LEMMA RecordsAre ==
  ASSUME NEW E, Consistent(E), NEW W \in SUBSET E, NEW X, NEW R
  PROVE  RecordsOf(E, X, R, W)
           = {Attribute(cost, E, R, Candidates(E, OutcomeTypes), Edges(X, R, E)) : cost \in Selected(W)}
<1>1. {e \in E : e.id \in {f.id : f \in W}} = W
  BY DEF Consistent
<1> QED  BY <1>1 DEF RecordsOf, Attributions

LEMMA RecordIs ==
  ASSUME NEW E, Consistent(E), NEW W \in SUBSET E, NEW X, NEW R, NEW r \in RecordsOf(E, X, R, W)
  PROVE  /\ r.cost \in Selected(W)
         /\ r = Attribute(r.cost, E, R, Candidates(E, OutcomeTypes), Edges(X, R, E))
<1>1. PICK k \in Selected(W) : r = Attribute(k, E, R, Candidates(E, OutcomeTypes), Edges(X, R, E))
  BY RecordsAre
<1>2. r.cost = k
  BY <1>1, AttributeIs
<1> QED  BY <1>1, <1>2

\* A window reports on fewer costs and says the same of each (WindowsAgree):
\* whatever is outside of it, a cost that the index selects is selected in
\* the window and attributed there to what it is attributed to in the index.
THEOREM WindowsShowTheSame == LiveSpec => []WindowsAgree
<1>1. ASSUME IndexOK PROVE WindowsAgree
  <2> SUFFICES ASSUME NEW W \in Windows, NEW r \in CurrentRecords, r.cost \in W
               PROVE  r \in RecordsOf(events, crosswalks, relations, W)
    BY DEF WindowsAgree
  <2> DEFINE of(cost) == Attribute(cost, events, relations, Candidates(events, OutcomeTypes),
                                   Edges(crosswalks, relations, events))
  <2>1. Consistent(events) /\ W \in SUBSET events /\ events \in SUBSET events
    BY <1>1 DEF IndexOK, Windows
  <2>2. /\ CurrentRecords = {of(cost) : cost \in Selected(events)}
        /\ RecordsOf(events, crosswalks, relations, W) = {of(cost) : cost \in Selected(W)}
    BY <2>1, RecordsAre DEF CurrentRecords
  <2>3. PICK cost \in Selected(events) : r = of(cost)
    BY <2>2
  <2>4. r.cost = cost
    BY <2>3, AttributeIs
  <2>5. cost \in W
    BY <2>4
  <2>6. cost \in Selected(W)
    BY <2>1, <2>3, <2>5 DEF Selected, Observations
  <2> HIDE DEF of
  <2> QED  BY <2>2, <2>3, <2>6
<1> QED  BY <1>1, IndexHolds, PTL

\* The steps that walks are made of, for a set of edges.
WalkSteps(edges) ==
  {<< <<e.from, used>>, <<e.to, used \/ e.supports>> >> : e \in edges, used \in BOOLEAN}
Hops(edges) == {<<e.from, e.to>> : e \in edges}

LEMMA StepsOfWalks ==
  ASSUME NEW edges, \A e \in edges : e.supports \in BOOLEAN
  PROVE  /\ \A e \in edges : <<e.from, e.to>> \in Hops(edges)
         /\ \A h \in Hops(edges) : \E e \in edges : h = <<e.from, e.to>>
         /\ \A e \in edges : << <<e.from, TRUE>>, <<e.to, TRUE>> >> \in WalkSteps(edges)
         /\ \A e \in edges : \A u \in BOOLEAN :
              e.supports => << <<e.from, u>>, <<e.to, TRUE>> >> \in WalkSteps(edges)
         /\ \A e \in edges : \A u \in BOOLEAN : \E v \in BOOLEAN :
              << <<e.from, u>>, <<e.to, v>> >> \in WalkSteps(edges)
         /\ \A s \in WalkSteps(edges) : \E e \in edges : \E u, v \in BOOLEAN :
              /\ s[1] = <<e.from, u>> /\ s[2] = <<e.to, v>>
              /\ v = TRUE => u = TRUE \/ e.supports
<1>1. \A e \in edges : <<e.from, e.to>> \in Hops(edges)
  BY DEF Hops
<1>2. \A h \in Hops(edges) : \E e \in edges : h = <<e.from, e.to>>
  BY DEF Hops
<1>3. ASSUME NEW e \in edges, NEW u \in BOOLEAN
      PROVE  << <<e.from, u>>, <<e.to, u \/ e.supports>> >> \in WalkSteps(edges)
  BY DEF WalkSteps
<1>4. ASSUME NEW e \in edges PROVE << <<e.from, TRUE>>, <<e.to, TRUE>> >> \in WalkSteps(edges)
  <2>1. (TRUE \/ e.supports) = TRUE
    OBVIOUS
  <2>2. << <<e.from, TRUE>>, <<e.to, TRUE \/ e.supports>> >> \in WalkSteps(edges)
    BY <1>3
  <2> QED  BY <2>1, <2>2
<1>5. ASSUME NEW e \in edges, NEW u \in BOOLEAN, e.supports
      PROVE  << <<e.from, u>>, <<e.to, TRUE>> >> \in WalkSteps(edges)
  <2>1. (u \/ e.supports) = TRUE
    BY <1>5
  <2>2. << <<e.from, u>>, <<e.to, u \/ e.supports>> >> \in WalkSteps(edges)
    BY <1>3
  <2> QED  BY <2>1, <2>2
<1>6. ASSUME NEW e \in edges, NEW u \in BOOLEAN
      PROVE  \E v \in BOOLEAN : << <<e.from, u>>, <<e.to, v>> >> \in WalkSteps(edges)
  <2>1. (u \/ e.supports) \in BOOLEAN
    OBVIOUS
  <2> QED  BY <1>3, <2>1
<1>7. ASSUME NEW s \in WalkSteps(edges)
      PROVE  \E e \in edges : \E u, v \in BOOLEAN :
               /\ s[1] = <<e.from, u>> /\ s[2] = <<e.to, v>>
               /\ v = TRUE => u = TRUE \/ e.supports
  <2>1. PICK e \in edges, u \in BOOLEAN : s = << <<e.from, u>>, <<e.to, u \/ e.supports>> >>
    BY <1>7 DEF WalkSteps
  <2> DEFINE v == u \/ e.supports
  <2>2. s[1] = <<e.from, u>> /\ s[2] = <<e.to, v>>
    BY <2>1
  <2>3. v \in BOOLEAN /\ (v = TRUE => u = TRUE \/ e.supports)
    OBVIOUS
  <2> HIDE DEF v
  <2> QED  BY <2>2, <2>3
<1> QED  BY <1>1, <1>2, <1>4, <1>5, <1>6, <1>7

\* There is a supported way to x of at most n hops.
SupportedWithin(roots, edges, x, n) ==
  \E e \in edges : /\ e.supports
                   /\ \E i, j \in Nat : /\ i + 1 + j <= n
                                        /\ e.from \in Reach(roots, Hops(edges))[i]
                                        /\ x \in Reach({e.to}, Hops(edges))[j]

\* Walks only end, with support, where a supported way does.
LEMMA WalksAreWays ==
  ASSUME NEW roots, NEW edges, \A e \in edges : e.supports \in BOOLEAN, NEW n \in Nat, NEW x
  PROVE  <<x, TRUE>> \in Reach(roots \X {FALSE}, WalkSteps(edges))[n]
           => SupportedWithin(roots, edges, x, n)
<1> DEFINE start == roots \X {FALSE}
           W == Reach(start, WalkSteps(edges))
           N == Reach(roots, Hops(edges))
           sound(w, m) == /\ w[1] \in N[m]
                          /\ w[2] = TRUE => SupportedWithin(roots, edges, w[1], m)
           T == {m \in Nat : \A w \in W[m] : sound(w, m)}
<1>1. /\ W[0] = start /\ N[0] = roots
      /\ \A m \in Nat : W[m + 1] = W[m] \cup Ahead(W[m], WalkSteps(edges))
      /\ \A m \in Nat : N[m] \subseteq N[m + 1]
  <2> HIDE DEF start
  <2> QED  BY ReachDef
<1>9. ASSUME NEW m \in Nat, NEW e \in edges, e.from \in N[m] PROVE e.to \in N[m + 1]
  <2>1. <<e.from, e.to>> \in Hops(edges)
    BY StepsOfWalks
  <2> QED  BY <1>9, <2>1, ReachStep
<1>2. ASSUME NEW m \in Nat, NEW y, SupportedWithin(roots, edges, y, m)
      PROVE  SupportedWithin(roots, edges, y, m + 1)
  <2>1. \A i, j \in Nat : i + 1 + j <= m => i + 1 + j <= m + 1
    OBVIOUS
  <2> QED  BY <1>2, <2>1 DEF SupportedWithin
<1>3. ASSUME NEW m \in Nat, NEW e \in edges, SupportedWithin(roots, edges, e.from, m)
      PROVE  SupportedWithin(roots, edges, e.to, m + 1)
  <2>1. PICK f \in edges : f.supports /\
          \E i, j \in Nat : /\ i + 1 + j <= m
                            /\ f.from \in Reach(roots, Hops(edges))[i]
                            /\ e.from \in Reach({f.to}, Hops(edges))[j]
    BY <1>3 DEF SupportedWithin
  <2>2. PICK i \in Nat, j \in Nat : /\ i + 1 + j <= m
                                    /\ f.from \in Reach(roots, Hops(edges))[i]
                                    /\ e.from \in Reach({f.to}, Hops(edges))[j]
    BY <2>1
  <2>3. e.to \in Reach({f.to}, Hops(edges))[j + 1]
    BY <2>2, StepsOfWalks, ReachStep
  <2>4. j + 1 \in Nat /\ i + 1 + (j + 1) <= m + 1
    BY <2>2
  <2> QED  BY <2>1, <2>2, <2>3, <2>4 DEF SupportedWithin
<1>4. ASSUME NEW m \in Nat, NEW e \in edges, e.supports, e.from \in N[m]
      PROVE  SupportedWithin(roots, edges, e.to, m + 1)
  <2>1. e.to \in Reach({e.to}, Hops(edges))[0]
    BY ReachStarts
  <2>2. m + 1 + 0 <= m + 1 /\ 0 \in Nat
    OBVIOUS
  <2> QED  BY <1>4, <2>1, <2>2 DEF SupportedWithin
<1> HIDE DEF W, N
<1>5. 0 \in T
  BY <1>1
<1>6. ASSUME NEW m \in Nat, m \in T PROVE m + 1 \in T
  <2> HIDE DEF sound
  <2> SUFFICES ASSUME NEW w \in W[m + 1] PROVE sound(w, m + 1)
    OBVIOUS
  <2> USE DEF sound
  <2>1. CASE w \in W[m]
    <3>1. w[1] \in N[m] /\ (w[2] = TRUE => SupportedWithin(roots, edges, w[1], m))
      BY <1>6, <2>1
    <3> QED  BY <1>1, <1>2, <3>1
  <2>2. CASE w \in Ahead(W[m], WalkSteps(edges))
    <3>1. PICK s \in WalkSteps(edges) : s[1] \in W[m] /\ w = s[2]
      BY <2>2 DEF Ahead
    <3>2. PICK e \in edges, u \in BOOLEAN, v \in BOOLEAN :
            /\ s[1] = <<e.from, u>> /\ s[2] = <<e.to, v>>
            /\ v = TRUE => u = TRUE \/ e.supports
      BY StepsOfWalks
    <3>3. <<e.from, u>> \in W[m] /\ <<e.from, u>>[1] = e.from /\ <<e.from, u>>[2] = u
      BY <3>1, <3>2
    <3>4. e.from \in N[m] /\ (u = TRUE => SupportedWithin(roots, edges, e.from, m))
      BY <1>6, <3>3
    <3>5. w[1] = e.to /\ w[2] = v
      BY <3>1, <3>2
    <3> QED  BY <1>3, <1>4, <1>9, <3>2, <3>4, <3>5
  <2> QED  BY <1>1, <2>1, <2>2
<1>7. n \in T
  <2> HIDE DEF T
  <2> QED  BY <1>5, <1>6, Induction
<1>8. <<x, TRUE>>[1] = x /\ <<x, TRUE>>[2] = TRUE
  OBVIOUS
<1> QED  BY <1>7, <1>8 DEF W

\* And they end, with support, wherever a supported way does.
LEMMA WaysAreWalked ==
  ASSUME NEW roots, NEW edges, \A e \in edges : e.supports \in BOOLEAN, NEW n \in Nat, NEW x,
         SupportedWithin(roots, edges, x, n)
  PROVE  <<x, TRUE>> \in Reach(roots \X {FALSE}, WalkSteps(edges))[n]
<1> DEFINE start == roots \X {FALSE}
           W == Reach(start, WalkSteps(edges))
           N == Reach(roots, Hops(edges))
           T == {m \in Nat : \A y \in N[m] : \E u \in BOOLEAN : <<y, u>> \in W[m]}
<1>1. /\ W[0] = start /\ N[0] = roots
      /\ \A m \in Nat : W[m] \subseteq W[m + 1]
      /\ \A m \in Nat : N[m + 1] = N[m] \cup Ahead(N[m], Hops(edges))
  <2> HIDE DEF start
  <2> QED  BY ReachDef
<1>12. \A m \in Nat : \A p, q : p \in W[m] /\ <<p, q>> \in WalkSteps(edges) => q \in W[m + 1]
  BY ReachStep
<1>2. PICK e \in edges : e.supports /\
        \E i, j \in Nat : /\ i + 1 + j <= n
                          /\ e.from \in N[i]
                          /\ x \in Reach({e.to}, Hops(edges))[j]
  BY DEF SupportedWithin
<1>3. PICK i \in Nat, j \in Nat : /\ i + 1 + j <= n
                                  /\ e.from \in N[i]
                                  /\ x \in Reach({e.to}, Hops(edges))[j]
  BY <1>2
<1> DEFINE H == Reach({e.to}, Hops(edges))
           ends(y, k) == <<y, TRUE>> \in W[(i + 1) + k]
           U == {k \in Nat : \A y \in H[k] : ends(y, k)}
<1>4. H[0] = {e.to} /\ \A m \in Nat : H[m + 1] = H[m] \cup Ahead(H[m], Hops(edges))
  BY ReachDef
<1>5. W[i + 1 + j] \subseteq W[n]
  BY <1>3, ReachGrows
<1> HIDE DEF W, N, H
<1>6. i \in T
  <2>1. 0 \in T
    BY <1>1
  <2>2. ASSUME NEW m \in Nat, m \in T PROVE m + 1 \in T
    <3> SUFFICES ASSUME NEW y \in N[m + 1] PROVE \E u \in BOOLEAN : <<y, u>> \in W[m + 1]
      OBVIOUS
    <3>1. CASE y \in N[m]
      BY <1>1, <2>2, <3>1
    <3>2. CASE y \in Ahead(N[m], Hops(edges))
      <4>1. PICK f \in edges : f.from \in N[m] /\ y = f.to
        <5>1. PICK s \in Hops(edges) : s[1] \in N[m] /\ y = s[2]
          BY <3>2 DEF Ahead
        <5>2. PICK f \in edges : s = <<f.from, f.to>>
          BY StepsOfWalks
        <5> QED  BY <5>1, <5>2
      <4>2. PICK u \in BOOLEAN : <<f.from, u>> \in W[m]
        BY <2>2, <4>1
      <4>3. PICK v \in BOOLEAN : << <<f.from, u>>, <<f.to, v>> >> \in WalkSteps(edges)
        BY StepsOfWalks
      <4> QED  BY <1>12, <4>1, <4>2, <4>3
    <3> QED  BY <1>1, <3>1, <3>2
  <2> HIDE DEF T
  <2> QED  BY <2>1, <2>2, Induction
<1>7. <<e.to, TRUE>> \in W[i + 1]
  <2>1. PICK u \in BOOLEAN : <<e.from, u>> \in W[i]
    BY <1>3, <1>6
  <2>2. << <<e.from, u>>, <<e.to, TRUE>> >> \in WalkSteps(edges)
    BY <1>2, StepsOfWalks
  <2> QED  BY <1>3, <1>12, <2>1, <2>2
<1>8. j \in U
  <2>1. 0 \in U
    <3>1. (i + 1) + 0 = i + 1
      OBVIOUS
    <3>2. \A y \in H[0] : <<y, TRUE>> \in W[i + 1]
      BY <1>4, <1>7
    <3> QED  BY <3>1, <3>2
  <2>2. ASSUME NEW k \in Nat, k \in U PROVE k + 1 \in U
    <3>1. (i + 1) + k \in Nat /\ (i + 1) + (k + 1) = ((i + 1) + k) + 1
      OBVIOUS
    <3> HIDE DEF ends
    <3> SUFFICES ASSUME NEW y \in H[k + 1] PROVE ends(y, k + 1)
      OBVIOUS
    <3> USE DEF ends
    <3>2. CASE y \in H[k]
      BY <1>1, <2>2, <3>1, <3>2
    <3>3. CASE y \in Ahead(H[k], Hops(edges))
      <4>1. PICK f \in edges : f.from \in H[k] /\ y = f.to
        <5>1. PICK s \in Hops(edges) : s[1] \in H[k] /\ y = s[2]
          BY <3>3 DEF Ahead
        <5>2. PICK f \in edges : s = <<f.from, f.to>>
          BY StepsOfWalks
        <5> QED  BY <5>1, <5>2
      <4>2. <<f.from, TRUE>> \in W[(i + 1) + k]
        BY <2>2, <4>1
      <4>3. << <<f.from, TRUE>>, <<f.to, TRUE>> >> \in WalkSteps(edges)
        BY StepsOfWalks
      <4> QED  BY <1>12, <3>1, <4>1, <4>2, <4>3
    <3> QED  BY <1>4, <3>2, <3>3
  <2> HIDE DEF U
  <2> QED  BY <2>1, <2>2, Induction
<1>9. x \in H[j]
  BY <1>3 DEF H
<1>10. <<x, TRUE>> \in W[(i + 1) + j]
  BY <1>8, <1>9
<1>11. <<x, TRUE>> \in W[n]
  BY <1>5, <1>10
<1> QED  BY <1>11 DEF W

\* _walk_graph finds exactly the supported ways.
LEMMA WalksFindWays ==
  ASSUME NEW roots, NEW edges, \A e \in edges : e.supports \in BOOLEAN, NEW ref
  PROVE  <<ref, TRUE>> \in Walks(roots, edges) <=> IsSupported(roots, ref, edges)
<1>1. Walks(roots, edges) = Reach(roots \X {FALSE}, WalkSteps(edges))[MaxDepth]
  BY DEF Walks, WalkSteps
<1>2. IsSupported(roots, ref, edges) <=> SupportedWithin(roots, edges, ref, MaxDepth)
  <2>1. \A i, j \in Nat : i + 1 + j <= MaxDepth => i \in 0..MaxDepth /\ j \in 0..MaxDepth
    BY MaxDepthAssumption
  <2>2. \A i \in 0..MaxDepth : i \in Nat
    OBVIOUS
  <2> QED  BY <2>1, <2>2 DEF IsSupported, SupportedWithin, Near, Hops
<1>3. MaxDepth \in Nat
  BY MaxDepthAssumption
<1>4. <<ref, TRUE>> \in Reach(roots \X {FALSE}, WalkSteps(edges))[MaxDepth]
        => SupportedWithin(roots, edges, ref, MaxDepth)
  BY <1>3, WalksAreWays
<1>5. SupportedWithin(roots, edges, ref, MaxDepth)
        => <<ref, TRUE>> \in Reach(roots \X {FALSE}, WalkSteps(edges))[MaxDepth]
  BY <1>3, WaysAreWalked
<1> QED  BY <1>1, <1>2, <1>4, <1>5

\* The call a Somm cost was reported of, if it is in the index.
IsCallOf(p, cost) ==
  p.id = cost.parent /\ p.kind = "model_call" /\ p.adapter = "somm"

LEMMA CallOfCost ==
  ASSUME IndexOK, NEW cost \in events, cost.kind = "cost",
         NEW p \in events, IsCallOf(p, cost)
  PROVE  /\ EventRef(p) = Ref("somm.call", p.native) /\ EventRef(p) # None
         /\ cost.adapter = "somm" => CallRoot(cost, events) = EventRef(p)
         /\ EventRef(p) \in Roots(cost, events)
<1>1. EventRef(p) = Ref("somm.call", p.native)
  <2>1. p.kind # "session" /\ p.kind = "model_call" /\ p.adapter = "somm"
    BY DEF IsCallOf
  <2> QED  BY <2>1, Zenon DEF EventRef
<1>2. EventRef(p) # None
  BY IndexFinite DEF IsCallOf
<1>3. cost.adapter = "somm" => CallRoot(cost, events) = EventRef(p)
  <2>1. \A q \in events : q.id = cost.parent => q = p
    BY DEF IsCallOf, IndexOK, Consistent
  <2>2. (CHOOSE q \in events : q.id = cost.parent) = p
    BY <2>1 DEF IsCallOf
  <2> QED  BY <2>2 DEF CallRoot, IsCallOf
<1>4. p \in Lineage(cost, events)
  <2> DEFINE up == UNION {{e.id} \X {e.parent, e.session} : e \in events}
             start == {cost.parent, cost.session}
             n == Cardinality(events)
  <2>1. n \in Nat
    BY IndexFinite
  <2>2. cost.parent \in Reach(start, up)[0]
    BY ReachStarts
  <2>3. Reach(start, up)[0] \subseteq Reach(start, up)[n]
    <3> HIDE DEF n, start, up
    <3> QED  BY <2>1, ReachGrows
  <2>4. p.id \in Reach(start, up)[n]
    BY <2>2, <2>3 DEF IsCallOf
  <2>5. p # cost
    BY DEF IsCallOf
  <2> HIDE DEF n, start, up
  <2>6. p \in {e \in events : e.id \in Reach(start, up)[n]} \ {cost}
    BY <2>4, <2>5
  <2> QED  BY <2>6 DEF Lineage, n, start, up
<1> QED  BY <1>1, <1>2, <1>3, <1>4 DEF Roots

LEMMA NoCallOfCost ==
  ASSUME NEW cost, ~(cost.adapter = "somm" /\ \E p \in events : IsCallOf(p, cost))
  PROVE  CallRoot(cost, events) = None
BY DEF CallRoot, IsCallOf

LEMMA EdgesSupport ==
  ASSUME NEW X, NEW R, NEW E PROVE \A e \in Edges(X, R, E) : e.supports \in BOOLEAN
<1>1. \A from, to : \A b \in BOOLEAN : Edge(from, to, b).supports \in BOOLEAN
  BY DEF Edge
<1>2. \A r : SupportsAttribution(r) \in BOOLEAN
  BY DEF SupportsAttribution
<1> DEFINE joins == UNION {{Edge(x.left, x.right, FALSE), Edge(x.right, x.left, FALSE)} : x \in X}
           related == UNION {{Edge(r.subject, r.object, SupportsAttribution(r)),
                              Edge(r.object, r.subject, SupportsAttribution(r))} : r \in R}
           tried == {Edge(Ref("fab.job", e.reference), Ref("fab.attempt", e.native), FALSE) :
                       e \in {f \in E : /\ f.kind = "outcome" /\ f.type = "fab.attempt"
                                        /\ f.reference # None}}
<1>3. Edges(X, R, E) = joins \cup related \cup tried
  BY DEF Edges
<1>4. \A e \in joins : e.supports \in BOOLEAN
  BY <1>1
<1>5. \A e \in related : e.supports \in BOOLEAN
  BY <1>1, <1>2
<1>6. \A e \in tried : e.supports \in BOOLEAN
  BY <1>1
<1> HIDE DEF joins, related, tried
<1> QED  BY <1>3, <1>4, <1>5, <1>6

\* An outcome is eligible exactly if it qualifies.
LEMMA EligibleIsQualified ==
  ASSUME IndexOK, NEW cost \in events, cost.kind = "cost", NEW c,
         NEW edges, \A e \in edges : e.supports \in BOOLEAN
  PROVE  /\ Qualifies(cost, c, edges)
              <=> IsEligible(c, CallRoot(cost, events), Walks(Roots(cost, events), edges), relations)
         /\ Qualifies(cost, c, edges) => Roots(cost, events) # {}
<1> DEFINE roots == Roots(cost, events)
           call == CallRoot(cost, events)
<1>1. CASE c.type # Barnowl
  <2>1. Qualifies(cost, c, edges) <=> IsSupported(roots, c.ref, edges)
    BY <1>1 DEF Qualifies
  <2>2. IsEligible(c, call, Walks(roots, edges), relations) <=> <<c.ref, TRUE>> \in Walks(roots, edges)
    BY <1>1 DEF IsEligible
  <2>3. IsSupported(roots, c.ref, edges) => roots # {}
    <3> SUFFICES ASSUME roots = {} PROVE ~IsSupported(roots, c.ref, edges)
      OBVIOUS
    <3>1. \A n \in Nat : Reach(roots, {<<e.from, e.to>> : e \in edges})[n] \subseteq {}
      BY ReachStaysIn
    <3>2. \A i \in 0..MaxDepth : i \in Nat
      OBVIOUS
    <3> QED  BY <3>1, <3>2 DEF IsSupported, Near
  <2> QED  BY <2>1, <2>2, <2>3, WalksFindWays
<1>2. CASE c.type = Barnowl
  <2> DEFINE receipt(r, p) == /\ r.predicate = "produced" /\ r.method = "source_receipt"
                              /\ r.subject = Ref("somm.call", p.native) /\ r.object = c.ref
                              /\ c.event \in r.evidence
  <2>1. Qualifies(cost, c, edges)
          <=> /\ cost.adapter = "somm"
              /\ \E p \in events, r \in relations : IsCallOf(p, cost) /\ receipt(r, p)
    BY <1>2 DEF Qualifies, IsCallOf
  <2>2. IsEligible(c, call, Walks(roots, edges), relations)
          <=> call # None /\ \E r \in relations : IsReceiptOf(r, call, c)
    BY <1>2 DEF IsEligible
  <2>3. \A p : Ref("somm.call", p.native).ns = "somm.call"
    BY DEF Ref
  <2>4. \A p \in events : \A r : call = Ref("somm.call", p.native) => (IsReceiptOf(r, call, c) <=> receipt(r, p))
    BY <2>3 DEF IsReceiptOf
  <2>5. CASE cost.adapter = "somm" /\ \E p \in events : IsCallOf(p, cost)
    <3>1. PICK p \in events : IsCallOf(p, cost)
      BY <2>5
    <3>2. call = Ref("somm.call", p.native) /\ call # None /\ roots # {}
      BY <2>5, <3>1, CallOfCost
    <3>3. \A q \in events : IsCallOf(q, cost) => q = p
      BY <3>1 DEF IsCallOf, IndexOK, Consistent
    <3> HIDE DEF call, roots, receipt
    <3>4. Qualifies(cost, c, edges) <=> \E r \in relations : receipt(r, p)
      BY <2>1, <2>5, <3>1, <3>3
    <3> QED  BY <2>2, <2>4, <3>2, <3>4 DEF call, roots
  <2>6. CASE ~(cost.adapter = "somm" /\ \E p \in events : IsCallOf(p, cost))
    BY <2>1, <2>2, <2>6, NoCallOfCost
  <2> QED  BY <2>5, <2>6
<1> QED  BY <1>1, <1>2

LEMMA RankIsNumber == \A c : Rank(c) \in Nat
<1>1. Len(OutcomePrecedence) = 5 /\ DOMAIN OutcomePrecedence = 1..Len(OutcomePrecedence)
  BY DEF OutcomePrecedence
<1> QED  BY <1>1, IndexOfFirst DEF Rank

\* Some outcome is of the best rank, if there is any.
LEMMA TopIsThere ==
  ASSUME NEW found, found # {} PROVE TopOf(found) # {}
<1> DEFINE ranks == {Rank(c) : c \in found}
<1>1. ranks \subseteq Nat /\ ranks # {}
  BY RankIsNumber
<1>2. PICK n \in ranks : \A m \in ranks : n <= m
  <2> HIDE DEF ranks
  <2> QED  BY <1>1, LeastOf
<1>3. PICK c \in found : n = Rank(c)
  BY <1>2
<1>4. c \in TopOf(found)
  BY <1>2, <1>3 DEF TopOf
<1> QED  BY <1>4

LEMMA CandidatesFinite ==
  ASSUME NEW E, IsFiniteSet(E), NEW types PROVE IsFiniteSet(Candidates(E, types))
<1> DEFINE candidate(e) == [type |-> CandidateRef(e).ns, ref |-> CandidateRef(e),
                            event |-> e.id, status |-> e.status]
           f == [e \in E |-> candidate(e)]
<1>1. Candidates(E, types) \subseteq {f[e] : e \in E}
  BY DEF Candidates
<1>2. IsFiniteSet({f[e] : e \in E})
  <2>1. f \in Surjection(E, {f[e] : e \in E})
    <3>1. DOMAIN f = E /\ f = [e \in E |-> f[e]]
      OBVIOUS
    <3> HIDE DEF f
    <3> QED  BY <3>1 DEF Surjection
  <2> HIDE DEF f
  <2> QED  BY <2>1, FS_Surjection
<1> QED  BY <1>1, <1>2, FS_Subset

\* A cost is attributed to an outcome exactly if no other one that qualifies is
\* of its rank or a better one (AttributionIsExact), in every index, whatever it
\* holds and however long the ways are that are followed: _attribute_cost and
\* _walk_graph decide what docs/outcome-attribution.md says.
THEOREM AttributionsAreExact == LiveSpec => []AttributionIsExact
<1>1. ASSUME IndexOK PROVE AttributionIsExact
  <2> DEFINE edges == Edges(crosswalks, relations, events)
             candidates == Candidates(events, OutcomeTypes)
             qualified(cost) == {c \in candidates : Qualifies(cost, c, edges)}
             top(cost) == {c \in qualified(cost) : \A d \in qualified(cost) : Rank(c) <= Rank(d)}
  <2>1. ASSUME NEW r \in CurrentRecords
        PROVE  /\ r.best = top(r.cost)
               /\ r.state = CASE Cardinality(top(r.cost)) = 0 -> "unallocated"
                              [] Cardinality(top(r.cost)) = 1 -> "attributed"
                              [] OTHER -> "ambiguous"
    <3> DEFINE eligible(cost) == Eligible(cost, events, relations, candidates, edges)
    <3>1. PICK cost \in Selected(events) : r = Attribute(cost, events, relations, candidates, edges)
      <4>1. Consistent(events) /\ events \in SUBSET events
        BY <1>1 DEF IndexOK
      <4> QED  BY <2>1, <4>1, RecordsAre DEF CurrentRecords
    <3>2. cost \in events /\ cost.kind = "cost" /\ r.cost = cost
      BY <3>1, AttributeIs DEF Selected, Observations
    <3>3. \A e \in edges : e.supports \in BOOLEAN
      BY EdgesSupport
    <3>4. eligible(cost) = qualified(cost)
      <4> HIDE DEF edges, candidates
      <4>1. \A c : Qualifies(cost, c, edges)
                     <=> IsEligible(c, CallRoot(cost, events), Walks(Roots(cost, events), edges), relations)
        BY <1>1, <3>2, <3>3, EligibleIsQualified
      <4> QED  BY <4>1 DEF Eligible
    <3>5. qualified(cost) # {} => Roots(cost, events) # {}
      <4> HIDE DEF edges, candidates
      <4> QED  BY <1>1, <3>2, <3>3, EligibleIsQualified
    <3>6. TopOf(qualified(cost)) = top(cost) /\ IsFiniteSet(top(cost))
      <4>1. IsFiniteSet(candidates)
        BY <1>1, IndexFinite, CandidatesFinite
      <4>2. top(cost) \subseteq candidates
        OBVIOUS
      <4> HIDE DEF candidates, edges
      <4> QED  BY <4>1, <4>2, FS_Subset DEF TopOf
    <3>7. /\ qualified(cost) = {} => r.state = "unallocated" /\ r.best = {}
          /\ qualified(cost) # {} =>
               /\ r.best = top(cost)
               /\ Cardinality(top(cost)) = 1 => r.state = "attributed"
               /\ Cardinality(top(cost)) # 1 => r.state = "ambiguous"
      <4> HIDE DEF candidates, edges, qualified, top
      <4> QED  BY <3>1, <3>4, <3>5, <3>6, AttributeIs
    <3>8. /\ qualified(cost) = {} => top(cost) = {}
          /\ qualified(cost) # {} => top(cost) # {}
      <4>1. qualified(cost) = {} => top(cost) = {}
        OBVIOUS
      <4>2. qualified(cost) # {} => top(cost) # {}
        <5> HIDE DEF qualified, top
        <5> QED  BY <3>6, TopIsThere
      <4> QED  BY <4>1, <4>2
    <3> HIDE DEF candidates, edges, qualified, top
    <3>9. CASE qualified(cost) = {}
      <4>1. Cardinality(top(cost)) = 0 /\ Cardinality(top(cost)) # 1
        BY <3>8, <3>9, FS_EmptySet
      <4>2. r.state = "unallocated" /\ r.best = top(cost)
        BY <3>7, <3>8, <3>9
      <4> QED  BY <3>2, <4>1, <4>2, Zenon
    <3>10. CASE qualified(cost) # {}
      <4>1. Cardinality(top(cost)) # 0
        BY <3>6, <3>8, <3>10, FS_EmptySet
      <4>2. CASE Cardinality(top(cost)) = 1
        <5>1. r.state = "attributed" /\ r.best = top(cost)
          BY <3>7, <3>10, <4>2
        <5> QED  BY <3>2, <4>1, <4>2, <5>1, Zenon
      <4>3. CASE Cardinality(top(cost)) # 1
        <5>1. r.state = "ambiguous" /\ r.best = top(cost)
          BY <3>7, <3>10, <4>3
        <5> QED  BY <3>2, <4>1, <4>3, <5>1, Zenon
      <4> QED  BY <4>2, <4>3
    <3> QED  BY <3>9, <3>10
  <2> QED  BY <2>1 DEF AttributionIsExact
<1> QED  BY <1>1, IndexHolds, PTL

\* What attribution reads only grows with the index.
LEMMA RootsGrow ==
  ASSUME NEW E, NEW F, E \subseteq F, IsFiniteSet(F), NEW cost
  PROVE  Roots(cost, E) \subseteq Roots(cost, F)
<1> DEFINE up(G) == UNION {{e.id} \X {e.parent, e.session} : e \in G}
           start == {cost.parent, cost.session}
<1>1. up(E) \subseteq up(F)
  OBVIOUS
<1>2. /\ Cardinality(E) \in Nat /\ Cardinality(F) \in Nat
      /\ Cardinality(E) <= Cardinality(F)
  BY FS_Subset, FS_CardinalityType
<1> HIDE DEF up, start
<1>3. Reach(start, up(E))[Cardinality(E)] \subseteq Reach(start, up(F))[Cardinality(E)]
  BY <1>1, <1>2, ReachMore
<1>4. Reach(start, up(F))[Cardinality(E)] \subseteq Reach(start, up(F))[Cardinality(F)]
  BY <1>2, ReachGrows
<1>5. /\ Lineage(cost, E) = {e \in E : e.id \in Reach(start, up(E))[Cardinality(E)]} \ {cost}
      /\ Lineage(cost, F) = {e \in F : e.id \in Reach(start, up(F))[Cardinality(F)]} \ {cost}
  BY DEF Lineage, up, start
<1>6. Lineage(cost, E) \subseteq Lineage(cost, F)
  BY <1>3, <1>4, <1>5
<1> QED  BY <1>6 DEF Roots

LEMMA EdgesGrow ==
  ASSUME NEW X, NEW R, NEW E, NEW Y, NEW S, NEW F,
         X \subseteq Y, R \subseteq S, E \subseteq F
  PROVE  Edges(X, R, E) \subseteq Edges(Y, S, F)
BY DEF Edges

LEMMA WalksGrow ==
  ASSUME NEW roots, NEW edges, NEW roots2, NEW edges2, roots \subseteq roots2, edges \subseteq edges2
  PROVE  Walks(roots, edges) \subseteq Walks(roots2, edges2)
<1> DEFINE start == roots \X {FALSE}
           start2 == roots2 \X {FALSE}
<1>1. start \subseteq start2
  OBVIOUS
<1>2. WalkSteps(edges) \subseteq WalkSteps(edges2)
  BY DEF WalkSteps
<1>3. /\ Walks(roots, edges) = Reach(start, WalkSteps(edges))[MaxDepth]
      /\ Walks(roots2, edges2) = Reach(start2, WalkSteps(edges2))[MaxDepth]
  BY DEF Walks, WalkSteps
<1> HIDE DEF start, start2
<1> QED  BY <1>1, <1>2, <1>3, MaxDepthAssumption, ReachMore

LEMMA CallRootStays ==
  ASSUME NEW E, NEW F, E \subseteq F, Consistent(F), NEW cost, CallRoot(cost, E) # None
  PROVE  CallRoot(cost, F) = CallRoot(cost, E)
<1>1. PICK p \in E : cost.adapter = "somm" /\ IsCallOf(p, cost)
  BY DEF CallRoot, IsCallOf
<1>2. \A q \in F : q.id = cost.parent => q = p
  BY <1>1 DEF IsCallOf, Consistent
<1>3. (CHOOSE q \in F : q.id = cost.parent) = p /\ (CHOOSE q \in E : q.id = cost.parent) = p
  BY <1>1, <1>2 DEF IsCallOf
<1> QED  BY <1>1, <1>3 DEF CallRoot, IsCallOf

-----------------------------------------------------------------------------
(* Candidates.                                                             *)

\* The outcomes of one reference, and which of two is told later.
OutcomesOf(ref, E) == {e \in E : e.kind = "outcome" /\ CandidateRef(e) = ref}
IsLater(e, f) == Before(<<f.at, f.id>>, <<e.at, e.id>>)

\* Pairs are compared from left to right.
LEMMA BeforePair ==
  ASSUME NEW a1, NEW a2, NEW b1, NEW b2
  PROVE  Before(<<a1, a2>>, <<b1, b2>>) <=> a1 < b1 \/ (a1 = b1 /\ a2 < b2)
<1> DEFINE a == <<a1, a2>>
           b == <<b1, b2>>
           at(i) == (\A j \in 1..(i - 1) : a[j] = b[j]) /\ a[i] < b[i]
<1>1. DOMAIN a = 1..2
  OBVIOUS
<1>2. Before(a, b) <=> at(1) \/ at(2)
  <2>1. Before(a, b) <=> \E i \in 1..2 : at(i)
    BY <1>1 DEF Before
  <2> HIDE DEF at
  <2>2. \A i \in 1..2 : i = 1 \/ i = 2
    OBVIOUS
  <2> QED  BY <2>1, <2>2
<1>3. at(1) <=> a1 < b1
  OBVIOUS
<1>4. at(2) <=> a1 = b1 /\ a2 < b2
  OBVIOUS
<1> HIDE DEF at
<1> QED  BY <1>2, <1>3, <1>4

\* Times have an order, as ids have.
LEMMA TimesOrdered == \A a \in Archives : Ordered({e.at : e \in Tellable(a)})
<1> SUFFICES ASSUME NEW a \in Archives PROVE Ordered({e.at : e \in Tellable(a)})
  OBVIOUS
<1> DEFINE times == {e.at : e \in Tellable(a)}
<1>1. \A t \in times : t \in Nat
  BY ArchivesAssumption DEF WellFormed
<1> HIDE DEF times
<1>2. Ordered(times)
  BY <1>1 DEF Ordered
<1> QED  BY <1>2 DEF times

\* An outcome that is in the index is a candidate, told by its latest event.
LEMMA OutcomesAreCandidates ==
  ASSUME IdsOrdered, NEW a \in Archives, NEW E \in SUBSET Tellable(a), Consistent(E),
         NEW ref, ref # None, NEW types, ref.ns \in types, OutcomesOf(ref, E) # {}
  PROVE  \E e \in OutcomesOf(ref, E) : \E c \in Candidates(E, types) :
           c.type = ref.ns /\ c.ref = ref /\ c.event = e.id
<1> DEFINE S == OutcomesOf(ref, E)
           later == {w \in S \X S : IsLater(w[1], w[2])}
           ids == {e.id : e \in Tellable(a)}
           times == {e.at : e \in Tellable(a)}
<1>1. S \subseteq E /\ IsFiniteSet(S) /\ S # {}
  <2>1. S \subseteq E
    BY DEF OutcomesOf
  <2> HIDE DEF S
  <2> QED  BY <2>1, ArchivesAssumption, FS_Subset DEF S
<1>2. Ordered(ids) /\ \A e \in E : e.id \in ids
  BY DEF IdsOrdered
<1>3. Ordered(times) /\ \A e \in E : e.at \in times
  BY TimesOrdered
<1> HIDE DEF ids, times
<1>4. \A e, f \in S : /\ IsLater(e, f) <=> f.at < e.at \/ (f.at = e.at /\ f.id < e.id)
                      /\ e.id \in ids /\ e.at \in times
  BY <1>1, <1>2, <1>3, BeforePair DEF IsLater
<1>5. \A x \in S : ~IsLater(x, x)
  <2> HIDE DEF S
  <2> QED  BY <1>2, <1>3, <1>4 DEF Ordered
<1>6. \A x, y, z \in S : IsLater(x, y) /\ IsLater(y, z) => IsLater(x, z)
  <2> HIDE DEF S
  <2> TAKE x \in S, y \in S, z \in S
  <2>1. /\ x.at \in times /\ y.at \in times /\ z.at \in times
        /\ x.id \in ids /\ y.id \in ids /\ z.id \in ids
    BY <1>4
  <2>2. /\ z.at < y.at /\ y.at < x.at => z.at < x.at
        /\ z.id < y.id /\ y.id < x.id => z.id < x.id
    BY <1>2, <1>3, <2>1 DEF Ordered
  <2>3. /\ IsLater(x, y) <=> y.at < x.at \/ (y.at = x.at /\ y.id < x.id)
        /\ IsLater(y, z) <=> z.at < y.at \/ (z.at = y.at /\ z.id < y.id)
        /\ IsLater(x, z) <=> z.at < x.at \/ (z.at = x.at /\ z.id < x.id)
    BY <1>4
  <2> QED  BY <2>2, <2>3
<1>7. \A x, y \in S : x # y => IsLater(x, y) \/ IsLater(y, x)
  <2> TAKE x \in S, y \in S
  <2>1. x # y => x.id # y.id
    BY <1>1 DEF Consistent
  <2> HIDE DEF S
  <2>2. /\ x.at \in times /\ y.at \in times
        /\ x.id \in ids /\ y.id \in ids
    BY <1>4
  <2>3. (x.at < y.at \/ x.at = y.at \/ y.at < x.at) /\ (x.id < y.id \/ x.id = y.id \/ y.id < x.id)
    BY <1>2, <1>3, <2>2 DEF Ordered
  <2>4. /\ IsLater(x, y) <=> y.at < x.at \/ (y.at = x.at /\ y.id < x.id)
        /\ IsLater(y, x) <=> x.at < y.at \/ (x.at = y.at /\ x.id < y.id)
    BY <1>4
  <2> QED  BY <2>1, <2>3, <2>4
<1>8. PICK e \in S : \A f \in S : <<f, e>> \notin later
  <2>1. \A f, g \in S : <<f, g>> \in later <=> IsLater(f, g)
    OBVIOUS
  <2> HIDE DEF S, later
  <2>2. \A x \in S : <<x, x>> \notin later
    BY <1>5, <2>1
  <2>3. \A x, y, z \in S : <<x, y>> \in later /\ <<y, z>> \in later => <<x, z>> \in later
    BY <1>6, <2>1
  <2> QED  BY <1>1, <2>2, <2>3, BestOf
<1>9. \A f \in S \ {e} : IsLater(e, f)
  <2>1. \A f \in S : ~IsLater(f, e)
    BY <1>8
  <2> HIDE DEF S, later
  <2> QED  BY <1>7, <2>1
<1> DEFINE c == [type |-> CandidateRef(e).ns, ref |-> CandidateRef(e), event |-> e.id, status |-> e.status]
<1>10. c \in Candidates(E, types)
  <2>1. e \in E /\ e.kind = "outcome" /\ CandidateRef(e) = ref
    BY DEF OutcomesOf
  <2>2. \A f \in E \ {e} : f.kind = "outcome" /\ CandidateRef(f) = ref => IsLater(e, f)
    BY <1>9 DEF OutcomesOf
  <2> QED  BY <2>1, <2>2 DEF Candidates, IsLater
<1>11. c.type = ref.ns /\ c.ref = ref /\ c.event = e.id
  BY DEF OutcomesOf
<1> QED  BY <1>10, <1>11

\* What a candidate is made of.
LEMMA CandidatesAreOutcomes ==
  ASSUME NEW E, NEW types, NEW c \in Candidates(E, types)
  PROVE  /\ c.ref # None /\ c.ref.ns \in types /\ c.type = c.ref.ns
         /\ \E e \in OutcomesOf(c.ref, E) : c.event = e.id
<1>1. PICK e \in E :
        /\ e.kind = "outcome" /\ CandidateRef(e) # None /\ CandidateRef(e).ns \in types
        /\ c = [type |-> CandidateRef(e).ns, ref |-> CandidateRef(e), event |-> e.id, status |-> e.status]
  BY DEF Candidates
<1>2. c.type = CandidateRef(e).ns /\ c.ref = CandidateRef(e) /\ c.event = e.id
  BY <1>1
<1> QED  BY <1>1, <1>2 DEF OutcomesOf

\* An outcome of Barnowl is of one event.
LEMMA OneBarnowlEvent ==
  ASSUME NEW a \in Archives, NEW ref, ref # None, ref.ns = Barnowl,
         NEW e \in OutcomesOf(ref, Tellable(a)), NEW f \in OutcomesOf(ref, Tellable(a))
  PROVE  e.id = f.id
<1>1. ASSUME NEW g, CandidateRef(g) = ref
      PROVE  g.type = Barnowl /\ g.reference = ref.value
  <2>1. \/ ref = Ref("git.commit", g.reference)
        \/ ref = Ref("george.entry", g.native)
        \/ ref = Ref("fab.job", g.reference)
        \/ ref = Ref("fab.attempt", g.native)
        \/ ref = Ref(Barnowl, g.reference) /\ g.type = Barnowl
    BY <1>1, Zenon DEF CandidateRef
  <2> QED  BY <2>1 DEF Ref, Barnowl
<1>2. /\ e \in Tellable(a) /\ e.kind = "outcome" /\ CandidateRef(e) = ref
      /\ f \in Tellable(a) /\ f.kind = "outcome" /\ CandidateRef(f) = ref
  BY DEF OutcomesOf
<1> QED  BY <1>1, <1>2, ArchivesAssumption

-----------------------------------------------------------------------------
(* More evidence.                                                          *)

\* An eligible outcome stays eligible, told by whichever event, if there is
\* more of everything.
LEMMA EligibleStays ==
  ASSUME NEW E, NEW F, E \subseteq F, IsFiniteSet(F), Consistent(F),
         NEW X, NEW Y, X \subseteq Y, NEW R, NEW S, R \subseteq S, NEW cost,
         NEW c, NEW d, d.ref = c.ref, d.type = c.type, c.type = Barnowl => d.event = c.event,
         IsEligible(c, CallRoot(cost, E), Walks(Roots(cost, E), Edges(X, R, E)), R)
  PROVE  IsEligible(d, CallRoot(cost, F), Walks(Roots(cost, F), Edges(Y, S, F)), S)
<1>1. CASE c.type # Barnowl
  <2>1. <<c.ref, TRUE>> \in Walks(Roots(cost, E), Edges(X, R, E))
    BY <1>1 DEF IsEligible
  <2>2. Walks(Roots(cost, E), Edges(X, R, E)) \subseteq Walks(Roots(cost, F), Edges(Y, S, F))
    BY RootsGrow, EdgesGrow, WalksGrow
  <2> QED  BY <1>1, <2>1, <2>2 DEF IsEligible
<1>2. CASE c.type = Barnowl
  <2>1. CallRoot(cost, E) # None /\ \E r \in R : IsReceiptOf(r, CallRoot(cost, E), c)
    BY <1>2 DEF IsEligible
  <2>2. CallRoot(cost, F) = CallRoot(cost, E)
    BY <2>1, CallRootStays
  <2>3. \E r \in S : IsReceiptOf(r, CallRoot(cost, F), d)
    BY <1>2, <2>1, <2>2 DEF IsReceiptOf
  <2> QED  BY <1>2, <2>1, <2>2, <2>3 DEF IsEligible
<1> QED  BY <1>1, <1>2

LEMMA ArchiveStays == [LiveNext]_liveVars => archive' = archive
BY DEF LiveNext, Next, AppendEvent, AppendCrosswalk, AppendRelation, Refute, Grow, Scan, liveVars, vars

\* More evidence never un-attributes (EvidenceOnlyAdds): whatever an index is
\* filled with, unless a link is refuted, a cost that has outcomes keeps one of
\* that rank or finds better ones in every later projection.
THEOREM EvidenceAdds == IdsOrdered => (LiveSpec => EvidenceOnlyAdds)
<1> SUFFICES ASSUME IdsOrdered PROVE LiveSpec => EvidenceOnlyAdds
  OBVIOUS
<1> DEFINE keeps(r, E, X, R) ==
             \A s \in RecordsOf(E, X, R, E) :
                r.cost = s.cost => \A c \in r.best : \E d \in s.best : Rank(d) <= Rank(c)
           adds == refuted' = refuted =>
                     \A r \in CurrentRecords :
                     \A E \in {events'}, X \in {crosswalks'}, R \in {relations'} : keeps(r, E, X, R)
<1>1. ASSUME IndexOK, [LiveNext]_liveVars, IndexOK'
      PROVE  adds
  <2> SUFFICES ASSUME refuted' = refuted, NEW r \in CurrentRecords,
                      NEW E, E = events', NEW X, X = crosswalks', NEW R, R = relations',
                      NEW s \in RecordsOf(E, X, R, E), r.cost = s.cost,
                      NEW c \in r.best
               PROVE  \E d \in s.best : Rank(d) <= Rank(c)
    OBVIOUS
  <2> DEFINE cost == r.cost
             before == Edges(crosswalks, relations, events)
             after == Edges(X, R, E)
             found == Eligible(cost, events, relations, Candidates(events, OutcomeTypes), before)
             now2 == Eligible(cost, E, R, Candidates(E, OutcomeTypes), after)
  <2>1. events \subseteq E /\ crosswalks \subseteq X /\ relations \subseteq R
    BY <1>1, EventsStay, LinksStay
  <2>2. /\ archive \in Archives /\ E \in SUBSET Tellable(archive)
        /\ Consistent(events) /\ Consistent(E) /\ IsFiniteSet(E)
    <3>1. archive \in Archives /\ archive' = archive
      BY <1>1, ArchiveStays DEF IndexOK
    <3>2. E \in SUBSET Tellable(archive) /\ Consistent(events) /\ Consistent(E)
      BY <1>1, <3>1 DEF IndexOK
    <3> QED  BY <3>1, <3>2, ArchivesAssumption, FS_Subset
  <2>3. r = Attribute(cost, events, relations, Candidates(events, OutcomeTypes), before)
    <3>1. events \in SUBSET events
      OBVIOUS
    <3> QED  BY <2>2, <3>1, RecordIs DEF CurrentRecords
  <2>4. s = Attribute(cost, E, R, Candidates(E, OutcomeTypes), after)
    <3>1. E \in SUBSET E
      OBVIOUS
    <3> QED  BY <2>2, <3>1, RecordIs
  <2>5. Roots(cost, events) # {} /\ found # {} /\ c \in TopOf(found) /\ c \in found
    <3> HIDE DEF found, before
    <3>1. Roots(cost, events) # {} /\ found # {} /\ c \in TopOf(found)
      BY <2>3, AttributeIs DEF found
    <3> QED  BY <3>1 DEF TopOf
  <2>6. /\ c \in Candidates(events, OutcomeTypes)
        /\ IsEligible(c, CallRoot(cost, events), Walks(Roots(cost, events), before), relations)
    BY <2>5 DEF Eligible
  <2>7. PICK e \in OutcomesOf(c.ref, events) :
          /\ c.event = e.id
          /\ c.ref # None /\ c.ref.ns \in OutcomeTypes /\ c.type = c.ref.ns
    BY <2>6, CandidatesAreOutcomes
  <2>8. PICK f \in OutcomesOf(c.ref, E), d \in Candidates(E, OutcomeTypes) :
          /\ d.type = c.ref.ns /\ d.ref = c.ref /\ d.event = f.id
          /\ c.type = Barnowl => d.event = c.event
    <3>1. e \in OutcomesOf(c.ref, E)
      BY <2>1 DEF OutcomesOf
    <3>2. PICK f \in OutcomesOf(c.ref, E), d \in Candidates(E, OutcomeTypes) :
            d.type = c.ref.ns /\ d.ref = c.ref /\ d.event = f.id
      BY <2>2, <2>7, <3>1, OutcomesAreCandidates
    <3>3. \A g \in OutcomesOf(c.ref, E) : g \in OutcomesOf(c.ref, Tellable(archive))
      BY <2>2 DEF OutcomesOf
    <3>4. c.type = Barnowl => e.id = f.id
      BY <2>2, <2>7, <3>1, <3>3, OneBarnowlEvent
    <3> QED  BY <2>7, <3>2, <3>4
  <2>9. d \in now2
    <3>1. IsEligible(d, CallRoot(cost, E), Walks(Roots(cost, E), after), R)
      <4>1. d.ref = c.ref /\ d.type = c.type /\ (c.type = Barnowl => d.event = c.event)
        BY <2>7, <2>8
      <4> HIDE DEF cost
      <4> QED  BY <2>1, <2>2, <2>6, <4>1, EligibleStays
    <3> QED  BY <2>8, <3>1 DEF Eligible
  <2>10. Roots(cost, E) # {}
    <3> HIDE DEF cost
    <3> QED  BY <2>1, <2>2, <2>5, RootsGrow
  <2>11. s.best = TopOf(now2) /\ now2 # {}
    <3> HIDE DEF now2, after
    <3> QED  BY <2>4, <2>9, <2>10, AttributeIs DEF now2
  <2>12. PICK x \in TopOf(now2) : TRUE
    <3> HIDE DEF now2
    <3> QED  BY <2>11, TopIsThere
  <2>13. x \in s.best /\ Rank(x) <= Rank(d)
    <3> HIDE DEF now2
    <3> QED  BY <2>9, <2>11, <2>12 DEF TopOf
  <2>14. Rank(d) = Rank(c)
    BY <2>7, <2>8 DEF Rank
  <2> QED  BY <2>13, <2>14
<1> QED  BY <1>1, IndexHolds, IndexStep, PTL DEF LiveSpec, EvidenceOnlyAdds

-----------------------------------------------------------------------------
(* Activity.                                                               *)

\* A traversal takes the steps of the relations it follows.
LEMMA FollowedAreWays ==
  ASSUME NEW R, NEW direction \in {"outgoing", "incoming", "both"}
  PROVE  /\ \A s \in Ways(direction, R) :
              \E r \in Followed(s[1], direction, R) : s[2] \in {r.subject, r.object}
         /\ \A ref : \A r \in Followed(ref, direction, R) :
              \/ r.subject = ref /\ <<ref, r.object>> \in Ways(direction, R)
              \/ r.object = ref /\ <<ref, r.subject>> \in Ways(direction, R)
<1> DEFINE forth == {<<r.subject, r.object>> : r \in R}
           back == {<<s[2], s[1]>> : s \in forth}
<1>1. /\ direction = "outgoing" => Ways(direction, R) = forth
      /\ direction = "incoming" => Ways(direction, R) = back
      /\ direction = "both" => Ways(direction, R) = forth \cup back
  <2>1. CASE direction = "outgoing"
    BY <2>1 DEF Ways
  <2>2. CASE direction = "incoming"
    BY <2>2 DEF Ways
  <2>3. CASE direction = "both"
    BY <2>3 DEF Ways, BothWays
  <2> QED  BY <2>1, <2>2, <2>3
<1>2. /\ direction = "outgoing" => \A ref : Followed(ref, direction, R) = {r \in R : r.subject = ref}
      /\ direction = "incoming" => \A ref : Followed(ref, direction, R) = {r \in R : r.object = ref}
      /\ direction = "both" => \A ref : Followed(ref, direction, R)
                                          = {r \in R : r.subject = ref \/ r.object = ref}
  BY DEF Followed, Outgoing, Incoming
<1>3. \A s \in forth : \E r \in R : s = <<r.subject, r.object>> /\ s[1] = r.subject /\ s[2] = r.object
  OBVIOUS
<1>4. \A s \in back : \E r \in R : s[1] = r.object /\ s[2] = r.subject
  OBVIOUS
<1>5. \A r \in R : <<r.subject, r.object>> \in forth /\ <<r.object, r.subject>> \in back
  <2>1. ASSUME NEW r \in R PROVE <<r.subject, r.object>> \in forth /\ <<r.object, r.subject>> \in back
    <3> DEFINE s == <<r.subject, r.object>>
    <3>1. s \in forth /\ s[1] = r.subject /\ s[2] = r.object
      OBVIOUS
    <3>2. <<s[2], s[1]>> \in back
      BY <3>1
    <3> QED  BY <3>1, <3>2
  <2> QED  BY <2>1
<1> HIDE DEF forth, back
<1>6. direction = "outgoing" \/ direction = "incoming" \/ direction = "both"
  OBVIOUS
<1>7. ASSUME NEW s \in Ways(direction, R)
      PROVE  \E r \in Followed(s[1], direction, R) : s[2] \in {r.subject, r.object}
  <2>1. CASE direction = "outgoing"
    <3>1. PICK r \in R : s[1] = r.subject /\ s[2] = r.object
      BY <1>1, <1>3, <1>7, <2>1
    <3> QED  BY <1>2, <2>1, <3>1
  <2>2. CASE direction = "incoming"
    <3>1. PICK r \in R : s[1] = r.object /\ s[2] = r.subject
      BY <1>1, <1>4, <1>7, <2>2
    <3> QED  BY <1>2, <2>2, <3>1
  <2>3. CASE direction = "both"
    <3>1. PICK r \in R : \/ s[1] = r.subject /\ s[2] = r.object
                         \/ s[1] = r.object /\ s[2] = r.subject
      BY <1>1, <1>3, <1>4, <1>7, <2>3
    <3> QED  BY <1>2, <2>3, <3>1
  <2> QED  BY <1>6, <2>1, <2>2, <2>3
<1>8. ASSUME NEW ref, NEW r \in Followed(ref, direction, R)
      PROVE  \/ r.subject = ref /\ <<ref, r.object>> \in Ways(direction, R)
             \/ r.object = ref /\ <<ref, r.subject>> \in Ways(direction, R)
  <2>1. CASE direction = "outgoing"
    <3>1. r \in R /\ r.subject = ref
      BY <1>2, <1>8, <2>1
    <3>2. <<ref, r.object>> \in forth
      BY <1>5, <3>1
    <3> QED  BY <1>1, <2>1, <3>1, <3>2
  <2>2. CASE direction = "incoming"
    <3>1. r \in R /\ r.object = ref
      BY <1>2, <1>8, <2>2
    <3>2. <<ref, r.subject>> \in back
      BY <1>5, <3>1
    <3> QED  BY <1>1, <2>2, <3>1, <3>2
  <2>3. CASE direction = "both"
    <3>1. r \in R /\ (r.subject = ref \/ r.object = ref)
      BY <1>2, <1>8, <2>3
    <3>2. /\ r.subject = ref => <<ref, r.object>> \in forth
          /\ r.object = ref => <<ref, r.subject>> \in back
      BY <1>5, <3>1
    <3> QED  BY <1>1, <2>3, <3>1, <3>2
  <2> QED  BY <1>6, <2>1, <2>2, <2>3
<1> QED  BY <1>7, <1>8

LEMMA TraversalHolds == TraversalIsClosed
<1> DEFINE closed(found, root) ==
             /\ ReferencesOf(found.relations) \subseteq found.refs
             /\ found.refs \subseteq {root} \cup ReferencesOf(found.relations)
<1> SUFFICES \A root : \A direction \in {"outgoing", "incoming", "both"} : \A d \in Nat :
               closed(TraverseRelations(root, direction, d, relations), root)
  <2>1. \A d \in 0..MaxDepth : d \in Nat
    BY MaxDepthAssumption
  <2> QED  BY <2>1, Zenon DEF TraversalIsClosed
<1> TAKE root
<1> TAKE direction \in {"outgoing", "incoming", "both"}
<1> TAKE d \in Nat
<1> DEFINE ways == Ways(direction, relations)
           r == Reach({root}, ways)
           met(n) == UNION {Followed(ref, direction, relations) : ref \in r[n]}
           told(n) == IF n = 0 THEN {} ELSE met(n - 1)
           T == {n \in Nat : r[n] \subseteq {root} \cup ReferencesOf(told(n))}
<1>1. LET found == TraverseRelations(root, direction, d, relations)
      IN  found.refs = r[d] /\ found.relations = told(d)
  BY DEF TraverseRelations
<1>2. /\ r[0] = {root}
      /\ \A n \in Nat : r[n + 1] = r[n] \cup Ahead(r[n], ways)
      /\ \A n \in Nat : \A x, y : x \in r[n] /\ <<x, y>> \in ways => y \in r[n + 1]
  BY ReachDef, ReachStep
<1>3. /\ \A s \in ways : \E l \in Followed(s[1], direction, relations) : s[2] \in {l.subject, l.object}
      /\ \A ref : \A l \in Followed(ref, direction, relations) :
              \/ l.subject = ref /\ <<ref, l.object>> \in ways
              \/ l.object = ref /\ <<ref, l.subject>> \in ways
  BY FollowedAreWays
<1> HIDE DEF r, ways
<1>4. ASSUME NEW n \in Nat PROVE ReferencesOf(met(n)) \subseteq r[n + 1]
  <2>1. ASSUME NEW ref \in r[n], NEW l \in Followed(ref, direction, relations)
        PROVE  l.subject \in r[n + 1] /\ l.object \in r[n + 1]
    <3>1. ref \in r[n + 1]
      BY <1>2
    <3>2. \/ l.subject = ref /\ <<ref, l.object>> \in ways
          \/ l.object = ref /\ <<ref, l.subject>> \in ways
      BY <1>3
    <3>3. \A y : <<ref, y>> \in ways => y \in r[n + 1]
      BY <1>2
    <3> QED  BY <3>1, <3>2, <3>3
  <2> QED  BY <2>1 DEF ReferencesOf
<1>5. ReferencesOf(told(d)) \subseteq r[d]
  <2>1. CASE d = 0
    BY <2>1 DEF ReferencesOf
  <2>2. CASE d # 0
    <3>1. d - 1 \in Nat /\ (d - 1) + 1 = d
      BY <2>2
    <3> HIDE DEF met
    <3>2. told(d) = met(d - 1)
      BY <2>2
    <3> QED  BY <1>4, <3>1, <3>2
  <2> QED  BY <2>1, <2>2
<1>6. 0 \in T
  BY <1>2
<1>7. ASSUME NEW n \in Nat, n \in T PROVE n + 1 \in T
  <2>1. told(n + 1) = met(n)
    <3>1. n + 1 # 0 /\ (n + 1) - 1 = n
      OBVIOUS
    <3> HIDE DEF met
    <3> QED  BY <3>1
  <2>2. ReferencesOf(told(n)) \subseteq ReferencesOf(met(n))
    <3>1. CASE n = 0
      BY <3>1 DEF ReferencesOf
    <3>2. CASE n # 0
      <4>1. n - 1 \in Nat /\ (n - 1) + 1 = n
        BY <3>2
      <4>2. r[n - 1] \subseteq r[n]
        BY <1>2, <4>1
      <4>3. told(n) = met(n - 1)
        <5> HIDE DEF met
        <5> QED  BY <3>2
      <4>4. met(n - 1) \subseteq met(n)
        BY <4>2
      <4> HIDE DEF met, told
      <4> QED  BY <4>3, <4>4 DEF ReferencesOf
    <3> QED  BY <3>1, <3>2
  <2>3. Ahead(r[n], ways) \subseteq ReferencesOf(met(n))
    <3> SUFFICES ASSUME NEW s \in ways, s[1] \in r[n] PROVE s[2] \in ReferencesOf(met(n))
      BY DEF Ahead
    <3>1. PICK l \in Followed(s[1], direction, relations) : s[2] \in {l.subject, l.object}
      BY <1>3
    <3>2. l \in met(n)
      BY <3>1
    <3> HIDE DEF met
    <3> QED  BY <3>1, <3>2 DEF ReferencesOf
  <2>4. r[n] \subseteq {root} \cup ReferencesOf(told(n))
    BY <1>7
  <2> HIDE DEF met, told
  <2>5. r[n + 1] \subseteq {root} \cup ReferencesOf(told(n + 1))
    BY <1>2, <2>1, <2>2, <2>3, <2>4
  <2> QED  BY <2>5
<1>8. r[d] \subseteq {root} \cup ReferencesOf(told(d))
  <2> HIDE DEF T
  <2>1. Nat \subseteq T
    BY <1>6, <1>7, Induction
  <2> QED  BY <2>1 DEF T
<1> HIDE DEF told
<1> QED  BY <1>1, <1>5, <1>8

\* What a traversal reports hangs together (TraversalIsClosed), for every set of
\* relations, every root and every depth: traverse_relations reports both ends
\* of every relation, and a relation for every reference but the root.
THEOREM TraversalsAreClosed == LiveSpec => []TraversalIsClosed
BY TraversalHolds, PTL

\* The session namespaces and their adapters are one to one, also in the map from
\* references to events.
LEMMA SessionNamespaces ==
  ASSUME NEW a, SessionNamespace(a) # None
  PROVE  /\ <<SessionNamespace(a), a, "session">> \in EventMap
         /\ \A b, k : <<SessionNamespace(a), b, k>> \in EventMap => b = a /\ k = "session"
<1> DEFINE ns == SessionNamespace(a)
<1>1. \/ a = "claude-code" /\ ns = "claude-code.session"
      \/ a = "codex" /\ ns = "codex.session"
      \/ a = "fab" /\ ns = "fab.job"
      \/ a = "hermes" /\ ns = "hermes.session"
      \/ a = "opencode" /\ ns = "opencode.session"
      \/ a = "somm" /\ ns = "somm.session"
  BY Zenon DEF SessionNamespace
<1> HIDE DEF ns
<1>2. <<ns, a, "session">> \in EventMap
  BY <1>1 DEF EventMap
<1>3. ASSUME NEW b, NEW k, <<ns, b, k>> \in EventMap PROVE b = a /\ k = "session"
  BY <1>1, <1>3 DEF EventMap
<1> QED  BY <1>2, <1>3 DEF ns

\* The session of a reference is a seed of it, stored or not.
LEMMA SessionIsSeed ==
  ASSUME IndexOK, NEW s, WellFormed(s), s.kind = "session", EventRef(s) # None
  PROVE  s.id \in Seeds(EventRef(s), events)
<1> DEFINE ns == SessionNamespace(s.adapter)
           ref == Ref(ns, s.native)
<1>1. ns # None /\ EventRef(s) = ref
  <2>1. CASE ns # None
    BY <2>1, Zenon DEF EventRef
  <2>2. CASE ns = None
    BY <2>2, Zenon DEF EventRef
  <2> QED  BY <2>1, <2>2
<1>2. ref.ns = ns /\ ref.value = s.native
  <2> HIDE DEF ns
  <2> QED  BY DEF Ref
<1>3. /\ <<ns, s.adapter, "session">> \in EventMap
      /\ \A b, k : <<ns, b, k>> \in EventMap => b = s.adapter /\ k = "session"
  BY <1>1, SessionNamespaces
<1>4. s.id = EventId(s.adapter, "session", s.native)
  BY DEF WellFormed
<1> HIDE DEF ns, ref
<1>5. CASE EventsForRef(ref, events) # {}
  <2>1. PICK f \in EventsForRef(ref, events) : TRUE
    BY <1>5
  <2>2. f \in events /\ <<ns, f.adapter, f.kind>> \in EventMap /\ f.native = s.native
    BY <1>2, <2>1 DEF EventsForRef
  <2>3. f.id = EventId(s.adapter, "session", s.native)
    <3>1. WellFormed(f) /\ f.adapter = s.adapter /\ f.kind = "session"
      BY <1>3, <2>2, IndexFinite
    <3> QED  BY <2>2, <3>1 DEF WellFormed
  <2> QED  BY <1>1, <1>4, <1>5, <2>1, <2>3 DEF Seeds
<1>6. CASE EventsForRef(ref, events) = {}
  <2> DEFINE m == <<ns, s.adapter, "session">>
             sessions == {n \in EventMap : n[1] = ref.ns /\ n[3] = "session"}
  <2>1. m \in sessions /\ m[2] = s.adapter
    BY <1>2, <1>3
  <2>2. Seeds(ref, events) = {EventId(n[2], "session", ref.value) : n \in sessions}
    BY <1>6 DEF Seeds
  <2> HIDE DEF m, sessions
  <2>3. EventId(m[2], "session", ref.value) \in Seeds(ref, events)
    BY <2>1, <2>2
  <2> QED  BY <1>1, <1>2, <1>4, <2>1, <2>3
<1> QED  BY <1>5, <1>6

\* An event is in the family of the session or parent it names.
LEMMA FamilyHasBelow ==
  ASSUME NEW E, IsFiniteSet(E), NEW e \in E, NEW seeds, NEW id \in seeds,
         id \in {e.session, e.parent}, id # None
  PROVE  e \in EventFamily(seeds, E)
<1> DEFINE up == UNION {{f.id} \X ({f.session, f.parent} \ {None}) : f \in E}
           steps == BothWays(up)
           n == 2 * Cardinality(E)
<1>1. <<e.id, id>> \in up
  OBVIOUS
<1>2. <<id, e.id>> \in steps
  <2> HIDE DEF up
  <2>1. <<e.id, id>>[1] = e.id /\ <<e.id, id>>[2] = id
    OBVIOUS
  <2> QED  BY <1>1, <2>1 DEF BothWays
<1>3. n \in Nat /\ 1 <= n
  <2>1. Cardinality(E) \in Nat /\ Cardinality(E) # 0
    BY FS_CardinalityType, FS_EmptySet
  <2> QED  BY <2>1
<1> HIDE DEF steps, n
<1>4. id \in Reach(seeds, steps)[0]
  BY ReachStarts
<1>5. e.id \in Reach(seeds, steps)[0 + 1]
  BY <1>2, <1>4, ReachStep
<1>6. Reach(seeds, steps)[1] \subseteq Reach(seeds, steps)[n]
  BY <1>3, ReachGrows
<1>7. e.id \in Reach(seeds, steps)[n]
  BY <1>5, <1>6
<1> QED  BY <1>7 DEF EventFamily, steps, n

\* The activity of a session has all that was done in it (ActivityFindsSessions),
\* in every index, whatever its session ids are and whatever else it has:
\* build_activity knows the id of a session whose own event was not read yet.
THEOREM ActivityHasSessions == LiveSpec => []ActivityFindsSessions
<1>1. ASSUME IndexOK PROVE ActivityFindsSessions
  <2> SUFFICES ASSUME NEW s \in archive.events, s.kind = "session",
                      NEW e \in events, s.id \in {e.session, e.parent}
               PROVE  e \in Activity(EventRef(s), 0, events, crosswalks, relations).events
    BY DEF ActivityFindsSessions
  <2> DEFINE root == EventRef(s)
             refs == ConnectedWorkRefs(root, 0, crosswalks, relations)
             seeds == UNION {Seeds(ref, events) : ref \in refs}
  <2>1. WellFormed(s) /\ EventRef(s) # None /\ s.id # None
    <3>1. s \in Tellable(archive)
      BY DEF Tellable
    <3> QED  BY <1>1, <3>1, ArchivesAssumption DEF IndexOK, WellFormed
  <2>2. refs = {root}
    BY ReachStarts DEF ConnectedWorkRefs
  <2>3. s.id \in Seeds(root, events)
    BY <1>1, <2>1, SessionIsSeed
  <2>4. Activity(root, 0, events, crosswalks, relations).events = EventFamily(seeds, events)
    BY DEF Activity
  <2> HIDE DEF refs, root
  <2>5. s.id \in seeds
    BY <2>2, <2>3
  <2> HIDE DEF seeds
  <2>6. e \in EventFamily(seeds, events)
    BY <1>1, <2>1, <2>5, IndexFinite, FamilyHasBelow
  <2> QED  BY <2>4, <2>6 DEF root
<1> QED  BY <1>1, IndexHolds, PTL
=============================================================================
