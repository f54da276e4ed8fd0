---------------------------- MODULE IngestProofs ----------------------------
(***************************************************************************)
(* Proofs about Ingest for any number of scans, adapters, sources, records *)
(* and option sets: skipping an unchanged source loses nothing, provided   *)
(* that a source which cannot be read is reported as an exception and not  *)
(* as a warning ("unreadable").                                            *)
(***************************************************************************)
EXTENDS Ingest, FiniteSetTheorems, TLAPS

\* A scan that is at a source has its fingerprint, which is never ahead of it.
AtSource(p) ==
  pc[p] \in {"check", "read", "insert"} =>
    /\ at[p] \in Places
    /\ Len(at[p].records) <= MaxRecords
    /\ at[p].print.window = scan[p].config.window
    /\ at[p].print.version <= version[at[p].source]

\* The record to insert is there, and inside the window.
AtRecord(p) ==
  pc[p] = "insert" => at[p].next <= Len(Visible(p)) /\ InWindow(p)

\* A reader opened its source after the fingerprint: if the source still has the
\* fingerprint, the reader sees all of it.
SeesAll(p) ==
  pc[p] \in {"read", "insert"} /\ at[p].print.version = version[at[p].source] =>
    Len(at[p].records) = Len(content[at[p].source])

\* What a reader has passed is in the store.
PassedStored(p) ==
  pc[p] \in {"read", "insert"} =>
    \A i \in 1..MaxRecords :
      i < at[p].next /\ Inside(i, at[p].print.window) => Stored(at[p].source, i)

ScanOK(p) ==
  /\ pc[p] # "idle" => scan[p] \in Scans
  /\ pc[p] \notin {"idle", "adapter"} => scan[p].adapter <= Last
  /\ pc[p] = "check" => at[p].next = 1
  /\ AtSource(p)
  /\ AtRecord(p)
  /\ SeesAll(p)
  /\ PassedStored(p)

\* No row of adapter_sources is ahead of its source.
PrintsPast ==
  \A s \in Sources : registry[s] # None => registry[s].print.version <= version[s]

\* The inductive invariant.
IInv == TypeOK /\ (\A p \in Procs : ScanOK(p)) /\ PrintsPast /\ SkipLosesNothing

-----------------------------------------------------------------------------
\* Nothing is stored, registered or under way at the start.
LEMMA InitInv == Init => IInv
<1> SUFFICES ASSUME Init PROVE IInv
  OBVIOUS
<1>1. TypeOK
  BY ConstantsAssumption DEF Init, TypeOK
<1>2. PrintsPast /\ SkipLosesNothing
  BY DEF Init, PrintsPast, SkipLosesNothing
<1>3. \A p \in Procs : ScanOK(p)
  BY DEF Init, ScanOK, AtSource, AtRecord, SeesAll, PassedStored
<1> QED BY <1>1, <1>2, <1>3 DEF IInv

\* A source that changes loses its fingerprint, so nothing is claimed of it.
LEMMA ChangeInv ==
  ASSUME IInv, NEW s \in Sources, Grow(s) \/ Edit(s)
  PROVE  IInv'
<1> USE DEF IInv
<1>1. /\ version' = [version EXCEPT ![s] = @ + 1]
      /\ UNCHANGED <<health, store, pc, scan, at, crashes>>
      /\ version \in [Sources -> Nat]
      /\ content \in [Sources -> Seq(0..MaxEdits)]
      /\ \A r \in Sources : Len(content[r]) <= MaxRecords
  BY DEF Grow, Edit, TypeOK
<1>2. /\ content' \in [Sources -> Seq(0..MaxEdits)]
      /\ \A r \in Sources : Len(content'[r]) <= MaxRecords
      /\ \A r \in Sources : Len(content'[r]) >= Len(content[r])
      /\ \A r \in Sources : r # s => content'[r] = content[r]
  <2>1. CASE Grow(s)
    BY <1>1, <2>1, ConstantsAssumption DEF Grow
  <2>2. CASE Edit(s)
    <3>1. PICK i \in 1..Len(content[s]) :
            /\ content[s][i] < MaxEdits
            /\ content' = [content EXCEPT ![s][i] = @ + 1]
      BY <2>2 DEF Edit
    <3>2. content[s] \in Seq(0..MaxEdits) /\ content[s][i] + 1 \in 0..MaxEdits
      BY <1>1, <3>1, ConstantsAssumption
    <3>3. content' = [content EXCEPT ![s] = [content[s] EXCEPT ![i] = content[s][i] + 1]]
      BY <3>1
    <3>4. /\ [content[s] EXCEPT ![i] = content[s][i] + 1] \in Seq(0..MaxEdits)
          /\ Len([content[s] EXCEPT ![i] = content[s][i] + 1]) = Len(content[s])
      BY <3>2
    <3> QED BY <1>1, <3>3, <3>4
  <2> QED BY <2>1, <2>2
<1>3. TypeOK'
  <2>1. version' \in [Sources -> Nat]
    BY <1>1
  <2>2. UNCHANGED <<health, events, registry, coverage, pc, scan, at, crashes>>
    BY <1>1 DEF store
  <2> QED BY <1>2, <2>1, <2>2 DEF TypeOK
<1>4. \A r \in Sources : version'[r] >= version[r] /\ version'[r] \in Nat
  BY <1>1
<1>5. version'[s] = version[s] + 1 /\ \A r \in Sources : r # s => version'[r] = version[r]
  BY <1>1
<1>6. PrintsPast'
  BY <1>1, <1>4 DEF PrintsPast, TypeOK, Prints, Rows, store
<1>7. ASSUME NEW p \in Procs PROVE ScanOK(p)'
  <2>1. /\ ScanOK(p)
        /\ pc' = pc /\ scan' = scan /\ at' = at /\ events' = events
    BY <1>1 DEF store
  <2>2. pc[p] \in {"check", "read", "insert"} =>
          at[p].source \in Sources /\ at[p].print.version \in Nat
    BY <2>1 DEF ScanOK, AtSource, Places, Prints
  <2>3. AtSource(p)'
    BY <1>1, <1>4, <2>1, <2>2 DEF ScanOK, AtSource
  <2>4. AtRecord(p)'
    BY <1>1, <1>2, <2>1, <2>2 DEF ScanOK, AtSource, AtRecord, Visible, InWindow, Here, Places
  <2>5. SeesAll(p)'
    BY <1>1, <1>2, <1>5, <2>1, <2>2 DEF ScanOK, AtSource, SeesAll
  <2>6. PassedStored(p)'
    BY <2>1 DEF ScanOK, PassedStored, Stored
  <2> QED BY <2>1, <2>3, <2>4, <2>5, <2>6 DEF ScanOK
<1>9. SkipLosesNothing'
  <2> SUFFICES ASSUME NEW r \in Sources, registry[r] # None, registry[r].status = "ok",
                      registry[r].print.version = version'[r],
                      NEW i \in 1..Len(content'[r]), Inside(i, registry[r].print.window)
               PROVE  events[<<r, i>>] # None
    BY <1>1 DEF SkipLosesNothing, Stored, store
  <2>1. registry[r].print.version \in Nat /\ registry[r].print.version <= version[r]
    BY DEF TypeOK, PrintsPast, Prints, Rows
  <2>2. r # s
    BY <1>1, <1>5, <2>1
  <2> QED BY <1>2, <1>5, <2>2 DEF SkipLosesNothing, Stored
<1> QED BY <1>3, <1>6, <1>7, <1>9

\* The steps of one scan leave the others where they are.
LEMMA OtherScans ==
  ASSUME IInv, NEW p \in Procs, UNCHANGED native,
         \A q \in Procs : q # p =>
           pc'[q] = pc[q] /\ scan'[q] = scan[q] /\ at'[q] = at[q],
         \A id \in Ids : events[id] # None => events'[id] # None,
         NEW q \in Procs, q # p
  PROVE  ScanOK(q)'
<1>1. UNCHANGED <<content, version>> /\ ScanOK(q)
  BY DEF native, IInv
<1>2. pc'[q] = pc[q] /\ scan'[q] = scan[q] /\ at'[q] = at[q]
  OBVIOUS
<1>3. pc[q] \in {"check", "read", "insert"} => at[q].source \in Sources
  BY <1>1 DEF ScanOK, AtSource, Places
<1>4. AtSource(q)'
  BY <1>1, <1>2 DEF ScanOK, AtSource
<1>5. AtRecord(q)'
  BY <1>1, <1>2 DEF ScanOK, AtRecord, Visible, InWindow, Here
<1>6. SeesAll(q)'
  BY <1>1, <1>2 DEF ScanOK, SeesAll
<1>7. PassedStored(q)'
  BY <1>1, <1>2, <1>3 DEF ScanOK, PassedStored, Stored, Ids
<1> QED BY <1>1, <1>2, <1>4, <1>5, <1>6, <1>7 DEF ScanOK

\* A step that leaves the store's events and sources alone keeps the invariant if
\* it keeps its own scan in order.
LEMMA LocalInv ==
  ASSUME IInv, NEW p \in Procs, UNCHANGED <<native, events, registry>>,
         \A q \in Procs : q # p =>
           pc'[q] = pc[q] /\ scan'[q] = scan[q] /\ at'[q] = at[q],
         TypeOK', ScanOK(p)'
  PROVE  IInv'
<1>1. \A q \in Procs : ScanOK(q)'
  BY OtherScans
<1>2. PrintsPast' /\ SkipLosesNothing'
  BY DEF IInv, PrintsPast, SkipLosesNothing, Stored, native
<1> QED BY <1>1, <1>2 DEF IInv

\* Starting, moving between adapters and sources, and dying.
LEMMA MoveInv ==
  ASSUME IInv, NEW p \in Procs,
         \/ Start(p) \/ Discover(p) \/ PassOver(p) \/ Skip(p) \/ RecordRun(p) \/ Crash(p)
  PROVE  IInv'
<1> USE DEF IInv
<1>1. /\ UNCHANGED <<native, events, registry>>
      /\ pc \in [Procs -> {"idle", "adapter", "source", "check", "read", "insert"}]
      /\ scan \in [Procs -> Scans \cup {None}]
      /\ at \in [Procs -> Places \cup {None}]
      /\ pc[p] # "idle" => scan[p] \in Scans
  BY DEF Start, Discover, PassOver, Skip, RecordRun, Crash, Stop, store, TypeOK, ScanOK
<1>2. /\ pc' \in [Procs -> {"idle", "adapter", "source", "check", "read", "insert"}]
      /\ pc'[p] \in {"idle", "adapter", "source"}
      /\ \A q \in Procs : q # p => pc'[q] = pc[q]
  BY <1>1 DEF Start, Discover, PassOver, Skip, RecordRun, Crash, Stop, Goto, Leave
<1>3. /\ at' \in [Procs -> Places \cup {None}]
      /\ \A q \in Procs : q # p => at'[q] = at[q]
  BY <1>1 DEF Start, Discover, PassOver, Skip, RecordRun, Crash, Stop, Leave
<1>4. /\ scan' \in [Procs -> Scans \cup {None}]
      /\ pc'[p] # "idle" => scan'[p] \in Scans
      /\ pc'[p] = "source" => scan'[p].adapter <= Last
      /\ \A q \in Procs : q # p => scan'[q] = scan[q]
  <2>1. CASE Start(p)
    <3>1. PICK c \in Configs : scan' = [scan EXCEPT ![p] =
            [config |-> c, adapter |-> 1, todo |-> {}, failed |-> FALSE, outside |-> FALSE]]
      BY <2>1 DEF Start
    <3>2. [config |-> c, adapter |-> 1, todo |-> {}, failed |-> FALSE, outside |-> FALSE] \in Scans
      BY ConstantsAssumption DEF Scans
    <3> QED BY <1>1, <2>1, <3>1, <3>2 DEF Start, Goto
  <2>2. CASE Discover(p) /\ ~Discoverable(scan[p].adapter)
    BY <1>1, <2>2 DEF Discover, Stop, Goto
  <2>3. CASE Discover(p) /\ Discoverable(scan[p].adapter)
    <3>1. scan' = [scan EXCEPT ![p].todo = SourcesOf(scan[p].adapter),
                                  ![p].failed = FALSE, ![p].outside = FALSE]
      BY <2>3 DEF Discover
    <3>2. SourcesOf(scan[p].adapter) \subseteq Sources
      BY <2>3 DEF Sources, Discoverable
    <3>3. scan[p] \in Scans
      BY <1>1, <2>3 DEF Discover
    <3>4. scan[p].adapter <= Last
      BY <2>3, <3>3, ConstantsAssumption DEF Discoverable, Adapters, Scans
    <3>5. scan'[p] = [scan[p] EXCEPT !.todo = SourcesOf(scan[p].adapter),
                                     !.failed = FALSE, !.outside = FALSE]
      BY <1>1, <3>1
    <3> QED BY <1>1, <3>1, <3>2, <3>3, <3>4, <3>5 DEF Scans
  <2>4. CASE Skip(p)
    BY <1>1, <2>4 DEF Skip, ScanOK
  <2>5. CASE RecordRun(p)
    <3>1. scan[p] \in Scans /\ scan[p].adapter <= Last
      BY <1>1, <2>5 DEF RecordRun, ScanOK
    <3>2. scan[p].adapter + 1 \in 1..(Last + 1)
      BY <3>1, ConstantsAssumption DEF Scans
    <3>3. [scan[p] EXCEPT !.adapter = @ + 1] \in Scans
      BY <3>1, <3>2 DEF Scans
    <3> QED BY <1>1, <2>5, <3>3 DEF RecordRun, Goto
  <2>6. CASE Crash(p)
    BY <1>1, <2>6 DEF Crash, Stop, Goto
  <2>7. CASE PassOver(p)
    <3>1. scan[p] \in Scans /\ scan[p].adapter <= Last
      BY <1>1, <2>7 DEF PassOver, ScanOK
    <3>2. PICK s \in scan[p].todo :
            scan' = [scan EXCEPT ![p].todo = @ \ {s}, ![p].outside = TRUE]
      BY <2>7 DEF PassOver
    <3>3. [scan[p] EXCEPT !.todo = @ \ {s}, !.outside = TRUE] \in Scans
      BY <3>1 DEF Scans
    <3>4. scan'[p] = [scan[p] EXCEPT !.todo = @ \ {s}, !.outside = TRUE]
      BY <1>1, <3>2
    <3> QED BY <1>1, <3>1, <3>2, <3>3, <3>4 DEF Scans
  <2> QED BY <2>1, <2>2, <2>3, <2>4, <2>5, <2>6, <2>7
<1>5. TypeOK'
  <2>1. coverage' \in [Adapters -> Runs \cup {None}]
    <3>1. CASE RecordRun(p)
      <4>1. scan[p] \in Scans
        BY <1>1, <3>1 DEF RecordRun
      <4>2. [status |-> RunStatus(p), outside |-> scan[p].outside] \in Runs
        BY <4>1 DEF RunStatus, Runs, Scans
      <4> QED BY <3>1, <4>2 DEF RecordRun, TypeOK
    <3>2. CASE ~RecordRun(p)
      BY <3>2 DEF TypeOK, Start, Discover, PassOver, Skip, Crash, store
    <3> QED BY <3>1, <3>2
  <2>2. crashes' \in 0..MaxCrashes
    BY ConstantsAssumption DEF TypeOK, Start, Discover, PassOver, Skip, RecordRun, Crash
  <2> QED BY <1>1, <1>2, <1>3, <1>4, <2>1, <2>2 DEF TypeOK, native
<1>6. ScanOK(p)'
  BY <1>2, <1>4 DEF ScanOK, AtSource, AtRecord, SeesAll, PassedStored
<1> QED BY <1>1, <1>2, <1>3, <1>4, <1>5, <1>6, LocalInv

\* The fingerprint is of the source as it is now.
LEMMA FingerprintInv ==
  ASSUME IInv, NEW p \in Procs, Fingerprint(p)
  PROVE  IInv'
<1> USE DEF IInv
<1>1. /\ UNCHANGED <<native, events, registry, coverage, crashes>>
      /\ pc[p] = "source" /\ scan[p] \in Scans /\ scan[p].adapter <= Last
  BY DEF Fingerprint, store, ScanOK
<1>2. PICK s \in scan[p].todo :
        \/ /\ scan' = [scan EXCEPT ![p].todo = @ \ {s}, ![p].failed = TRUE]
           /\ UNCHANGED <<pc, at>>
        \/ /\ scan' = [scan EXCEPT ![p].todo = @ \ {s}]
           /\ Goto(p, "check")
           /\ at' = [at EXCEPT ![p] =
                [source |-> s, records |-> <<>>, next |-> 1, print |-> PrintOf(p, s)]]
  BY DEF Fingerprint
<1> DEFINE place == [source |-> s, records |-> <<>>, next |-> 1, print |-> PrintOf(p, s)]
<1>3. s \in Sources /\ version[s] \in Nat
  BY <1>1 DEF Scans, TypeOK
<1>4. place \in Places
  <2>1. PrintOf(p, s) \in Prints
    BY <1>1, <1>3 DEF PrintOf, Prints, Scans, Configs
  <2>2. <<>> \in Seq(0..MaxEdits) /\ 1 \in 1..(MaxRecords + 1)
    BY ConstantsAssumption
  <2> QED BY <1>3, <2>1, <2>2 DEF Places
<1>5. /\ [scan[p] EXCEPT !.todo = @ \ {s}] \in Scans
      /\ [scan[p] EXCEPT !.todo = @ \ {s}, !.failed = TRUE] \in Scans
  BY <1>1 DEF Scans
<1>6. /\ scan' \in [Procs -> Scans \cup {None}]
      /\ \/ scan'[p] = [scan[p] EXCEPT !.todo = @ \ {s}]
         \/ scan'[p] = [scan[p] EXCEPT !.todo = @ \ {s}, !.failed = TRUE]
      /\ \A q \in Procs : q # p => scan'[q] = scan[q]
  BY <1>2, <1>5 DEF TypeOK
<1>7. /\ scan'[p] \in Scans
      /\ scan'[p].adapter = scan[p].adapter /\ scan'[p].config = scan[p].config
  BY <1>1, <1>5, <1>6 DEF Scans
<1>8. /\ \/ pc'[p] = "source"
         \/ pc'[p] = "check" /\ at'[p] = place
      /\ pc' \in [Procs -> {"idle", "adapter", "source", "check", "read", "insert"}]
      /\ at' \in [Procs -> Places \cup {None}]
      /\ \A q \in Procs : q # p => pc'[q] = pc[q] /\ at'[q] = at[q]
  BY <1>1, <1>2, <1>4 DEF Goto, TypeOK
<1>9. TypeOK'
  BY <1>1, <1>6, <1>8 DEF TypeOK, native
<1>10. ScanOK(p)'
  <2>1. CASE pc'[p] = "source"
    BY <1>1, <1>7, <2>1 DEF ScanOK, AtSource, AtRecord, SeesAll, PassedStored
  <2>2. CASE pc'[p] = "check" /\ at'[p] = place
    BY <1>1, <1>3, <1>4, <1>7, <2>2, ConstantsAssumption
       DEF ScanOK, AtSource, AtRecord, SeesAll, PassedStored, PrintOf, native
  <2> QED BY <1>8, <2>1, <2>2
<1> QED BY <1>1, <1>6, <1>8, <1>9, <1>10, LocalInv

\* Opening sees the source no earlier than its fingerprint did.
LEMMA OpenInv ==
  ASSUME IInv, NEW p \in Procs, Open(p)
  PROVE  IInv'
<1> USE DEF IInv
<1>1. /\ UNCHANGED <<native, events, registry, coverage, crashes, scan>>
      /\ pc[p] = "check" /\ scan[p] \in Scans /\ scan[p].adapter <= Last
      /\ at[p] \in Places /\ ScanOK(p)
  BY DEF Open, store, ScanOK, AtSource
<1>2. at[p].source \in Sources /\ content[at[p].source] \in Seq(0..MaxEdits)
  BY <1>1 DEF Places, TypeOK
<1>3. [at[p] EXCEPT !.records = content[at[p].source]] \in Places
  BY <1>1, <1>2 DEF Places
<1>4. /\ at' = [at EXCEPT ![p] = [at[p] EXCEPT !.records = content[at[p].source]]]
      /\ pc' = [pc EXCEPT ![p] = "read"]
  BY DEF Open, Goto
<1>5. /\ at' \in [Procs -> Places \cup {None}]
      /\ pc' \in [Procs -> {"idle", "adapter", "source", "check", "read", "insert"}]
      /\ \A q \in Procs : q # p => pc'[q] = pc[q] /\ at'[q] = at[q]
      /\ pc'[p] = "read" /\ at'[p] = [at[p] EXCEPT !.records = content[at[p].source]]
  BY <1>3, <1>4 DEF TypeOK
<1>6. TypeOK'
  BY <1>1, <1>5 DEF TypeOK, native
<1>7. at[p].next = 1
  BY <1>1 DEF ScanOK
<1>8. ScanOK(p)'
  BY <1>1, <1>2, <1>3, <1>5, <1>7
     DEF ScanOK, AtSource, AtRecord, SeesAll, PassedStored, TypeOK, Places, native
<1> QED BY <1>1, <1>5, <1>6, <1>8, LocalInv

-----------------------------------------------------------------------------
(* The reading of a source *)

\* An element of a sequence is a member of its set.
LEMMA ElementOf ==
  ASSUME NEW S, NEW q \in Seq(S), NEW i \in 1..Len(q)
  PROVE  q[i] \in S
OBVIOUS

\* Where a reader is: a record it can see has an event id and a body.
LEMMA ReaderFacts ==
  ASSUME IInv, NEW p \in Procs, pc[p] \in {"read", "insert"}
  PROVE  /\ scan[p] \in Scans /\ scan[p].adapter <= Last
         /\ at[p] \in Places /\ at[p].source \in Sources
         /\ at[p].next \in Nat \ {0}
         /\ at[p].print \in Prints /\ at[p].print.window = scan[p].config.window
         /\ Visible(p) \in Seq(0..MaxEdits) /\ Len(Visible(p)) <= MaxRecords
         /\ Here(p) <= Len(Visible(p)) => EventId(p) \in Ids /\ Body(p) \in Bodies
<1> USE DEF IInv
<1>1. ScanOK(p) /\ scan[p] \in Scans /\ scan[p].adapter <= Last /\ at[p] \in Places
  BY DEF ScanOK, AtSource
<1>2. /\ at[p].source \in Sources /\ at[p].next \in Nat \ {0}
      /\ at[p].print \in Prints /\ at[p].records \in Seq(0..MaxEdits)
  BY <1>1, ConstantsAssumption DEF Places
<1>3. /\ at[p].print.window = scan[p].config.window
      /\ Len(at[p].records) <= MaxRecords
  BY <1>1, <1>2, ConstantsAssumption DEF Prints, ScanOK, AtSource
<1>4. Visible(p) \in Seq(0..MaxEdits) /\ Len(Visible(p)) <= MaxRecords
  BY <1>2, <1>3 DEF Visible, TypeOK
<1>5. ASSUME Here(p) <= Len(Visible(p)) PROVE EventId(p) \in Ids /\ Body(p) \in Bodies
  <2>1. Here(p) \in 1..Len(Visible(p)) /\ Here(p) \in 1..MaxRecords
    BY <1>2, <1>4, <1>5, ConstantsAssumption DEF Here
  <2>2. Visible(p)[Here(p)] \in 0..MaxEdits
    BY <1>4, <2>1, ElementOf
  <2>3. scan[p].config.policy \in Policies
    BY <1>1 DEF Scans, Configs
  <2> QED BY <1>2, <2>1, <2>2, <2>3 DEF EventId, Ids, Body, Bodies
<1> QED BY <1>1, <1>2, <1>3, <1>4, <1>5

\* Going past a record that is stored, or outside the window, keeps the scan in
\* order.
LEMMA PassRecord ==
  ASSUME IInv, NEW p \in Procs, pc[p] \in {"read", "insert"},
         Here(p) <= Len(Visible(p)),
         UNCHANGED <<native, scan>>,
         at' = [at EXCEPT ![p].next = @ + 1],
         pc' = [pc EXCEPT ![p] = "read"],
         \A id \in Ids : events[id] # None => events'[id] # None,
         InWindow(p) => events'[EventId(p)] # None
  PROVE  /\ ScanOK(p)'
         /\ at' \in [Procs -> Places \cup {None}]
         /\ pc' \in [Procs -> {"idle", "adapter", "source", "check", "read", "insert"}]
         /\ \A q \in Procs : q # p => pc'[q] = pc[q] /\ at'[q] = at[q]
<1> USE DEF IInv
<1>1. /\ scan[p] \in Scans /\ scan[p].adapter <= Last
      /\ at[p] \in Places /\ at[p].source \in Sources
      /\ at[p].next \in Nat \ {0} /\ at[p].next <= MaxRecords
      /\ at[p].print.window = scan[p].config.window
  BY ReaderFacts, ConstantsAssumption DEF Here
<1>2. [at[p] EXCEPT !.next = @ + 1] \in Places
  <2>1. at[p].next + 1 \in 1..(MaxRecords + 1)
    BY <1>1, ConstantsAssumption
  <2> QED BY <1>1, <2>1 DEF Places
<1>3. at' = [at EXCEPT ![p] = [at[p] EXCEPT !.next = @ + 1]]
  OBVIOUS
<1>4. /\ at' \in [Procs -> Places \cup {None}]
      /\ at'[p] = [at[p] EXCEPT !.next = @ + 1]
      /\ pc' \in [Procs -> {"idle", "adapter", "source", "check", "read", "insert"}]
      /\ pc'[p] = "read"
      /\ \A q \in Procs : q # p => pc'[q] = pc[q] /\ at'[q] = at[q]
  BY <1>2, <1>3 DEF TypeOK
<1>5. /\ at'[p].source = at[p].source /\ at'[p].print = at[p].print
      /\ at'[p].records = at[p].records /\ at'[p].next = at[p].next + 1
      /\ at'[p] \in Places
  BY <1>1, <1>2, <1>4 DEF Places
<1>6. ScanOK(p) /\ content' = content /\ version' = version /\ scan' = scan
  BY DEF native
<1>7. AtSource(p)' /\ SeesAll(p)' /\ AtRecord(p)'
  BY <1>4, <1>5, <1>6 DEF ScanOK, AtSource, SeesAll, AtRecord
<1>8. PassedStored(p)'
  <2> SUFFICES ASSUME NEW i \in 1..MaxRecords, i < at[p].next + 1,
                      Inside(i, at[p].print.window)
               PROVE  events'[<<at[p].source, i>>] # None
    BY <1>5 DEF PassedStored, Stored
  <2>1. CASE i < at[p].next
    <3>1. events[<<at[p].source, i>>] # None
      BY <1>6, <2>1 DEF ScanOK, PassedStored, Stored
    <3> QED BY <1>1, <3>1 DEF Ids
  <2>2. CASE i = at[p].next
    BY <1>1, <2>2 DEF InWindow, Here, EventId
  <2> QED BY <1>1, <2>1, <2>2
<1> QED BY <1>1, <1>4, <1>6, <1>7, <1>8 DEF ScanOK

\* A replay is stored already; a new event is about to be.
LEMMA LookupInv ==
  ASSUME IInv, NEW p \in Procs, Lookup(p)
  PROVE  IInv'
<1> USE DEF IInv
<1>1. /\ UNCHANGED <<native, events, registry, coverage, scan, crashes>>
      /\ pc[p] = "read" /\ Here(p) <= Len(Visible(p))
  BY DEF Lookup, store
<1>2. EventId(p) \in Ids /\ Body(p) # None
  BY <1>1, ReaderFacts, ConstantsAssumption
<1>3. CASE /\ InWindow(p) => events[EventId(p)] = Body(p)
           /\ at' = [at EXCEPT ![p].next = @ + 1]
           /\ UNCHANGED pc
  <2>1. pc' = [pc EXCEPT ![p] = "read"]
    BY <1>1, <1>3 DEF TypeOK
  <2>2. /\ ScanOK(p)'
        /\ at' \in [Procs -> Places \cup {None}]
        /\ pc' \in [Procs -> {"idle", "adapter", "source", "check", "read", "insert"}]
        /\ \A q \in Procs : q # p => pc'[q] = pc[q] /\ at'[q] = at[q]
    BY <1>1, <1>2, <1>3, <2>1, PassRecord
  <2>3. TypeOK'
    BY <1>1, <2>2 DEF TypeOK, native
  <2> QED BY <1>1, <2>2, <2>3, LocalInv
<1>4. CASE /\ InWindow(p)
           /\ Goto(p, "insert")
           /\ UNCHANGED at
  <2>1. /\ pc' \in [Procs -> {"idle", "adapter", "source", "check", "read", "insert"}]
        /\ pc'[p] = "insert"
        /\ \A q \in Procs : q # p => pc'[q] = pc[q]
    BY <1>4 DEF Goto, TypeOK
  <2>2. TypeOK'
    BY <1>1, <1>4, <2>1 DEF TypeOK, native
  <2>3. ScanOK(p) /\ content' = content /\ version' = version
    BY <1>1 DEF native
  <2>4. AtRecord(p)'
    BY <1>1, <1>4, <2>3 DEF AtRecord, Visible, InWindow, Here
  <2>5. ScanOK(p)'
    BY <1>1, <1>4, <2>1, <2>3, <2>4 DEF ScanOK, AtSource, SeesAll, PassedStored, Stored
  <2> QED BY <1>1, <1>4, <2>1, <2>2, <2>5, LocalInv
<1> QED BY <1>3, <1>4 DEF Lookup

\* An insert only adds to what is stored.
LEMMA InsertInv ==
  ASSUME IInv, NEW p \in Procs, Insert(p)
  PROVE  IInv'
<1> USE DEF IInv
<1>1. /\ UNCHANGED <<native, registry, coverage, scan, crashes>>
      /\ pc[p] = "insert"
      /\ events' = [events EXCEPT ![EventId(p)] = Body(p)]
      /\ at' = [at EXCEPT ![p].next = @ + 1]
      /\ pc' = [pc EXCEPT ![p] = "read"]
  BY DEF Insert, Goto
<1>2. Here(p) <= Len(Visible(p))
  BY <1>1 DEF ScanOK, AtRecord, Here
<1>3. EventId(p) \in Ids /\ Body(p) \in Bodies /\ Body(p) # None
  BY <1>1, <1>2, ReaderFacts, ConstantsAssumption
<1>4. /\ events' \in [Ids -> Bodies \cup {None}]
      /\ \A id \in Ids : events[id] # None => events'[id] # None
      /\ events'[EventId(p)] # None
  BY <1>1, <1>3 DEF TypeOK
<1>5. /\ ScanOK(p)'
      /\ at' \in [Procs -> Places \cup {None}]
      /\ pc' \in [Procs -> {"idle", "adapter", "source", "check", "read", "insert"}]
      /\ \A q \in Procs : q # p => pc'[q] = pc[q] /\ at'[q] = at[q]
  BY <1>1, <1>2, <1>4, PassRecord
<1>6. TypeOK'
  BY <1>1, <1>4, <1>5 DEF TypeOK, native
<1>7. \A q \in Procs : ScanOK(q)'
  BY <1>1, <1>4, <1>5, OtherScans
<1>8. PrintsPast'
  BY <1>1 DEF PrintsPast, native
<1>9. SkipLosesNothing'
  <2> SUFFICES ASSUME NEW s \in Sources, registry[s] # None, registry[s].status = "ok",
                      registry[s].print.version = version[s],
                      NEW i \in 1..Len(content[s]), Inside(i, registry[s].print.window)
               PROVE  events'[<<s, i>>] # None
    BY <1>1 DEF SkipLosesNothing, Stored, native
  <2>1. events[<<s, i>>] # None
    BY DEF SkipLosesNothing, Stored
  <2>2. <<s, i>> \in Ids
    BY ConstantsAssumption DEF Ids, TypeOK
  <2> QED BY <1>4, <2>1, <2>2
<1> QED BY <1>6, <1>7, <1>8, <1>9

\* A source is recorded "ok" only by a reader that has seen all of it.
LEMMA RecordSourceInv ==
  ASSUME IInv, NEW p \in Procs, pc[p] \in {"read", "insert"},
         NEW status \in {"ok", "error"}, RecordSource(p, status),
         status = "ok" => at[p].next > Len(Visible(p))
  PROVE  IInv'
<1> USE DEF IInv
<1>1. /\ UNCHANGED <<native, events, coverage, crashes>>
      /\ registry' = [registry EXCEPT ![at[p].source] =
                        [status |-> status, print |-> at[p].print]]
      /\ scan' = [scan EXCEPT ![p].failed = @ \/ status = "error"]
      /\ pc' = [pc EXCEPT ![p] = "source"]
      /\ at' = [at EXCEPT ![p] = None]
  BY DEF RecordSource, Leave, Goto
<1>2. /\ scan[p] \in Scans /\ scan[p].adapter <= Last
      /\ at[p] \in Places /\ at[p].source \in Sources
      /\ at[p].print \in Prints
      /\ Len(Visible(p)) \in Nat /\ at[p].next \in Nat
  BY ReaderFacts
<1>3. [scan[p] EXCEPT !.failed = @ \/ status = "error"] \in Scans
  BY <1>2 DEF Scans
<1>4. /\ scan' \in [Procs -> Scans \cup {None}]
      /\ scan'[p] = [scan[p] EXCEPT !.failed = @ \/ status = "error"]
      /\ pc' \in [Procs -> {"idle", "adapter", "source", "check", "read", "insert"}]
      /\ pc'[p] = "source"
      /\ at' \in [Procs -> Places \cup {None}]
      /\ \A q \in Procs : q # p =>
           pc'[q] = pc[q] /\ scan'[q] = scan[q] /\ at'[q] = at[q]
  BY <1>1, <1>3 DEF TypeOK
<1>5. TypeOK'
  <2>1. [status |-> status, print |-> at[p].print] \in [status : {"ok", "error"}, print : Prints]
    BY <1>2
  <2>2. registry' \in [Sources -> Rows \cup {None}]
    BY <1>1, <1>2, <2>1 DEF TypeOK, Rows
  <2> QED BY <1>1, <1>4, <2>2 DEF TypeOK, native
<1>6. ScanOK(p)'
  BY <1>2, <1>3, <1>4 DEF ScanOK, AtSource, AtRecord, SeesAll, PassedStored, Scans
<1>7. \A q \in Procs : ScanOK(q)'
  BY <1>1, <1>4, <1>6, OtherScans
<1>8. \A s \in Sources :
        registry'[s] = IF s = at[p].source
                       THEN [status |-> status, print |-> at[p].print]
                       ELSE registry[s]
  BY <1>1 DEF TypeOK
<1>9. PrintsPast'
  BY <1>1, <1>8 DEF PrintsPast, native, ScanOK, AtSource
<1>10. SkipLosesNothing'
  <2> SUFFICES ASSUME NEW s \in Sources, registry'[s] # None, registry'[s].status = "ok",
                      registry'[s].print.version = version[s],
                      NEW i \in 1..Len(content[s]), Inside(i, registry'[s].print.window)
               PROVE  events[<<s, i>>] # None
    BY <1>1 DEF SkipLosesNothing, Stored, native
  <2>1. CASE s # at[p].source
    BY <1>8, <2>1 DEF SkipLosesNothing, Stored
  <2>2. CASE s = at[p].source
    <3>1. /\ status = "ok" /\ at[p].print.version = version[at[p].source]
          /\ Inside(i, at[p].print.window)
      BY <1>8, <2>2
    <3>2. Len(at[p].records) = Len(content[s])
      BY <2>2, <3>1 DEF ScanOK, SeesAll
    <3>3. Len(Visible(p)) = Len(content[s])
      BY <2>2, <3>2 DEF Visible
    <3>4. i \in 1..MaxRecords /\ i < at[p].next
      BY <1>2, <3>1, <3>3, ConstantsAssumption DEF TypeOK
    <3> QED BY <2>2, <3>1, <3>4 DEF ScanOK, PassedStored, Stored
  <2> QED BY <2>1, <2>2
<1> QED BY <1>5, <1>7, <1>9, <1>10

-----------------------------------------------------------------------------
\* Every step of the system keeps the invariant.
LEMMA NextInv ==
  ASSUME IInv, [Next]_vars, "unreadable" \notin Ailments
  PROVE  IInv'
<1>1. ASSUME NEW s \in Sources, Grow(s) \/ Edit(s) PROVE IInv'
  BY <1>1, ChangeInv
<1>2. ASSUME UNCHANGED <<content, version, store, pc, scan, at, crashes>>,
             health' \in [Sources -> Ailments \cup {"fine"}]
      PROVE  IInv'
  <2>1. UNCHANGED <<content, version, events, registry, coverage, pc, scan, at, crashes>>
    BY <1>2 DEF store
  <2>2. TypeOK'
    BY <1>2, <2>1 DEF TypeOK, IInv
  <2>3. ASSUME NEW p \in Procs PROVE ScanOK(p)'
    BY <2>1 DEF IInv, ScanOK, AtSource, AtRecord, SeesAll, PassedStored, Visible,
                InWindow, Here, Stored
  <2>4. PrintsPast' /\ SkipLosesNothing'
    BY <2>1 DEF IInv, PrintsPast, SkipLosesNothing, Stored
  <2> QED BY <2>2, <2>3, <2>4 DEF IInv
<1>3. ASSUME NEW s \in Sources, Ail(s) PROVE IInv'
  <2>1. health' \in [Sources -> Ailments \cup {"fine"}]
    BY <1>3 DEF Ail, IInv, TypeOK
  <2> QED BY <1>2, <1>3, <2>1 DEF Ail
<1>4. ASSUME NEW p \in Procs, Start(p) \/ Crash(p) PROVE IInv'
  BY <1>4, MoveInv
<1>5. ASSUME NEW p \in Procs, Step(p) PROVE IInv'
  <2>1. CASE Discover(p) \/ PassOver(p) \/ Skip(p) \/ RecordRun(p)
    BY <2>1, MoveInv
  <2>2. CASE Fingerprint(p)
    BY <2>2, FingerprintInv
  <2>3. CASE Open(p)
    BY <2>3, OpenInv
  <2>4. CASE Lookup(p)
    BY <2>4, LookupInv
  <2>5. CASE Insert(p)
    BY <2>5, InsertInv
  <2>6. CASE Conflict(p) \/ ReadFails(p)
    <3>1. pc[p] \in {"read", "insert"} /\ RecordSource(p, "error")
      BY <2>6 DEF Conflict, ReadFails
    <3> QED BY <3>1, RecordSourceInv
  <2>7. CASE ReadEnds(p)
    <3>1. /\ pc[p] = "read" /\ RecordSource(p, "ok")
          /\ Here(p) > Len(Visible(p)) \/ health[at[p].source] = "unreadable"
      BY <2>7 DEF ReadEnds
    <3>2. at[p].source \in Sources
      BY <3>1, ReaderFacts
    <3>3. health[at[p].source] # "unreadable"
      BY <3>2 DEF IInv, TypeOK
    <3>4. at[p].next > Len(Visible(p))
      BY <3>1, <3>3 DEF Here
    <3> QED BY <3>1, <3>4, RecordSourceInv
  <2> QED BY <1>5, <2>1, <2>2, <2>3, <2>4, <2>5, <2>6, <2>7 DEF Step
<1>6. ASSUME UNCHANGED vars PROVE IInv'
  BY <1>2, <1>6 DEF vars, native, IInv, TypeOK
<1> QED BY <1>1, <1>3, <1>4, <1>5, <1>6 DEF Next

\* The invariant holds throughout.
THEOREM Invariance ==
  ASSUME "unreadable" \notin Ailments
  PROVE  Spec => []IInv
<1>1. Init => IInv
  BY InitInv
<1>2. IInv /\ [Next]_vars => IInv'
  BY NextInv
<1> QED BY <1>1, <1>2, PTL DEF Spec

\* The state of the scans and of the store is always of its declared shape.
THEOREM TypeCorrect ==
  ASSUME "unreadable" \notin Ailments
  PROVE  Spec => []TypeOK
<1>1. IInv => TypeOK
  BY DEF IInv
<1> QED BY <1>1, Invariance, PTL

\* An unchanged source that adapter_sources calls "ok" can be skipped: whatever it
\* holds inside the window is stored, for any number of concurrent scans, crashes
\* and changes of the sources.
THEOREM SkippingIsSafe ==
  ASSUME "unreadable" \notin Ailments
  PROVE  Spec => []SkipLosesNothing
<1>1. IInv => SkipLosesNothing
  BY DEF IInv
<1> QED BY <1>1, Invariance, PTL

\* Whatever is stored stays as it is: of all steps only an insert writes an event,
\* and it finds none under its id.
THEOREM StoredForGood ==
  ASSUME "unreadable" \notin Ailments
  PROVE  Spec => NeverReplaces
<1> DEFINE Kept == \A id \in Ids : events[id] # None => events'[id] = events[id]
<1>1. ASSUME TypeOK, [Next]_vars PROVE [Kept]_events
  <2>1. CASE UNCHANGED events
    BY <2>1
  <2>2. CASE \E p \in Procs : Insert(p)
    <3>1. PICK p \in Procs : /\ events[EventId(p)] = None
                            /\ events' = [events EXCEPT ![EventId(p)] = Body(p)]
      BY <2>2 DEF Insert
    <3>2. \A id \in Ids : id # EventId(p) => events'[id] = events[id]
      BY <1>1, <3>1 DEF TypeOK
    <3> QED BY <3>1, <3>2
  <2>3. UNCHANGED events \/ \E p \in Procs : Insert(p)
    <3>1. CASE UNCHANGED vars
      BY <3>1 DEF vars, store
    <3>2. CASE \E s \in Sources : Grow(s) \/ Edit(s) \/ Ail(s)
      BY <3>2 DEF Grow, Edit, Ail, store
    <3>3. CASE \E p \in Procs : Start(p) \/ Step(p) \/ Crash(p)
      BY <3>3 DEF Start, Step, Crash, Discover, PassOver, Fingerprint, Skip, Open, Lookup,
                  Conflict, ReadFails, ReadEnds, RecordSource, RecordRun, store
    <3> QED BY <1>1, <3>1, <3>2, <3>3 DEF Next
  <2> QED BY <2>1, <2>2, <2>3
<1>2. Spec => []TypeOK
  BY TypeCorrect
<1> QED BY <1>1, <1>2, PTL DEF Spec, NeverReplaces

-----------------------------------------------------------------------------
(* Coverage, of a store that one scan at a time works on. *)

RowOK(s) == registry[s] # None /\ registry[s].status = "ok"
Busy(p) == pc[p] \in {"source", "check", "read", "insert"}

\* What a scan has done of its adapter went well, unless it knows better.
Finished(p) ==
  Busy(p) =>
    /\ scan[p].todo \subseteq SourcesOf(scan[p].adapter)
    /\ pc[p] # "source" => at[p].source \in SourcesOf(scan[p].adapter)
    /\ \A s \in SourcesOf(scan[p].adapter) \ scan[p].todo :
         \/ scan[p].failed \/ scan[p].outside \/ RowOK(s)
         \/ pc[p] # "source" /\ s = at[p].source

\* A row that says "ok" is right, until the adapter's sources are read again.
RowTells(p) ==
  \A a \in Adapters :
    /\ coverage[a] = [status |-> "ok", outside |-> FALSE] /\ crashes = 0
    /\ ~(Busy(p) /\ scan[p].adapter = a)
    => \A s \in SourcesOf(a) : RowOK(s)

CovInv == \A p : Procs = {p} => Finished(p) /\ RowTells(p)

\* Adapters do not share sources.
LEMMA OwnSources ==
  ASSUME NEW a, NEW b, NEW s \in SourcesOf(a), s \in SourcesOf(b)
  PROVE  a = b
BY DEF SourcesOf

LEMMA CovNext ==
  ASSUME IInv, CovInv, [Next]_vars
  PROVE  CovInv'
<1> SUFFICES ASSUME NEW p, Procs = {p}
             PROVE  Finished(p)' /\ RowTells(p)'
  BY DEF CovInv
<1>1. p \in Procs /\ Finished(p) /\ RowTells(p) /\ TypeOK /\ ScanOK(p)
  BY DEF CovInv, IInv
<1>2. ASSUME UNCHANGED <<registry, coverage, pc, scan, at, crashes>>
      PROVE  Finished(p)' /\ RowTells(p)'
  BY <1>1, <1>2 DEF Finished, RowTells, Busy, RowOK
<1>3. CASE UNCHANGED vars \/ \E s \in Sources : Grow(s) \/ Edit(s) \/ Ail(s)
  BY <1>2, <1>3 DEF vars, Grow, Edit, Ail, store
<1>4. CASE Start(p) \/ Crash(p)
  <2>1. pc'[p] \in {"idle", "adapter"} /\ registry' = registry /\ coverage' = coverage
    BY <1>1, <1>4 DEF Start, Crash, Stop, Goto, store, TypeOK
  <2>2. Start(p) => ~Busy(p) /\ crashes' = crashes
    BY <1>4 DEF Start, Busy
  <2>3. Crash(p) => crashes' # 0
    BY <1>1, ConstantsAssumption DEF Crash, TypeOK
  <2> QED BY <1>1, <1>4, <2>1, <2>2, <2>3 DEF Finished, RowTells, Busy, RowOK
<1>5. CASE Discover(p)
  <2>1. /\ UNCHANGED <<registry, coverage, crashes>> /\ ~Busy(p)
        /\ pc[p] = "adapter" /\ scan[p] \in Scans
    BY <1>1, <1>5 DEF Discover, store, Busy, ScanOK
  <2>2. RowTells(p)'
    BY <1>1, <2>1 DEF RowTells, RowOK
  <2>3. \/ pc'[p] = "idle"
        \/ /\ pc'[p] = "source"
           /\ scan'[p].todo = SourcesOf(scan[p].adapter)
           /\ scan'[p].adapter = scan[p].adapter
    BY <1>1, <1>5, <2>1 DEF Discover, Stop, Goto, TypeOK, Scans
  <2> QED BY <2>2, <2>3 DEF Finished, Busy
<1>6. CASE PassOver(p)
  <2>1. PICK s \in scan[p].todo :
          scan' = [scan EXCEPT ![p].todo = @ \ {s}, ![p].outside = TRUE]
    BY <1>6 DEF PassOver
  <2>2. /\ UNCHANGED <<registry, coverage, crashes, pc, at>>
        /\ pc[p] = "source" /\ scan[p] \in Scans
    BY <1>1, <1>6 DEF PassOver, store, ScanOK
  <2>3. /\ scan'[p].todo = scan[p].todo \ {s} /\ scan'[p].outside = TRUE
        /\ scan'[p].adapter = scan[p].adapter
    BY <1>1, <2>1, <2>2 DEF TypeOK, Scans
  <2> QED BY <1>1, <2>2, <2>3 DEF Finished, RowTells, Busy, RowOK
<1>7. CASE Fingerprint(p)
  <2>1. PICK s \in scan[p].todo :
          \/ /\ scan' = [scan EXCEPT ![p].todo = @ \ {s}, ![p].failed = TRUE]
             /\ UNCHANGED <<pc, at>>
          \/ /\ scan' = [scan EXCEPT ![p].todo = @ \ {s}]
             /\ Goto(p, "check")
             /\ at' = [at EXCEPT ![p] =
                  [source |-> s, records |-> <<>>, next |-> 1, print |-> PrintOf(p, s)]]
    BY <1>7 DEF Fingerprint
  <2>2. /\ UNCHANGED <<registry, coverage, crashes>>
        /\ pc[p] = "source" /\ scan[p] \in Scans
    BY <1>1, <1>7 DEF Fingerprint, store, ScanOK
  <2>3. /\ scan'[p].todo = scan[p].todo \ {s} /\ scan'[p].adapter = scan[p].adapter
        /\ scan'[p].outside = scan[p].outside
        /\ \/ scan'[p].failed = TRUE /\ pc'[p] = "source"
           \/ /\ scan'[p].failed = scan[p].failed
              /\ pc'[p] = "check" /\ at'[p].source = s
    BY <1>1, <2>1, <2>2 DEF TypeOK, Scans, Goto
  <2> QED BY <1>1, <2>2, <2>3 DEF Finished, RowTells, Busy, RowOK
<1>8. CASE Skip(p)
  <2>1. /\ UNCHANGED <<registry, coverage, crashes, scan>>
        /\ pc[p] = "check" /\ pc'[p] = "source"
        /\ registry[at[p].source] = [status |-> "ok", print |-> at[p].print]
    BY <1>1, <1>8 DEF Skip, Unchanged, Leave, Goto, store, TypeOK
  <2>2. at[p].source \in Sources /\ at[p].print \in Prints
    BY <1>1, <2>1 DEF ScanOK, AtSource, Places
  <2>3. RowOK(at[p].source)
    BY <2>1, <2>2, ConstantsAssumption DEF RowOK, Rows
  <2> QED BY <1>1, <2>1, <2>3 DEF Finished, RowTells, Busy, RowOK
<1>9. CASE Open(p) \/ Lookup(p) \/ Insert(p)
  <2>1. /\ UNCHANGED <<registry, coverage, crashes, scan>>
        /\ pc[p] \in {"check", "read", "insert"} /\ pc'[p] \in {"read", "insert"}
    BY <1>1, <1>9 DEF Open, Lookup, Insert, Goto, store, TypeOK
  <2>2. at[p] \in Places
    BY <1>1, <2>1 DEF ScanOK, AtSource
  <2>3. at'[p].source = at[p].source
    BY <1>1, <1>9, <2>2 DEF Open, Lookup, Insert, TypeOK, Places
  <2> QED BY <1>1, <2>1, <2>3 DEF Finished, RowTells, Busy, RowOK
<1>10. ASSUME NEW status \in {"ok", "error"}, pc[p] \in {"read", "insert"},
              RecordSource(p, status)
       PROVE  Finished(p)' /\ RowTells(p)'
  <2> DEFINE row == [status |-> status, print |-> at[p].print]
  <2>1. /\ UNCHANGED <<coverage, crashes>> /\ pc'[p] = "source"
        /\ registry' = [registry EXCEPT ![at[p].source] = row]
        /\ scan' = [scan EXCEPT ![p].failed = @ \/ status = "error"]
    BY <1>1, <1>10 DEF RecordSource, Leave, Goto, TypeOK
  <2>2. /\ scan[p] \in Scans /\ at[p].source \in Sources /\ at[p].print \in Prints
    BY <1>1, <1>10 DEF ScanOK, AtSource, Places
  <2>3. /\ scan'[p].todo = scan[p].todo /\ scan'[p].adapter = scan[p].adapter
        /\ scan'[p].outside = scan[p].outside
        /\ scan[p].failed \/ status = "error" => scan'[p].failed
    BY <1>1, <2>1, <2>2 DEF TypeOK, Scans
  <2>4. \A s \in Sources : registry'[s] = IF s = at[p].source THEN row ELSE registry[s]
    BY <1>1, <2>1 DEF TypeOK
  <2>5. row \in Rows /\ row # None
    BY <2>2, ConstantsAssumption DEF Rows
  <2>6. \A s \in Sources : s # at[p].source => RowOK(s)' = RowOK(s)
    BY <2>4 DEF RowOK
  <2>7. status = "ok" => \A s \in Sources : s = at[p].source => RowOK(s)'
    BY <2>4, <2>5 DEF RowOK
  <2>8. SourcesOf(scan[p].adapter) \subseteq Sources
    BY <1>1, <1>10, <2>2 DEF ScanOK, Sources, Adapters, Scans
  <2>9. Finished(p)'
    <3> SUFFICES ASSUME NEW s \in SourcesOf(scan[p].adapter), s \notin scan[p].todo,
                        ~scan'[p].failed, ~scan'[p].outside
                 PROVE  RowOK(s)'
      BY <1>1, <1>10, <2>1, <2>3 DEF Finished, Busy
    <3>1. CASE s = at[p].source
      BY <2>2, <2>3, <2>7, <3>1
    <3>2. CASE s # at[p].source
      BY <1>1, <1>10, <2>3, <2>6, <2>8, <3>2 DEF Finished, Busy
    <3> QED BY <3>1, <3>2
  <2>10. RowTells(p)'
    <3> SUFFICES ASSUME NEW a \in Adapters, a # scan[p].adapter, crashes = 0,
                        coverage[a] = [status |-> "ok", outside |-> FALSE],
                        NEW s \in SourcesOf(a)
                 PROVE  RowOK(s)'
      BY <2>1, <2>3 DEF RowTells, Busy
    <3>1. RowOK(s)
      BY <1>1 DEF RowTells
    <3>2. at[p].source \in SourcesOf(scan[p].adapter)
      BY <1>1, <1>10 DEF Finished, Busy
    <3>3. s # at[p].source /\ s \in Sources
      BY <3>2, OwnSources DEF Sources
    <3> QED BY <2>6, <3>1, <3>3
  <2> QED BY <2>9, <2>10
<1>11. CASE RecordRun(p)
  <2>1. /\ UNCHANGED <<registry, crashes>>
        /\ pc[p] = "source" /\ pc'[p] = "adapter" /\ scan[p].todo = {}
        /\ scan[p] \in Scans /\ scan[p].adapter \in Adapters
    BY <1>1, <1>11 DEF RecordRun, Goto, TypeOK, ScanOK, Scans, Adapters
  <2>2. \A a \in Adapters :
          coverage'[a] = IF a = scan[p].adapter
                         THEN [status |-> RunStatus(p), outside |-> scan[p].outside]
                         ELSE coverage[a]
    BY <1>1, <1>11 DEF RecordRun, TypeOK
  <2>3. ASSUME NEW a \in Adapters, crashes = 0,
               coverage'[a] = [status |-> "ok", outside |-> FALSE],
               NEW s \in SourcesOf(a)
        PROVE  RowOK(s)
    <3>1. CASE a = scan[p].adapter
      <4>1. RunStatus(p) = "ok" /\ scan[p].outside = FALSE
        BY <2>2, <2>3, <3>1
      <4>2. ~scan[p].failed
        BY <4>1 DEF RunStatus
      <4> QED BY <1>1, <2>1, <3>1, <4>1, <4>2 DEF Finished, Busy
    <3>2. CASE a # scan[p].adapter
      BY <1>1, <2>2, <2>3, <3>2 DEF RowTells
    <3> QED BY <3>1, <3>2
  <2>4. RowTells(p)'
    BY <2>1, <2>3 DEF RowTells, RowOK
  <2> QED BY <2>1, <2>4 DEF Finished, Busy
<1>12. CASE Conflict(p) \/ ReadFails(p) \/ ReadEnds(p)
  <2>1. /\ pc[p] \in {"read", "insert"}
        /\ RecordSource(p, "ok") \/ RecordSource(p, "error")
    BY <1>12 DEF Conflict, ReadFails, ReadEnds
  <2> QED BY <1>10, <2>1
<1> QED BY <1>3, <1>4, <1>5, <1>6, <1>7, <1>8, <1>9, <1>11, <1>12 DEF Next, Step

\* An adapter whose latest run says "ok", with no source outside its window, has no
\* source whose latest reading failed, if one scan at a time works on the store and
\* none has died.
THEOREM CoverageIsTrue ==
  ASSUME "unreadable" \notin Ailments, IsFiniteSet(Procs)
  PROVE  Spec => []CoverageTells
<1>1. Init => CovInv
  <2> SUFFICES ASSUME Init, NEW p, Procs = {p} PROVE Finished(p) /\ RowTells(p)
    BY DEF CovInv
  <2>1. /\ pc[p] = "idle" /\ ~Busy(p)
        /\ \A a \in Adapters : coverage[a] = None
    <3>1. p \in Procs
      OBVIOUS
    <3> QED BY <3>1 DEF Init, Busy
  <2>2. None # [status |-> "ok", outside |-> FALSE]
    <3>1. [status |-> "ok", outside |-> FALSE] \in Runs
      BY DEF Runs
    <3>2. None \notin Runs
      BY ConstantsAssumption
    <3> QED BY <3>1, <3>2
  <2> QED BY <2>1, <2>2 DEF Finished, RowTells
<1>2. IInv /\ CovInv /\ [Next]_vars => CovInv'
  BY CovNext
<1>3. IInv /\ CovInv => CoverageTells
  <2> SUFFICES ASSUME CovInv, NEW a \in Adapters,
                      coverage[a] = [status |-> "ok", outside |-> FALSE],
                      crashes = 0, Cardinality(Procs) = 1,
                      \A p \in Procs :
                        pc[p] = "idle" \/ scan[p].adapter # a \/ pc[p] = "adapter",
                      NEW s \in SourcesOf(a)
               PROVE  registry[s] # None /\ registry[s].status = "ok"
    BY DEF CoverageTells
  <2>1. PICK p : Procs = {p}
    BY FS_Singleton
  <2>2. RowTells(p) /\ ~(Busy(p) /\ scan[p].adapter = a)
    BY <2>1 DEF CovInv, Busy
  <2> QED BY <2>2 DEF RowTells, RowOK
<1> QED BY <1>1, <1>2, <1>3, Invariance, PTL DEF Spec
=============================================================================
