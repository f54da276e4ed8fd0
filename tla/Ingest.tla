------------------------------- MODULE Ingest -------------------------------
(***************************************************************************)
(* Incremental ingestion: Ingestor.run of src/milton/ingest.py, with the   *)
(* event side of src/milton/store.py (append_event, source_fingerprint,    *)
(* record_source, record_adapter_run), over native sources that other      *)
(* programs keep writing.                                                  *)
(*                                                                         *)
(* For each adapter in turn and each source it discovers, a scan           *)
(* fingerprints the source, skips it when the same fingerprint was         *)
(* recorded as "ok", and otherwise reads it record by record, appending    *)
(* each event with a SELECT and an INSERT that commit on their own.        *)
(* Nothing spans the records of a source: a scan can die half-way, and two *)
(* scans can work on the same store.                                       *)
(*                                                                         *)
(* Adapters read in one of two ways.  Transcript adapters (JSONL) read the *)
(* file as it is while they go; database and git adapters read what the    *)
(* source held when the query ran.                                         *)
(***************************************************************************)
EXTENDS Integers, Sequences, FiniteSets

CONSTANTS
  Procs,       \* concurrent `milton scan` processes
  Last,        \* adapters are 1..Last, scanned in this order
  PerAdapter,  \* how many sources each adapter discovers
  Live,        \* the adapters that read a growing file as they go
  Policies,    \* content policies; the stored body depends on them
  Windows,     \* [since, until] options, --until exclusive; record i is recorded
               \* at time i, and no bound is one below or above all records
  Ailments,    \* "fingerprint", "read", "unreadable", "discover"
  MaxRecords,  \* bound: records in a source
  MaxEdits,    \* bound: changes of one native record after it was written
  MaxCrashes,  \* bound: scans that die
  None         \* Python's None, and no scan or no source under way

Adapters == 1..Last
SourcesOf(a) == {a} \X (1..PerAdapter[a])
Sources == UNION {SourcesOf(a) : a \in Adapters}
Ids     == Sources \X (1..MaxRecords)   \* event ids: one per native record
Configs == [policy : Policies, window : Windows, force : BOOLEAN]
Bodies  == [edit : 0..MaxEdits, policy : Policies]
Prints  == [version : Nat, policy : Policies, window : Windows]
Runs    == [status : {"ok", "error", "empty"}, outside : BOOLEAN]
Rows    == [status : {"ok", "error"}, print : Prints]

ASSUME ConstantsAssumption ==
  /\ Last \in Nat /\ PerAdapter \in [Adapters -> Nat]
  /\ MaxRecords \in Nat /\ MaxEdits \in Nat /\ MaxCrashes \in Nat
  /\ Live \subseteq Adapters
  /\ Windows \subseteq [since : Nat, until : Nat]
  /\ Ailments \subseteq {"fingerprint", "read", "unreadable", "discover"}
  /\ None \notin Sources \cup Bodies \cup Rows \cup Runs

VARIABLES
  content,   \* the native records of each source: how often each was edited
  version,   \* what size, mtime or refs tell of a source: changes with content
  health,    \* what is wrong with each source now, or "fine"
  events,    \* the events table: the stored body of each event id, or None
  registry,  \* adapter_sources: the row of each source, or None
  coverage,  \* each adapter's latest adapter_runs row, or None: its status, and
             \* whether a source was outside the window
  pc,        \* where each process is in Ingestor.run
  scan,      \* its options, adapter, sources to do, and whether one has failed
             \* or was outside the window
  at,        \* the source it is at: fingerprint, records queried, next record
  crashes

native == <<content, version, health>>
store  == <<events, registry, coverage>>
vars   == <<native, store, pc, scan, at, crashes>>

Scans  == [config : Configs, adapter : 1..(Last + 1), todo : SUBSET Sources,
           failed : BOOLEAN, outside : BOOLEAN]
Places == [source : Sources, print : Prints, records : Seq(0..MaxEdits),
           next : 1..(MaxRecords + 1)]

-----------------------------------------------------------------------------
Init ==
  /\ content = [s \in Sources |-> <<>>]
  /\ version = [s \in Sources |-> 0]
  /\ health = [s \in Sources |-> "fine"]
  /\ events = [id \in Ids |-> None]
  /\ registry = [s \in Sources |-> None]
  /\ coverage = [a \in Adapters |-> None]
  /\ pc = [p \in Procs |-> "idle"]
  /\ scan = [p \in Procs |-> None]
  /\ at = [p \in Procs |-> None]
  /\ crashes = 0

-----------------------------------------------------------------------------
(* The native sources *)

\* A transcript, ledger, database or repository gains a record.
Grow(s) ==
  /\ Len(content[s]) < MaxRecords
  /\ content' = [content EXCEPT ![s] = Append(@, 0)]
  /\ version' = [version EXCEPT ![s] = @ + 1]
  /\ UNCHANGED <<health, store, pc, scan, at, crashes>>

\* What an adapter puts in an event changes under the same native identity: a
\* branch now points at another commit (git's %D), a session is archived.
\* Transcripts are only appended to.
Edit(s) ==
  /\ s[1] \notin Live
  /\ \E i \in 1..Len(content[s]) :
       /\ content[s][i] < MaxEdits
       /\ content' = [content EXCEPT ![s][i] = @ + 1]
  /\ version' = [version EXCEPT ![s] = @ + 1]
  /\ UNCHANGED <<health, store, pc, scan, at, crashes>>

\* A source stops or starts being usable; its size and mtime do not change.
Ail(s) ==
  /\ \E h \in Ailments \cup {"fine"} : health' = [health EXCEPT ![s] = h]
  /\ UNCHANGED <<content, version, store, pc, scan, at, crashes>>

-----------------------------------------------------------------------------
(* The scan *)

Goto(p, label) == pc' = [pc EXCEPT ![p] = label]

\* Mutant: the first adapter is number 0.
StartAtZero(p) ==
  /\ pc[p] = "idle"
  /\ Goto(p, "adapter")
  /\ \E c \in Configs : scan' = [scan EXCEPT ![p] =
       [config |-> c, adapter |-> 0, todo |-> {}, failed |-> FALSE, outside |-> FALSE]]
  /\ UNCHANGED <<native, store, at, crashes>>

Start(p) ==
  /\ pc[p] = "idle"
  /\ Goto(p, "adapter")
  /\ \E c \in Configs : scan' = [scan EXCEPT ![p] =
       [config |-> c, adapter |-> 1, todo |-> {}, failed |-> FALSE, outside |-> FALSE]]
  /\ UNCHANGED <<native, store, at, crashes>>

Stop(p) ==
  /\ Goto(p, "idle")
  /\ scan' = [scan EXCEPT ![p] = None]
  /\ at' = [at EXCEPT ![p] = None]

\* There is an adapter left and its discovery does not raise.
Discoverable(a) ==
  a \in Adapters /\ \A s \in SourcesOf(a) : health[s] # "discover"

\* adapter.discover, outside every try: what it raises ends the scan.
Discover(p) ==
  /\ pc[p] = "adapter"
  /\ \/ /\ ~Discoverable(scan[p].adapter)
        /\ Stop(p)
     \/ /\ Discoverable(scan[p].adapter)
        /\ Goto(p, "source")
        /\ scan' = [scan EXCEPT ![p].todo = SourcesOf(scan[p].adapter),
                                ![p].failed = FALSE, ![p].outside = FALSE]
        /\ UNCHANGED at
  /\ UNCHANGED <<native, store, crashes>>

\* _file_predates: a transcript whose last record, and so its mtime, is older
\* than --since.  Databases and repositories are never passed over.
Predates(p, s) == s[1] \in Live /\ Len(content[s]) < scan[p].config.window.since

PassOver(p) ==
  /\ pc[p] = "source"
  /\ \E s \in scan[p].todo :
       /\ Predates(p, s)
       /\ scan' = [scan EXCEPT ![p].todo = @ \ {s}, ![p].outside = TRUE]
  /\ UNCHANGED <<native, store, pc, at, crashes>>

\* The state of a source and the options.
PrintOf(p, s) ==
  [version |-> version[s], policy |-> scan[p].config.policy, window |-> scan[p].config.window]

\* Mutant: the fingerprint is taken outside the try.
FingerprintRaises(p) ==
  /\ pc[p] = "source"
  /\ \E s \in {s \in scan[p].todo : ~Predates(p, s)} :
       \/ /\ health[s] = "fingerprint"
          /\ Stop(p)
       \/ /\ health[s] # "fingerprint"
          /\ scan' = [scan EXCEPT ![p].todo = @ \ {s}]
          /\ Goto(p, "check")
          /\ at' = [at EXCEPT ![p] =
               [source |-> s, records |-> <<>>, next |-> 1, print |-> PrintOf(p, s)]]
  /\ UNCHANGED <<native, store, crashes>>

\* The fingerprint of the next source.  An exception fails this source and leaves
\* its adapter_sources row alone.
Fingerprint(p) ==
  /\ pc[p] = "source"
  /\ \E s \in {s \in scan[p].todo : ~Predates(p, s)} :
       \/ /\ health[s] = "fingerprint"
          /\ scan' = [scan EXCEPT ![p].todo = @ \ {s}, ![p].failed = TRUE]
          /\ UNCHANGED <<pc, at>>
       \/ /\ health[s] # "fingerprint"
          /\ scan' = [scan EXCEPT ![p].todo = @ \ {s}]
          /\ Goto(p, "check")
          /\ at' = [at EXCEPT ![p] =
               [source |-> s, records |-> <<>>, next |-> 1, print |-> PrintOf(p, s)]]
  /\ UNCHANGED <<native, store, crashes>>

\* The source was ingested in this state with these options.
Unchanged(p) ==
  /\ ~scan[p].config.force
  /\ registry[at[p].source] = [status |-> "ok", print |-> at[p].print]

Leave(p) ==
  /\ Goto(p, "source")
  /\ at' = [at EXCEPT ![p] = None]

Skip(p) ==
  /\ pc[p] = "check"
  /\ Unchanged(p)
  /\ Leave(p)
  /\ UNCHANGED <<native, store, scan, crashes>>

\* adapter.read returns an iterator: records are produced as they are consumed.
Open(p) ==
  /\ pc[p] = "check"
  /\ ~Unchanged(p)
  /\ Goto(p, "read")
  /\ at' = [at EXCEPT ![p].records = content[at[p].source]]
  /\ UNCHANGED <<native, store, scan, crashes>>

\* What the reader can still see: the file as it is, or the query's result.
Visible(p) ==
  IF scan[p].adapter \in Live THEN content[at[p].source] ELSE at[p].records

Here(p)    == at[p].next
EventId(p) == <<at[p].source, Here(p)>>
Body(p)    == [edit |-> Visible(p)[Here(p)], policy |-> scan[p].config.policy]

\* An adapter tells nothing of a record before --since, and the scan passes over
\* one at or after --until.
Inside(i, window) == window.since <= i /\ i < window.until
InWindow(p) == Inside(Here(p), scan[p].config.window)

\* Mutants: the fingerprint is taken after the source was read; the failure is
\* not counted.
RecordSourceLate(p, status) ==
  /\ registry' = [registry EXCEPT ![at[p].source] =
       [status |-> status,
        print |-> [at[p].print EXCEPT !.version = version[at[p].source]]]]
  /\ scan' = [scan EXCEPT ![p].failed = @ \/ status = "error"]
  /\ Leave(p)
  /\ UNCHANGED <<native, events, coverage, crashes>>

RecordSourceUncounted(p, status) ==
  /\ registry' = [registry EXCEPT ![at[p].source] =
       [status |-> status, print |-> at[p].print]]
  /\ Leave(p)
  /\ UNCHANGED <<native, events, coverage, scan, crashes>>

\* record_source, once the reader has ended or an exception has stopped it.
RecordSource(p, status) ==
  /\ registry' = [registry EXCEPT ![at[p].source] =
       [status |-> status, print |-> at[p].print]]
  /\ scan' = [scan EXCEPT ![p].failed = @ \/ status = "error"]
  /\ Leave(p)
  /\ UNCHANGED <<native, events, coverage, crashes>>

\* append_event's SELECT: a replay is passed over, a new event goes on to the
\* INSERT.
Lookup(p) ==
  /\ pc[p] = "read"
  /\ Here(p) <= Len(Visible(p))
  /\ \/ /\ InWindow(p) => events[EventId(p)] = Body(p)
        /\ at' = [at EXCEPT ![p].next = @ + 1]
        /\ UNCHANGED pc
     \/ /\ InWindow(p)
        /\ events[EventId(p)] = None
        /\ Goto(p, "insert")
        /\ UNCHANGED at
  /\ UNCHANGED <<native, store, scan, crashes>>

\* Mutant: INSERT OR REPLACE.
InsertOrReplace(p) ==
  /\ pc[p] = "insert"
  /\ events' = [events EXCEPT ![EventId(p)] = Body(p)]
  /\ at' = [at EXCEPT ![p].next = @ + 1]
  /\ Goto(p, "read")
  /\ UNCHANGED <<native, registry, coverage, scan, crashes>>

\* append_event's INSERT commits.
Insert(p) ==
  /\ pc[p] = "insert"
  /\ events[EventId(p)] = None
  /\ events' = [events EXCEPT ![EventId(p)] = Body(p)]
  /\ at' = [at EXCEPT ![p].next = @ + 1]
  /\ Goto(p, "read")
  /\ UNCHANGED <<native, registry, coverage, scan, crashes>>

\* RecordConflictError: the SELECT finds other content under the id, or the
\* INSERT finds the id taken since, even by the same content.  The records
\* after this one are not tried.
Conflict(p) ==
  /\ \/ /\ pc[p] = "read"
        /\ Here(p) <= Len(Visible(p))
        /\ InWindow(p)
        /\ events[EventId(p)] \notin {None, Body(p)}
     \/ pc[p] = "insert" /\ events[EventId(p)] # None
  /\ RecordSource(p, "error")

\* The reader raises (say, on bytes that are not UTF-8): the source has failed.
ReadFails(p) ==
  /\ pc[p] = "read"
  /\ health[at[p].source] = "read"
  /\ RecordSource(p, "error")

\* The reader ends: at the end of what it can see, or because the source could
\* not be opened or queried, which adapters turn into a warning and a return.
ReadEnds(p) ==
  /\ pc[p] = "read"
  /\ \/ Here(p) > Len(Visible(p))
     \/ health[at[p].source] = "unreadable"
  /\ RecordSource(p, "ok")

RunStatus(p) ==
  CASE scan[p].failed -> "error"
    [] ~scan[p].failed /\ SourcesOf(scan[p].adapter) = {} -> "empty"
    [] OTHER -> "ok"

\* record_adapter_run, and on to the next adapter.
RecordRun(p) ==
  /\ pc[p] = "source"
  /\ scan[p].todo = {}
  /\ coverage' = [coverage EXCEPT ![scan[p].adapter] =
       [status |-> RunStatus(p), outside |-> scan[p].outside]]
  /\ Goto(p, "adapter")
  /\ scan' = [scan EXCEPT ![p].adapter = @ + 1]
  /\ UNCHANGED <<native, events, registry, at, crashes>>

\* The scan is killed; what it committed stays.
Crash(p) ==
  /\ pc[p] # "idle"
  /\ crashes < MaxCrashes
  /\ crashes' = crashes + 1
  /\ Stop(p)
  /\ UNCHANGED <<native, store>>

Step(p) ==
  \/ Discover(p) \/ PassOver(p) \/ Fingerprint(p) \/ Skip(p) \/ Open(p) \/ Lookup(p)
  \/ Insert(p) \/ Conflict(p) \/ ReadFails(p) \/ ReadEnds(p) \/ RecordRun(p)

Next ==
  \/ \E s \in Sources : Grow(s) \/ Edit(s) \/ Ail(s)
  \/ \E p \in Procs : Start(p) \/ Step(p) \/ Crash(p)

Spec == Init /\ [][Next]_vars

\* A scan that runs keeps running, and someone keeps scanning.
FairSpec == Spec /\ \A p \in Procs : WF_vars(Start(p)) /\ WF_vars(Step(p))

-----------------------------------------------------------------------------
(* Properties *)

TypeOK ==
  /\ content \in [Sources -> Seq(0..MaxEdits)]
  /\ \A s \in Sources : Len(content[s]) <= MaxRecords
  /\ version \in [Sources -> Nat]
  /\ health \in [Sources -> Ailments \cup {"fine"}]
  /\ events \in [Ids -> Bodies \cup {None}]
  /\ registry \in [Sources -> Rows \cup {None}]
  /\ coverage \in [Adapters -> Runs \cup {None}]
  /\ pc \in [Procs -> {"idle", "adapter", "source", "check", "read", "insert"}]
  /\ scan \in [Procs -> Scans \cup {None}]
  /\ at \in [Procs -> Places \cup {None}]
  /\ crashes \in 0..MaxCrashes

\* Record i of s is in the store.
Stored(s, i) == events[<<s, i>>] # None

\* What skipping an unchanged source rests on: when adapter_sources says that s
\* is "ok" with the fingerprint s has now, each of its records inside that
\* window is in the store, however the source grew while it was read, whatever
\* died and whoever else was scanning.
SkipLosesNothing ==
  \A s \in Sources :
    /\ registry[s] # None
    /\ registry[s].status = "ok"
    /\ registry[s].print.version = version[s]
    => \A i \in 1..Len(content[s]) : Inside(i, registry[s].print.window) => Stored(s, i)

\* append_event never replaces what is stored, though another scan may insert
\* between its SELECT and its INSERT, under another content policy.
NeverReplaces ==
  [][\A id \in Ids : events[id] # None => events'[id] = events[id]]_events

\* "Adapter failures are isolated and persisted as coverage state" (README.md):
\* unless a scan died or another one was running, an adapter whose latest run is
\* "ok" and left no source outside its window has none whose latest reading failed.
CoverageTells ==
  \A a \in Adapters :
    /\ coverage[a] = [status |-> "ok", outside |-> FALSE]
    /\ crashes = 0 /\ Cardinality(Procs) = 1
    /\ \A p \in Procs : pc[p] = "idle" \/ scan[p].adapter # a \/ pc[p] = "adapter"
    => \A s \in SourcesOf(a) : registry[s] # None /\ registry[s].status = "ok"

\* "one unavailable source cannot block the rest" (README.md): the records of a
\* source that is usable from some point on get stored, whatever happens to the
\* other sources, provided that scans whose windows include them are repeated.
Isolated ==
  \A s \in Sources : \A i \in {i \in 1..MaxRecords : \A w \in Windows : Inside(i, w)} :
    <>[](health[s] = "fine") => [](i <= Len(content[s]) => <>Stored(s, i))
=============================================================================
