---------------------------- MODULE SourceProofs ----------------------------
(***************************************************************************)
(* What the adapters tell, of any sources that are written as the module   *)
(* SourceWriting says, however long they get and in whatever order they    *)
(* are scanned.                                                            *)
(***************************************************************************)
EXTENDS EvidenceIndexProofs

-----------------------------------------------------------------------------
(* What is told of Codex rollouts.                                         *)

CostKeys(E) == {e.key[3] : e \in {e \in E : e.kind = "cost"}}
OwnUsage(lines, n) == {i \in 1..n : lines[i].type = "token_count" /\ ~lines[i].inherited}

\* A payload says nothing of the kind of its event.
LEMMA NormalizedIs ==
  ASSUME NEW adapter, NEW kind, NEW native, NEW at, NEW session, NEW parent, NEW payload,
         "kind" \notin DOMAIN payload
  PROVE  LET e == NormalizedEvent(adapter, kind, native, at, session, parent, payload)
         IN  e.kind = kind /\ ("key" \in DOMAIN payload => e.key = payload.key)
BY DEF NormalizedEvent

\* What the reader remembers has its fields.
ReaderOK(s) ==
  /\ DOMAIN s = {"session", "skipping", "turns", "model", "pending", "emitted"}
  /\ DOMAIN s.emitted = {"events", "crosswalks", "relations"}

\* A line that tells no cost, and that the reader goes on behind as before.
Quiet(before, after) ==
  /\ ReaderOK(after)
  /\ after.session = before.session /\ after.skipping = before.skipping /\ after.turns = before.turns
  /\ CostKeys(after.emitted.events) = CostKeys(before.emitted.events)

LEMMA EmitIs ==
  ASSUME NEW s, ReaderOK(s), NEW E
  PROVE  /\ ReaderOK(Emit(s, E))
         /\ Emit(s, E).session = s.session /\ Emit(s, E).skipping = s.skipping /\ Emit(s, E).turns = s.turns
         /\ Emit(s, E).emitted.events = s.emitted.events \cup E
<1> DEFINE emitted == Both(s.emitted, Yield(E, {}, {}))
<1>1. Emit(s, E) = [s EXCEPT !.emitted = emitted]
  BY DEF Emit
<1>2. DOMAIN emitted = {"events", "crosswalks", "relations"} /\ emitted.events = s.emitted.events \cup E
  BY DEF Both, Yield, ReaderOK
<1> HIDE DEF emitted
<1> QED BY <1>1, <1>2 DEF ReaderOK

LEMMA EmitQuiet ==
  ASSUME NEW s, ReaderOK(s), NEW E, \A e \in E : e.kind # "cost"
  PROVE  Quiet(s, Emit(s, E))
<1>1. CostKeys(s.emitted.events \cup E) = CostKeys(s.emitted.events)
  BY DEF CostKeys
<1> QED BY <1>1, EmitIs DEF Quiet

\* All lines but those of tokens are quiet.
LEMMA LinesAreQuiet ==
  ASSUME NEW s, ReaderOK(s), NEW line, NEW n
  PROVE  /\ Quiet(s, ReadMessage(s, line, n)) /\ Quiet(s, ReadCall(s, line, n))
         /\ Quiet(s, ReadOutput(s, line)) /\ Quiet(s, ReadComplete(s, line, n))
<1>1. Quiet(s, ReadMessage(s, line, n))
  <2> DEFINE native == IF line.id # None THEN <<line.id>> ELSE <<s.session, n>>
             turn == NormalizedEvent("codex", "turn", <<"message", native>>, line.at,
                                     Sid(s.session), None, [role |-> line.role])
             call == NormalizedEvent("codex", "model_call", <<"model", native>>, line.at,
                                     Sid(s.session), None, [model |-> s.model])
             E == (IF line.text THEN {turn} ELSE {}) \cup (IF line.role = "assistant" THEN {call} ELSE {})
  <2>1. turn.kind = "turn" /\ call.kind = "model_call"
    BY NormalizedIs
  <2>2. ReadMessage(s, line, n) = Emit(s, E)
    BY DEF ReadMessage
  <2> HIDE DEF turn, call
  <2>3. \A e \in E : e.kind # "cost"
    BY <2>1
  <2> HIDE DEF E
  <2> QED BY <2>2, <2>3, EmitQuiet
<1>2. Quiet(s, ReadCall(s, line, n))
  BY DEF ReadCall, Quiet, ReaderOK
<1>3. Quiet(s, ReadOutput(s, line))
  <2> DEFINE waiting == {p \in s.pending : p.call = line.call}
             t == [s EXCEPT !.pending = @ \ waiting]
             E == {CodexTool(s.session, p, line.output) : p \in waiting}
  <2>1. ReaderOK(t) /\ Quiet(s, t)
    BY DEF ReaderOK, Quiet
  <2>2. \A p : CodexTool(s.session, p, line.output).kind = "tool_call"
    BY NormalizedIs DEF CodexTool
  <2>3. \A e \in E : e.kind # "cost"
    BY <2>2
  <2>4. ReadOutput(s, line) = Emit(t, E)
    BY DEF ReadOutput
  <2> HIDE DEF t, E
  <2>5. Quiet(t, Emit(t, E))
    BY <2>1, <2>3, EmitQuiet
  <2> QED BY <2>1, <2>4, <2>5 DEF Quiet
<1>4. Quiet(s, ReadComplete(s, line, n))
  <2> DEFINE turn == IF line.turn # None THEN line.turn ELSE n
             e == NormalizedEvent("codex", "outcome", <<"task", s.session, turn>>, line.at,
                                  Sid(s.session), None, OutcomePayload("task", "succeeded", turn))
  <2>1. e.kind = "outcome"
    BY NormalizedIs DEF OutcomePayload
  <2>2. ReadComplete(s, line, n) = Emit(s, {e})
    BY DEF ReadComplete
  <2> HIDE DEF e
  <2> QED BY <2>1, <2>2, EmitQuiet
<1> QED BY <1>1, <1>2, <1>3, <1>4

\* A line of tokens tells one cost, of its number.
LEMMA UsageIs ==
  ASSUME NEW s, ReaderOK(s), NEW line, NEW n
  PROVE  LET after == ReadUsage(s, line, n)
         IN  /\ ReaderOK(after)
             /\ after.session = s.session /\ after.skipping = s.skipping /\ after.turns = s.turns
             /\ CostKeys(after.emitted.events) = CostKeys(s.emitted.events) \cup {n}
<1> DEFINE key == <<"codex.usage", s.session, n>>
           payload == [role |-> "unknown", amount |-> None, tokens |-> line.tokens, authority |-> "codex",
                       key |-> key, scope |-> "source", model |-> s.model,
                       economic |-> "unknown", basis |-> "unknown", accuracy |-> "unknown"]
           e == NormalizedEvent("codex", "cost", <<"usage", s.session, n>>, line.at,
                                Sid(s.session), None, payload)
<1>1. "kind" \notin DOMAIN payload /\ "key" \in DOMAIN payload /\ payload.key = key
  OBVIOUS
<1>2. key[3] = n
  OBVIOUS
<1>3. ReadUsage(s, line, n) = Emit(s, {e})
  BY DEF ReadUsage
<1> HIDE DEF payload, key
<1>4. e.kind = "cost" /\ e.key[3] = n
  BY <1>1, <1>2, NormalizedIs
<1> HIDE DEF e
<1>5. CostKeys(s.emitted.events \cup {e}) = CostKeys(s.emitted.events) \cup {n}
  BY <1>4 DEF CostKeys
<1> HIDE DEF e
<1> DEFINE after == Emit(s, {e})
<1>6. /\ ReaderOK(after) /\ after.emitted.events = s.emitted.events \cup {e}
      /\ after.session = s.session /\ after.skipping = s.skipping /\ after.turns = s.turns
  BY EmitIs
<1> HIDE DEF after
<1>7. CostKeys(after.emitted.events) = CostKeys(s.emitted.events) \cup {n}
  BY <1>5, <1>6
<1> QED BY <1>3, <1>6, <1>7 DEF after

\* What the reader is in, line by line: the recursion has a solution.
LEMMA ReaderGoesOn ==
  ASSUME NEW lines, Len(lines) \in Nat, NEW rollouts, NEW since
  PROVE  \E f : /\ f[0] = Unread
                /\ \A n \in 1..Len(lines) : f[n] = ReadLine(f[n - 1], lines[n], n, rollouts, since)
                /\ ReadCodex(lines, rollouts, since) = f[Len(lines)].emitted
<1> DEFINE read(s, n) == ReadLine(s, lines[n], n, rollouts, since)
           eq(f, m) == f = [n \in 0..m |-> IF n = 0 THEN Unread ELSE read(f[n - 1], n)]
           P == {m \in Nat : \E f : eq(f, m)}
           state == CHOOSE f : eq(f, Len(lines))
<1>1. ReadCodex(lines, rollouts, since) = state[Len(lines)].emitted
  BY DEF ReadCodex
<1> HIDE DEF read
<1>2. 0 \in P
  <2> DEFINE f == [n \in 0..0 |-> Unread]
  <2>1. f = [n \in 0..0 |-> IF n = 0 THEN Unread ELSE read(f[n - 1], n)]
    OBVIOUS
  <2> HIDE DEF f
  <2> QED BY <2>1
<1>3. ASSUME NEW m \in Nat, m \in P PROVE m + 1 \in P
  <2>1. PICK f : eq(f, m)
    BY <1>3
  <2> DEFINE g == [n \in 0..(m + 1) |-> IF n = m + 1 THEN read(f[m], n) ELSE f[n]]
  <2>2. ASSUME NEW n \in 0..(m + 1) PROVE g[n] = IF n = 0 THEN Unread ELSE read(g[n - 1], n)
    <3>1. CASE n = m + 1
      <4>1. n - 1 = m /\ n # 0 /\ m \in 0..(m + 1) /\ m # m + 1
        BY <3>1
      <4>2. g[m] = f[m]
        BY <4>1
      <4> QED BY <3>1, <4>1, <4>2
    <3>2. CASE n # m + 1
      <4>1. n \in 0..m
        BY <3>2
      <4>2. f[n] = IF n = 0 THEN Unread ELSE read(f[n - 1], n)
        BY <2>1, <4>1
      <4>3. g[n] = f[n]
        BY <3>2
      <4>4. n # 0 => g[n - 1] = f[n - 1]
        <5>1. n # 0 => n - 1 \in 0..(m + 1) /\ n - 1 # m + 1
          BY <4>1
        <5> QED BY <5>1
      <4> HIDE DEF g
      <4> QED BY <4>2, <4>3, <4>4
    <3> QED BY <3>1, <3>2
  <2>3. g = [n \in 0..(m + 1) |-> g[n]]
    OBVIOUS
  <2> HIDE DEF g
  <2>4. eq(g, m + 1)
    BY <2>2, <2>3
  <2> QED BY <2>4
<1>4. \E f : eq(f, Len(lines))
  <2> HIDE DEF P
  <2>1. Nat \subseteq P
    BY <1>2, <1>3, Induction
  <2>2. Len(lines) \in P
    BY <2>1
  <2> QED BY <2>2 DEF P
<1>5. eq(state, Len(lines))
  <2> HIDE DEF eq
  <2> QED BY <1>4
<1> HIDE DEF state
<1>6. /\ state[0] = Unread
      /\ \A n \in 1..Len(lines) : state[n] = read(state[n - 1], n)
  BY <1>5
<1> QED BY <1>1, <1>6 DEF read

\* What becomes of the reader at a line: it passes over what is copied, before the
\* window or of no interest, and takes in what is its own.
Passed(s, t) == ReaderOK(t) /\ t.model = s.model /\ t.pending = s.pending /\ t.emitted = s.emitted
TakenIn(s, t, line, n) ==
  \/ line.type = "message" /\ t = ReadMessage(s, line, n)
  \/ line.type = "call" /\ t = ReadCall(s, line, n)
  \/ line.type = "output" /\ t = ReadOutput(s, line)
  \/ line.type = "token_count" /\ t = ReadUsage(s, line, n)
  \/ line.type = "task_complete" /\ t = ReadComplete(s, line, n)
ToldTypes == {"message", "call", "output", "token_count", "task_complete"}
GoesThrough(s, t, line, n, since) ==
  \/ /\ Passed(s, t)
     /\ line.inherited \/ line.type \notin ToldTypes \cup {"turn_context"}
          \/ (line.type \in ToldTypes /\ line.at < since)
  \/ /\ ~line.inherited /\ line.type = "turn_context"
     /\ t = [s EXCEPT !.model = IF line.model # None THEN line.model ELSE @]
  \/ ~line.inherited /\ ~(line.at < since) /\ TakenIn(s, t, line, n)

\* The first line opens the session, and then, while the reader passes over lines,
\* they are copied; while it does not, they are the session's own.
LEMMA ReaderPasses ==
  ASSUME NEW lines, NEW rollouts, RolloutOK(lines, rollouts), NEW since
  PROVE  \E f : /\ ReadCodex(lines, rollouts, since) = f[Len(lines)].emitted
                /\ f[0] = Unread
                /\ Len(lines) > 0 =>
                     LET opened == NormalizedEvent("codex", "session", lines[1].id, lines[1].at, None, None, <<>>)
                     IN  /\ f[1].emitted.events = {opened}
                         /\ f[1].model = None /\ f[1].pending = {}
                /\ \A n \in 1..Len(lines) : ReaderOK(f[n]) /\ f[n].session = lines[1].id
                /\ \A n \in 2..Len(lines) : GoesThrough(f[n - 1], f[n], lines[n], n, since)
<1> DEFINE forked == lines[1].parent \notin {None, lines[1].id}
           turns == IF forked THEN ParentTurns(lines[1].parent, lines[1].at, rollouts) ELSE None
           behind(i) == IF i = 2 THEN forked ELSE lines[i - 1].inherited
           size == Len(lines)
           opened == NormalizedEvent("codex", "session", lines[1].id, lines[1].at, None, None, <<>>)
<1>1. /\ size \in Nat
      /\ size > 0 => lines[1].type = "session_meta" /\ lines[1].id # None /\ ~lines[1].inherited
      /\ \A i \in 2..size :
           IF lines[i].inherited
           THEN /\ behind(i) \/ (i = 2 /\ lines[i].type = "session_meta")
                /\ lines[i].type = "task_started" => turns # None /\ lines[i].turn \in turns \cup {None}
           ELSE /\ lines[i].type # "session_meta"
                /\ behind(i) => /\ lines[i].type = "task_started" /\ lines[i].turn # None
                                /\ turns = None \/ lines[i].turn \notin turns
  <2>1. Len(lines) > 0 => lines # <<>>
    OBVIOUS
  <2> QED BY <2>1 DEF RolloutOK
<1>2. PICK f : /\ f[0] = Unread
               /\ \A n \in 1..size : f[n] = ReadLine(f[n - 1], lines[n], n, rollouts, since)
               /\ ReadCodex(lines, rollouts, since) = f[size].emitted
  BY <1>1, ReaderGoesOn
<1> HIDE DEF turns, forked, size, opened
<1> DEFINE known(n) == /\ ReaderOK(f[n])
                       /\ f[n].session = lines[1].id /\ f[n].turns = turns
                       /\ f[n].skipping <=> behind(n + 1)
           P == {n \in Nat : n + 1 \in 1..size => known(n + 1)}
<1>3. 1 \in 1..size => known(1) /\ f[1].emitted.events = {opened} /\ f[1].model = None /\ f[1].pending = {}
  <2> SUFFICES ASSUME 1 \in 1..size
               PROVE  known(1) /\ f[1].emitted.events = {opened} /\ f[1].model = None /\ f[1].pending = {}
    OBVIOUS
  <2> DEFINE E == Yield({opened},
                    IF forked THEN {CrosswalkRecord(Ref("codex.session", lines[1].id),
                                                    Ref("codex.session", lines[1].parent))}
                    ELSE {}, {})
             emitted == Both(Unread.emitted, E)
  <2>1. lines[1].type = "session_meta" /\ lines[1].id # None
    BY <1>1
  <2>2. /\ ReaderOK(Unread) /\ Unread.session = None /\ Unread.emitted = Nothing
        /\ Unread.model = None /\ Unread.pending = {}
    BY DEF Unread, ReaderOK, Nothing, Yield
  <2>3. f[1] = ReadLine(Unread, lines[1], 1, rollouts, since)
    BY <1>2
  <2>4. f[1] = ReadMeta(Unread, lines[1], rollouts)
    BY <2>1, <2>3 DEF ReadLine
  <2>5. f[1] = [Unread EXCEPT !.session = lines[1].id, !.skipping = forked, !.turns = turns, !.emitted = emitted]
    BY <2>1, <2>2, <2>4 DEF ReadMeta, forked, turns, opened
  <2>6. DOMAIN emitted = {"events", "crosswalks", "relations"} /\ emitted.events = {opened}
    BY <2>2 DEF Both, Yield, Nothing
  <2> HIDE DEF E, emitted
  <2>7. /\ ReaderOK(f[1]) /\ f[1].session = lines[1].id /\ f[1].skipping = forked /\ f[1].turns = turns
        /\ f[1].emitted = emitted /\ f[1].model = None /\ f[1].pending = {}
    BY <2>2, <2>5, <2>6 DEF ReaderOK, Unread
  <2>8. behind(1 + 1) <=> forked
    OBVIOUS
  <2> QED BY <2>6, <2>7, <2>8
<1>4. ASSUME NEW n \in Nat, n + 1 \in 1..size, known(n + 1), n + 2 \in 1..size
      PROVE  known(n + 2) /\ GoesThrough(f[n + 1], f[n + 2], lines[n + 2], n + 2, since)
  <2> DEFINE m == n + 2
             line == lines[m]
             s == f[m - 1]
             t == f[m]
  <2>1. m \in 2..size /\ m - 1 \in 1..size /\ m - 1 = n + 1
    BY <1>1, <1>4
  <2>2. ReaderOK(s) /\ s.session = lines[1].id /\ s.session # None /\ s.turns = turns /\ (s.skipping <=> behind(m))
    BY <1>1, <1>4, <2>1
  <2>3. t = ReadLine(s, line, m, rollouts, since)
    BY <1>2, <2>1
  <2>4. IF line.inherited
        THEN /\ behind(m) \/ line.type = "session_meta"
             /\ line.type = "task_started" => turns # None /\ line.turn \in turns \cup {None}
        ELSE /\ line.type # "session_meta"
             /\ behind(m) => /\ line.type = "task_started" /\ line.turn # None
                             /\ turns = None \/ line.turn \notin turns
    BY <1>1, <2>1
  <2>5. behind(m + 1) <=> line.inherited
    OBVIOUS
  <2> HIDE DEF behind, m, line, s, t
  <2> SUFFICES /\ ReaderOK(t) /\ t.session = lines[1].id /\ t.turns = turns /\ (t.skipping <=> line.inherited)
               /\ GoesThrough(s, t, line, m, since)
    BY <2>1, <2>5 DEF t, s, m, line
  <2>6. CASE line.type = "malformed"
    <3>1. t = s
      BY <2>3, <2>6 DEF ReadLine
    <3> QED BY <2>2, <2>4, <2>6, <3>1 DEF GoesThrough, Passed, ToldTypes
  <2>7. CASE line.type = "session_meta"
    <3>1. t = [s EXCEPT !.skipping = TRUE]
      BY <2>2, <2>3, <2>7 DEF ReadLine, ReadMeta
    <3> QED BY <2>2, <2>4, <2>7, <3>1 DEF ReaderOK, GoesThrough, Passed, ToldTypes
  <2>8. CASE line.type \notin {"malformed", "session_meta"} /\ s.skipping
    <3> DEFINE ends == /\ line.type = "task_started"
                       /\ s.turns = None \/ (line.turn # None /\ line.turn \notin s.turns)
    <3>1. t = [s EXCEPT !.skipping = ~ends]
      BY <2>3, <2>8 DEF ReadLine, ReadInherited
    <3>2. ends <=> ~line.inherited
      BY <2>2, <2>4, <2>8
    <3>3. line.inherited \/ line.type = "task_started"
      BY <3>2
    <3> HIDE DEF ends
    <3> QED BY <2>2, <3>1, <3>2, <3>3 DEF ReaderOK, GoesThrough, Passed, ToldTypes
  <2>9. CASE line.type \notin {"malformed", "session_meta"} /\ ~s.skipping
    <3>1. ~line.inherited
      BY <2>2, <2>4, <2>9
    <3>2. CASE line.type = "turn_context"
      <4>1. t = [s EXCEPT !.model = IF line.model # None THEN line.model ELSE @]
        BY <2>3, <2>9, <3>2 DEF ReadLine
      <4> QED BY <2>2, <2>9, <3>1, <3>2, <4>1 DEF ReaderOK, GoesThrough
    <3>3. CASE line.type \in ToldTypes /\ ~(line.at < since)
      <4>1. TakenIn(s, t, line, m)
        BY <2>2, <2>3, <2>9, <3>3 DEF ReadLine, TakenIn, ToldTypes
      <4>2. GoesThrough(s, t, line, m, since)
        BY <3>1, <3>3, <4>1 DEF GoesThrough
      <4>3. CASE line.type = "token_count"
        <5>1. t = ReadUsage(s, line, m)
          BY <4>1, <4>3 DEF TakenIn
        <5> QED BY <2>2, <2>9, <3>1, <4>2, <5>1, UsageIs
      <4>4. CASE line.type # "token_count"
        <5>1. Quiet(s, t)
          BY <2>2, <4>1, <4>4, LinesAreQuiet DEF TakenIn
        <5> QED BY <2>2, <2>9, <3>1, <4>2, <5>1 DEF Quiet
      <4> QED BY <4>3, <4>4
    <3>4. CASE line.type \notin ToldTypes \cup {"turn_context"} \/ (line.type \in ToldTypes /\ line.at < since)
      <4>1. t = s
        BY <2>2, <2>3, <2>9, <3>4 DEF ReadLine, ToldTypes
      <4> QED BY <2>2, <2>9, <3>1, <3>4, <4>1 DEF GoesThrough, Passed
    <3> QED BY <3>2, <3>3, <3>4 DEF ToldTypes
  <2> QED BY <2>6, <2>7, <2>8, <2>9
<1> HIDE DEF known
<1>5. 0 \in P
  BY <1>3
<1>6. ASSUME NEW n \in Nat, n \in P PROVE n + 1 \in P
  <2>1. n + 1 + 1 = n + 2 /\ (n + 2 \in 1..size => n + 1 \in 1..size)
    BY <1>1
  <2> QED BY <1>4, <1>6, <2>1
<1>7. \A n \in 1..size : known(n)
  <2> HIDE DEF P
  <2>1. Nat \subseteq P
    BY <1>5, <1>6, Induction
  <2>2. \A n \in 1..size : n - 1 \in Nat /\ n - 1 + 1 = n
    BY <1>1
  <2> QED BY <2>1, <2>2 DEF P
<1>8. \A n \in 2..size : GoesThrough(f[n - 1], f[n], lines[n], n, since)
  <2> TAKE n \in 2..size
  <2>1. n - 2 \in Nat /\ n - 2 + 1 = n - 1 /\ n - 2 + 2 = n /\ n - 1 \in 1..size /\ n \in 1..size
    BY <1>1
  <2> QED BY <1>4, <1>7, <2>1
<1>9. size > 0 => f[1].emitted.events = {opened} /\ f[1].model = None /\ f[1].pending = {}
  BY <1>1, <1>3
<1>10. \A n \in 1..size : ReaderOK(f[n]) /\ f[n].session = lines[1].id
  BY <1>7 DEF known
<1> QED BY <1>2, <1>8, <1>9, <1>10 DEF size, opened

LEMMA ReaderKnows ==
  ASSUME NEW lines, NEW rollouts, RolloutOK(lines, rollouts)
  PROVE  CostKeys(ReadCodex(lines, rollouts, 0).events) = OwnUsage(lines, Len(lines))
<1> DEFINE size == Len(lines)
           opened == NormalizedEvent("codex", "session", lines[1].id, lines[1].at, None, None, <<>>)
<1>1. /\ size \in Nat /\ \A n \in 1..size : ~(lines[n].at < 0)
      /\ size > 0 => lines[1].type = "session_meta"
  <2>1. Len(lines) > 0 => lines # <<>>
    OBVIOUS
  <2> QED BY <2>1 DEF RolloutOK
<1>2. PICK f : /\ ReadCodex(lines, rollouts, 0) = f[size].emitted
               /\ f[0] = Unread
               /\ size > 0 => f[1].emitted.events = {opened}
               /\ \A n \in 1..size : ReaderOK(f[n])
               /\ \A n \in 2..size : GoesThrough(f[n - 1], f[n], lines[n], n, 0)
  BY ReaderPasses
<1>3. opened.kind = "session"
  BY NormalizedIs
<1> HIDE DEF size, opened
<1> DEFINE known(n) == CostKeys(f[n].emitted.events) = OwnUsage(lines, n)
           P == {n \in Nat : n + 1 \in 1..size => known(n + 1)}
<1>4. 0 \in P
  <2>1. ASSUME 1 \in 1..size PROVE known(1)
    <3>1. f[1].emitted.events = {opened} /\ lines[1].type = "session_meta"
      BY <1>1, <1>2, <2>1
    <3>2. CostKeys(f[1].emitted.events) = {}
      BY <1>3, <3>1 DEF CostKeys
    <3>3. OwnUsage(lines, 1) = {}
      BY <3>1 DEF OwnUsage
    <3> QED BY <3>2, <3>3
  <2> QED BY <2>1
<1>5. ASSUME NEW n \in Nat, n \in P PROVE n + 1 \in P
  <2> DEFINE m == n + 2
             line == lines[m]
             s == f[m - 1]
             t == f[m]
  <2> SUFFICES ASSUME m \in 1..size PROVE known(m)
    OBVIOUS
  <2>1. m \in 2..size /\ m - 1 \in 1..size /\ m - 1 = n + 1
    BY <1>1
  <2>2. ReaderOK(s) /\ CostKeys(s.emitted.events) = OwnUsage(lines, m - 1)
    BY <1>2, <1>5, <2>1
  <2>3. GoesThrough(s, t, line, m, 0) /\ ~(line.at < 0)
    BY <1>1, <1>2, <2>1
  <2>4. OwnUsage(lines, m) = OwnUsage(lines, m - 1)
                               \cup IF line.type = "token_count" /\ ~line.inherited THEN {m} ELSE {}
    <3>1. 1..m = (1..(m - 1)) \cup {m}
      OBVIOUS
    <3> QED BY <3>1 DEF OwnUsage
  <2> HIDE DEF m, line, s, t
  <2> SUFFICES CostKeys(t.emitted.events) = OwnUsage(lines, m)
    BY DEF t
  <2>5. CASE Passed(s, t) /\ ~(line.type = "token_count" /\ ~line.inherited)
    BY <2>2, <2>4, <2>5 DEF Passed
  <2>6. CASE line.type = "turn_context" /\ t = [s EXCEPT !.model = IF line.model # None THEN line.model ELSE @]
    BY <2>2, <2>4, <2>6 DEF ReaderOK
  <2>7. CASE ~line.inherited /\ TakenIn(s, t, line, m)
    <3>1. CASE line.type = "token_count"
      <4>1. t = ReadUsage(s, line, m)
        BY <2>7, <3>1 DEF TakenIn
      <4> QED BY <2>2, <2>4, <2>7, <3>1, <4>1, UsageIs
    <3>2. CASE line.type # "token_count"
      <4>1. Quiet(s, t)
        BY <2>2, <2>7, <3>2, LinesAreQuiet DEF TakenIn
      <4> QED BY <2>2, <2>4, <3>2, <4>1 DEF Quiet
    <3> QED BY <3>1, <3>2
  <2> QED BY <2>3, <2>5, <2>6, <2>7 DEF GoesThrough, ToldTypes
<1>6. CASE size = 0
  <2>1. f[size].emitted.events = {} /\ OwnUsage(lines, size) = {}
    BY <1>2, <1>6 DEF Unread, Nothing, Yield, OwnUsage
  <2> QED BY <1>2, <2>1 DEF CostKeys, size
<1>7. CASE size # 0
  <2> HIDE DEF P
  <2>1. Nat \subseteq P
    BY <1>4, <1>5, Induction
  <2>2. size - 1 \in P
    BY <1>1, <1>7, <2>1
  <2>3. known(size)
    <3>1. size - 1 + 1 = size /\ size \in 1..size
      BY <1>1, <1>7
    <3> QED BY <2>2, <3>1 DEF P
  <2> QED BY <1>2, <2>3 DEF size
<1> QED BY <1>6, <1>7

\* Of every Codex rollout, however its session was forked, the costs that are
\* told are those of its own lines, each once.
THEOREM ForksTellTheirOwn == LiveSpec => []ForksAddUp
<1>1. ASSUME IndexOK PROVE ForksAddUp
  <2> DEFINE codex == {n \in DOMAIN Content : Content[n].adapter = "codex"}
  <2>1. ASSUME NEW n \in codex
        PROVE  LET lines == Content[n].lines
                   told == UNION {r.events : r \in Readings(Content[n], Content, {}, 0)}
               IN  CostKeys(told) = OwnUsage(lines, Len(lines)) /\ DOMAIN lines = 1..Len(lines)
    <3> DEFINE lines == Content[n].lines
               rollouts == RolloutsOf(Content)
               reading == ReadCodex(lines, rollouts, 0)
    <3>1. RolloutOK(lines, rollouts)
      BY <1>1, RolloutsAssumption DEF IndexOK, Content
    <3>2. Readings(Content[n], Content, {}, 0) = {reading}
      BY DEF Readings, MemoryAdapters
    <3> HIDE DEF lines, rollouts
    <3>3. CostKeys(reading.events) = OwnUsage(lines, Len(lines))
      BY <3>1, ReaderKnows
    <3>4. DOMAIN lines = 1..Len(lines)
      BY <3>1 DEF RolloutOK
    <3> HIDE DEF reading
    <3>5. UNION {r.events : r \in Readings(Content[n], Content, {}, 0)} = reading.events
      BY <3>2
    <3> QED BY <3>3, <3>4, <3>5 DEF lines
  <2> QED BY <2>1 DEF ForksAddUp, CostKeys, OwnUsage
<1> QED BY <1>1, IndexHolds, PTL

-----------------------------------------------------------------------------
(* What is told of entries and receipts.                                   *)

\* An event that an adapter has found under a name.
FoundAs(e, adapter, kind, native) == e.adapter = adapter /\ e.kind = kind /\ e.native = native

LEMMA NamesAre ==
  ASSUME NEW adapter, NEW kind, NEW native, NEW at, NEW session, NEW parent, NEW payload,
         {"adapter", "kind", "native"} \cap DOMAIN payload = {}
  PROVE  FoundAs(NormalizedEvent(adapter, kind, native, at, session, parent, payload), adapter, kind, native)
BY DEF NormalizedEvent, FoundAs

LEMMA InAll ==
  ASSUME NEW yields, NEW e
  PROVE  e \in All(yields).events <=> \E y \in yields : e \in y.events
BY DEF All, Nothing

LEMMA InBoth ==
  ASSUME NEW y, NEW z, "events" \in DOMAIN y, NEW e
  PROVE  e \in Both(y, z).events <=> e \in y.events \/ e \in z.events
BY DEF Both

LEMMA InYield ==
  ASSUME NEW E, NEW X, NEW R
  PROVE  Yield(E, X, R).events = E /\ DOMAIN Yield(E, X, R) = {"events", "crosswalks", "relations"}
BY DEF Yield

SameName(e, f) == e.adapter = f.adapter /\ e.kind = f.kind /\ e.native = f.native

GateEvent(entry) ==
  LET class == GateClassification(entry)
      gate == GateCoordinate(entry)
  IN  NormalizedEvent("george", "gate_evidence", entry.id, entry.at, None, EntryEventId(entry),
        [evidence |-> class.kind, coordinate |-> gate.at, ambiguous |-> gate.ambiguous,
         mint |-> class.mint, status |-> class.status, consultation |-> class.consultation])

LEMMA EntryTells ==
  ASSUME NEW entry, NEW e \in ReadEntry(entry).events
  PROVE  \/ e = EntryEvent(entry) /\ FoundAs(e, "george", "outcome", entry.id)
         \/ e = GateEvent(entry) /\ FoundAs(e, "george", "gate_evidence", entry.id)
<1>1. DispositionRecords(entry).events = {} /\ "events" \in DOMAIN GateRecords(entry)
  BY DEF DispositionRecords, Nothing, Yield, GateRecords
<1>2. GateRecords(entry).events \subseteq {GateEvent(entry)}
  BY DEF GateRecords, Nothing, Yield, GateEvent
<1>3. e = EntryEvent(entry) \/ e = GateEvent(entry)
  BY <1>1, <1>2, InBoth, InYield DEF ReadEntry
<1>4. FoundAs(EntryEvent(entry), "george", "outcome", entry.id)
  BY NamesAre DEF EntryEvent, OutcomePayload
<1>5. FoundAs(GateEvent(entry), "george", "gate_evidence", entry.id)
  BY NamesAre DEF GateEvent
<1> QED BY <1>3, <1>4, <1>5

LEMMA GeorgeReads ==
  ASSUME NEW lines, NEW since, NEW e
  PROVE  e \in ReadGeorge(lines, since).events <=>
           \E entry \in ToSet(lines) \ {None} : entry.at >= since /\ e \in ReadEntry(entry).events
BY InAll DEF ReadGeorge

LEMMA GeorgeTells ==
  ASSUME NEW sources, GeorgeKept(sources), NEW s \in sources, NEW t \in sources,
         NEW e \in ReadGeorge(s.lines, 0).events, NEW f \in ReadGeorge(t.lines, 0).events, SameName(e, f)
  PROVE  e = f
<1>1. PICK x \in ToSet(s.lines) \ {None} : e \in ReadEntry(x).events
  BY GeorgeReads
<1>2. PICK y \in ToSet(t.lines) \ {None} : f \in ReadEntry(y).events
  BY GeorgeReads
<1>3. x.id = y.id
  BY <1>1, <1>2, EntryTells DEF SameName, FoundAs
<1>4. x = y
  BY <1>3 DEF GeorgeKept, LinesOf, Identified
<1> QED BY <1>1, <1>2, <1>4, EntryTells DEF SameName, FoundAs

LEMMA LinesStay ==
  ASSUME NEW s, NEW t, Continues(s, t)
  PROVE  ToSet(s) \subseteq ToSet(t)
BY DEF Continues, ToSet

LEMMA GeorgeReadsOn ==
  ASSUME NEW sources, GeorgeKept(sources), NEW s, NEW t \in sources, LinesGoOn(s, t), NEW since,
         NEW e \in ReadGeorge(s.lines, since).events
  PROVE  e \in ReadGeorge(t.lines, 0).events
<1>1. PICK x \in ToSet(s.lines) \ {None} : e \in ReadEntry(x).events
  BY GeorgeReads
<1>2. x \in ToSet(t.lines) \ {None}
  BY LinesStay DEF LinesGoOn
<1>3. x.at >= 0
  BY <1>2 DEF GeorgeKept, LinesOf, Dated
<1> QED BY <1>1, <1>2, <1>3, GeorgeReads

LEMMA GitReads ==
  ASSUME NEW repo, NEW commits, NEW since, NEW e
  PROVE  e \in ReadGit(repo, commits, since).events <=>
           \E c \in commits : c.committed >= since /\ e \in ReadCommit(repo, c).events
BY InAll DEF ReadGit

LEMMA CommitTells ==
  ASSUME NEW repo, NEW c, NEW e \in ReadCommit(repo, c).events, NEW f
  PROVE  /\ FoundAs(e, "git", "outcome", <<repo, c.sha>>)
         /\ f \in ReadCommit(repo, c).events => e = f
<1> DEFINE event == OutcomeEvent("git", <<repo, c.sha>>, c.at, "git.commit", "succeeded",
                                 c.sha, [parents |-> c.parents, refs |-> c.refs])
<1>1. ReadCommit(repo, c).events = {event}
  BY InYield DEF ReadCommit
<1>2. FoundAs(event, "git", "outcome", <<repo, c.sha>>)
  BY NamesAre DEF OutcomeEvent
<1> QED BY <1>1, <1>2

LEMMA GitTells ==
  ASSUME NEW sources, GitKept(sources), NEW s \in sources, NEW t \in sources,
         NEW e \in ReadGit(s.repo, s.commits, 0).events, NEW f \in ReadGit(t.repo, t.commits, 0).events,
         SameName(e, f)
  PROVE  e = f
<1>1. PICK c \in s.commits : e \in ReadCommit(s.repo, c).events
  BY GitReads
<1>2. PICK d \in t.commits : f \in ReadCommit(t.repo, d).events
  BY GitReads
<1>3. <<s.repo, c.sha>> = <<t.repo, d.sha>>
  BY <1>1, <1>2, CommitTells DEF SameName, FoundAs
<1>4. s.repo = t.repo /\ c.sha = d.sha
  BY <1>3
<1>5. c = d
  BY <1>4 DEF GitKept
<1> QED BY <1>1, <1>2, <1>4, <1>5, CommitTells

LEMMA GitReadsOn ==
  ASSUME NEW sources, GitKept(sources), NEW s, NEW t \in sources, GitGoesOn(s, t), NEW since,
         NEW e \in ReadGit(s.repo, s.commits, since).events
  PROVE  e \in ReadGit(t.repo, t.commits, 0).events
<1>1. PICK c \in s.commits : e \in ReadCommit(s.repo, c).events
  BY GitReads
<1>2. c \in t.commits /\ t.repo = s.repo
  BY DEF GitGoesOn
<1>3. c.committed >= 0
  BY <1>2 DEF GitKept
<1> QED BY <1>1, <1>2, <1>3, GitReads

\* Of Chip, Spindle and Barnowl, a receipt tells one event.
CandidateEvent(r) ==
  OutcomeEvent("chip", r.id, r.at, "chip.candidate", "succeeded", r.candidate,
               [finding |-> r.finding, revision |-> r.revision])

LEMMA ChipReads ==
  ASSUME NEW lines, NEW since, NEW e
  PROVE  /\ e \in ReadChip(lines, since).events <=>
              \E r \in ToSet(lines) : IsCandidateReceipt(r) /\ r.at >= since /\ e = CandidateEvent(r)
         /\ \A r : FoundAs(CandidateEvent(r), "chip", "outcome", r.id)
<1>1. ASSUME NEW r PROVE FoundAs(CandidateEvent(r), "chip", "outcome", r.id)
  BY NamesAre DEF CandidateEvent, OutcomeEvent
<1> DEFINE candidate(r) == Ref("chip.candidate", r.candidate)
           told(r) ==
             Yield({CandidateEvent(r)}, {},
                   {Receipt(CandidateEvent(r), Ref("milton.finding-revision", r.revision), "produced", candidate(r)),
                    Receipt(CandidateEvent(r), Ref("chip.candidate-receipt", r.id), "verifies", candidate(r))})
           read == {r \in ToSet(lines) : IsCandidateReceipt(r) /\ r.at >= since}
<1>2. ReadChip(lines, since) = All({told(r) : r \in read})
  BY DEF ReadChip, CandidateEvent
<1>3. \A r : told(r).events = {CandidateEvent(r)}
  BY InYield
<1> HIDE DEF told
<1>4. e \in ReadChip(lines, since).events <=> \E r \in read : e \in told(r).events
  BY <1>2, InAll
<1> QED BY <1>1, <1>3, <1>4

LEMMA ChipTells ==
  ASSUME NEW sources, ChipKept(sources), NEW s \in sources, NEW t \in sources,
         NEW e \in ReadChip(s.lines, 0).events, NEW f \in ReadChip(t.lines, 0).events, SameName(e, f)
  PROVE  e = f
<1>1. PICK x \in ToSet(s.lines) : e = CandidateEvent(x)
  BY ChipReads
<1>2. PICK y \in ToSet(t.lines) : f = CandidateEvent(y)
  BY ChipReads
<1>3. x.id = y.id
  BY <1>1, <1>2, ChipReads DEF SameName, FoundAs
<1> QED BY <1>1, <1>2, <1>3 DEF ChipKept, LinesOf, Identified

LEMMA ChipReadsOn ==
  ASSUME NEW sources, ChipKept(sources), NEW s, NEW t \in sources, LinesGoOn(s, t), NEW since,
         NEW e \in ReadChip(s.lines, since).events
  PROVE  e \in ReadChip(t.lines, 0).events
<1>1. PICK x \in ToSet(s.lines) : IsCandidateReceipt(x) /\ e = CandidateEvent(x)
  BY ChipReads
<1>2. x \in ToSet(t.lines)
  BY LinesStay DEF LinesGoOn
<1>3. x.at >= 0
  BY <1>2 DEF ChipKept, LinesOf, Dated
<1> QED BY <1>1, <1>2, <1>3, ChipReads

LEMMA SpindleReads ==
  ASSUME NEW r, NEW since, NEW e
  PROVE  /\ e \in ReadSpindle(r, since).events <=> IsProcedureReceipt(r) /\ r.at >= since /\ e = SpindleEvent(r)
         /\ FoundAs(SpindleEvent(r), "spindle", "outcome", r.id)
<1>1. FoundAs(SpindleEvent(r), "spindle", "outcome", r.id)
  BY NamesAre DEF SpindleEvent, OutcomeEvent
<1> QED BY <1>1 DEF ReadSpindle, Yield, Nothing

LEMMA SpindleTells ==
  ASSUME NEW sources, SpindleKept(sources), NEW s \in sources, NEW t \in sources,
         NEW e \in ReadSpindle(s.receipt, 0).events, NEW f \in ReadSpindle(t.receipt, 0).events, SameName(e, f)
  PROVE  e = f
BY SpindleReads DEF SpindleKept, Identified, SameName, FoundAs

LEMMA SpindleReadsOn ==
  ASSUME NEW sources, SpindleKept(sources), NEW s, NEW t \in sources, SpindleGoesOn(s, t), NEW since,
         NEW e \in ReadSpindle(s.receipt, since).events
  PROVE  e \in ReadSpindle(t.receipt, 0).events
<1>1. t.receipt.at >= 0
  BY DEF SpindleKept, Dated
<1> QED BY <1>1, SpindleReads DEF SpindleGoesOn

ResearchEvent(line) ==
  OutcomeEvent("barnowl-research-outcome", line.id, line.at, ResearchOutcome,
    IF line.judged THEN "succeeded" ELSE "failed", line.id,
    [calls |-> line.calls, attempt |-> line.attempt, correlation |-> line.correlation,
     domain |-> line.domain, treatment |-> line.treatment, workload |-> line.workload,
     authority |-> line.authority, judged |-> line.judged, label |-> line.label,
     supersedes |-> line.supersedes])

LEMMA BarnowlReads ==
  ASSUME NEW lines, NEW since, NEW e
  PROVE  /\ e \in ReadBarnowl(lines, since).events <=>
              \E l \in ToSet(lines) : IsResearchOutcome(l) /\ l.at >= since /\ e = ResearchEvent(l)
         /\ \A l : FoundAs(ResearchEvent(l), "barnowl-research-outcome", "outcome", l.id)
<1>1. ASSUME NEW l PROVE FoundAs(ResearchEvent(l), "barnowl-research-outcome", "outcome", l.id)
  BY NamesAre DEF ResearchEvent, OutcomeEvent
<1>2. \A l : ReadResearchLine(l).events = {ResearchEvent(l)}
  BY InYield DEF ReadResearchLine, ResearchEvent
<1> QED BY <1>1, <1>2, InAll DEF ReadBarnowl

LEMMA BarnowlTells ==
  ASSUME NEW sources, BarnowlKept(sources), NEW s \in sources, NEW t \in sources,
         NEW e \in ReadBarnowl(s.lines, 0).events, NEW f \in ReadBarnowl(t.lines, 0).events, SameName(e, f)
  PROVE  e = f
<1>1. PICK x \in ToSet(s.lines) : IsResearchOutcome(x) /\ e = ResearchEvent(x)
  BY BarnowlReads
<1>2. PICK y \in ToSet(t.lines) : IsResearchOutcome(y) /\ f = ResearchEvent(y)
  BY BarnowlReads
<1>3. x.id = y.id
  BY <1>1, <1>2, BarnowlReads DEF SameName, FoundAs
<1> QED BY <1>1, <1>2, <1>3 DEF BarnowlKept, LinesOf, Identified

LEMMA BarnowlReadsOn ==
  ASSUME NEW sources, BarnowlKept(sources), NEW s, NEW t \in sources, LinesGoOn(s, t), NEW since,
         NEW e \in ReadBarnowl(s.lines, since).events
  PROVE  e \in ReadBarnowl(t.lines, 0).events
<1>1. PICK x \in ToSet(s.lines) : IsResearchOutcome(x) /\ e = ResearchEvent(x)
  BY BarnowlReads
<1>2. x \in ToSet(t.lines)
  BY LinesStay DEF LinesGoOn
<1>3. x.at >= 0
  BY <1>1, <1>2 DEF BarnowlKept, LinesOf, Dated
<1> QED BY <1>1, <1>2, <1>3, BarnowlReads

-----------------------------------------------------------------------------
(* What is told of memory files.                                           *)

MemoryTold(adapter, system, root, i) ==
  MemoryEvent(adapter, <<MemoryItem(system, root, i.locator), "inventory">>, i.at,
              system, root, i, "inventory", "observed", None, i.content)
AccessTold(adapter, system, root, a, i) ==
  MemoryEvent(adapter, <<"access", MemoryItem(system, root, i.locator), a>>, a.at,
              system, root, i, a.stage, a.state, a.supersededBy, None)

LEMMA MemoryNames ==
  ASSUME NEW adapter, NEW system, NEW root, NEW i, NEW a
  PROVE  /\ FoundAs(MemoryTold(adapter, system, root, i), adapter, "memory_evidence",
                    <<MemoryItem(system, root, i.locator), "inventory">>)
         /\ FoundAs(AccessTold(adapter, system, root, a, i), adapter, "memory_evidence",
                    <<"access", MemoryItem(system, root, i.locator), a>>)
BY NamesAre DEF MemoryTold, AccessTold, MemoryEvent

LEMMA MemoryReads ==
  ASSUME NEW adapter, NEW system, NEW root, NEW items, NEW log, NEW since, NEW e
  PROVE  e \in ReadMemory(adapter, system, root, items, log, since).events <=>
           \/ \E i \in items : e = MemoryTold(adapter, system, root, i)
           \/ \E i \in items, a \in ToSet(log) :
                a.item = i.locator /\ a.at >= since /\ e = AccessTold(adapter, system, root, a, i)
<1> DEFINE pairs == {p \in ToSet(log) \X items : p[1].item = p[2].locator /\ p[1].at >= since}
           inventory == {MemoryTold(adapter, system, root, i) : i \in items}
           accesses == {AccessTold(adapter, system, root, p[1], p[2]) : p \in pairs}
<1>1. /\ MemoryInventory(adapter, system, root, items) = inventory
      /\ MemoryAccesses(adapter, system, root, items, log, since) = accesses
  BY DEF MemoryInventory, MemoryAccesses, MemoryTold, AccessTold
<1>2. ReadMemory(adapter, system, root, items, log, since).events = inventory \cup accesses
  BY <1>1, InYield DEF ReadMemory
<1>3. e \in accesses <=> \E i \in items, a \in ToSet(log) :
                           a.item = i.locator /\ a.at >= since /\ e = AccessTold(adapter, system, root, a, i)
  <2>1. ASSUME NEW i \in items, NEW a \in ToSet(log), a.item = i.locator, a.at >= since
        PROVE  AccessTold(adapter, system, root, a, i) \in accesses
    <3>1. <<a, i>> \in pairs /\ <<a, i>>[1] = a /\ <<a, i>>[2] = i
      BY <2>1
    <3> HIDE DEF pairs
    <3> QED BY <3>1
  <2>2. ASSUME NEW p \in pairs
        PROVE  p[1] \in ToSet(log) /\ p[2] \in items /\ p[1].item = p[2].locator /\ p[1].at >= since
    OBVIOUS
  <2> HIDE DEF pairs
  <2> QED BY <2>1, <2>2
<1> QED BY <1>2, <1>3

LEMMA MemoryTells ==
  ASSUME NEW adapter, NEW system, NEW sources, MemoryKept(sources), NEW s \in sources, NEW t \in sources,
         NEW e \in ReadMemory(adapter, system, s.root, s.items, s.log, 0).events,
         NEW f \in ReadMemory(adapter, system, t.root, t.items, t.log, 0).events,
         SameName(e, f)
  PROVE  e = f
<1> DEFINE item(root, i) == MemoryItem(system, root, i.locator)
<1>1. ASSUME NEW i \in s.items, NEW j \in t.items, item(s.root, i) = item(t.root, j)
      PROVE  s.root = t.root /\ i = j
  <2>1. s.root = t.root /\ i.locator = j.locator
    BY <1>1 DEF MemoryItem
  <2> QED BY <2>1 DEF MemoryKept
<1>2. \A root, i, a : /\ MemoryTold(adapter, system, root, i).native = <<item(root, i), "inventory">>
                      /\ AccessTold(adapter, system, root, a, i).native = <<"access", item(root, i), a>>
  BY MemoryNames DEF FoundAs
<1> HIDE DEF item
<1>3. \A x, y, b : <<x, "inventory">> # <<"access", y, b>>
  <2> TAKE x, y, b
  <2>1. Len(<<x, "inventory">>) = 2 /\ Len(<<"access", y, b>>) = 3
    OBVIOUS
  <2> QED BY <2>1
<1>4. \A x, y, a, b : /\ <<x, "inventory">> = <<y, "inventory">> => x = y
                      /\ <<"access", x, a>> = <<"access", y, b>> => x = y /\ a = b
  OBVIOUS
<1>5. e.native = f.native
  BY DEF SameName
<1>6. \A x, g : g \in ReadMemory(adapter, system, x.root, x.items, x.log, 0).events =>
        \/ \E i \in x.items : g = MemoryTold(adapter, system, x.root, i)
        \/ \E i \in x.items, a \in ToSet(x.log) : g = AccessTold(adapter, system, x.root, a, i)
  BY MemoryReads
<1>7. CASE \E i \in s.items : e = MemoryTold(adapter, system, s.root, i)
  <2>1. PICK i \in s.items : e = MemoryTold(adapter, system, s.root, i)
    BY <1>7
  <2>2. e.native = <<item(s.root, i), "inventory">>
    BY <1>2, <2>1
  <2>3. ASSUME NEW j, NEW a, f = AccessTold(adapter, system, t.root, a, j) PROVE FALSE
    <3>1. f.native = <<"access", item(t.root, j), a>>
      BY <1>2, <2>3
    <3> QED BY <1>3, <1>5, <2>2, <3>1
  <2>4. PICK j \in t.items : f = MemoryTold(adapter, system, t.root, j)
    BY <1>6, <2>3
  <2>5. item(s.root, i) = item(t.root, j)
    <3>1. f.native = <<item(t.root, j), "inventory">>
      BY <1>2, <2>4
    <3> QED BY <1>4, <1>5, <2>2, <3>1
  <2> QED BY <1>1, <2>1, <2>4, <2>5
<1>8. CASE \E i \in s.items, a \in ToSet(s.log) : e = AccessTold(adapter, system, s.root, a, i)
  <2>1. PICK i \in s.items, a \in ToSet(s.log) : e = AccessTold(adapter, system, s.root, a, i)
    BY <1>8
  <2>2. PICK j \in t.items, b \in ToSet(t.log) : f = AccessTold(adapter, system, t.root, b, j)
    BY <1>2, <1>3, <1>5, <1>6, <2>1
  <2>3. item(s.root, i) = item(t.root, j) /\ a = b
    BY <1>2, <1>4, <1>5, <2>1, <2>2
  <2> QED BY <1>1, <2>1, <2>2, <2>3
<1> QED BY <1>6, <1>7, <1>8

LEMMA MemoryReadsOn ==
  ASSUME NEW adapter, NEW system, NEW sources, MemoryKept(sources), NEW s, NEW t \in sources, MemoryGoesOn(s, t), NEW since,
         NEW e \in ReadMemory(adapter, system, s.root, s.items, s.log, since).events
  PROVE  e \in ReadMemory(adapter, system, t.root, t.items, t.log, 0).events
<1>1. t.root = s.root /\ s.items \subseteq t.items /\ ToSet(s.log) \subseteq ToSet(t.log)
  BY LinesStay DEF MemoryGoesOn
<1>2. \A a \in ToSet(t.log) : a.at >= 0
  BY DEF MemoryKept, Dated
<1>3. CASE \E i \in s.items : e = MemoryTold(adapter, system, s.root, i)
  BY <1>1, <1>3, MemoryReads
<1>4. CASE \E i \in s.items, a \in ToSet(s.log) : a.item = i.locator /\ e = AccessTold(adapter, system, s.root, a, i)
  BY <1>1, <1>2, <1>4, MemoryReads
<1> QED BY <1>3, <1>4, MemoryReads

-----------------------------------------------------------------------------
(* What is told of sessions in databases.                                  *)

\* Names in which the same place has the same thing.
LEMMA SamePlaces ==
  /\ \A a, x, y : <<a, x>> = <<a, y>> => x = y
  /\ \A a, x, y, m, n : <<a, x, m>> = <<a, y, n>> => x = y /\ m = n
OBVIOUS

HermesTurn(s, m) == HermesEvent(s, "turn", <<"message", s.id, m.id>>, m.at, [role |-> m.role])
HermesCall(s, m) == HermesEvent(s, "model_call", <<"model", s.id, m.id>>, m.at, [model |-> s.model])

HermesTold(s) ==
  {HermesOpened(s), HermesCost(s)} \cup HermesTools(s)
    \cup UNION {HermesMessage(s, m) : m \in ToSet(s.messages)}

LEMMA HermesReads ==
  ASSUME NEW sessions, NEW since, NEW e
  PROVE  e \in ReadHermes(sessions, since).events <=>
           \E s \in sessions : s.at >= since /\ e \in HermesTold(s)
<1> DEFINE yield(s) == Yield(HermesTold(s), ParentJoin("hermes.session", s), {})
<1>1. ReadHermes(sessions, since) = All({yield(s) : s \in BegunIn(sessions, since)})
  BY DEF ReadHermes, HermesTold
<1>2. \A s : yield(s).events = HermesTold(s)
  BY InYield
<1> HIDE DEF yield
<1> QED BY <1>1, <1>2, InAll DEF BegunIn

LEMMA HermesNames ==
  ASSUME NEW s, NEW m, NEW call
  PROVE  /\ FoundAs(HermesOpened(s), "hermes", "session", s.id)
         /\ FoundAs(HermesCost(s), "hermes", "cost", <<"cost", s.id>>)
         /\ FoundAs(HermesTurn(s, m), "hermes", "turn", <<"message", s.id, m.id>>)
         /\ FoundAs(HermesCall(s, m), "hermes", "model_call", <<"model", s.id, m.id>>)
         /\ FoundAs(HermesTool(s, m, call), "hermes", "tool_call", <<"tool", s.id, call>>)
<1>1. FoundAs(HermesOpened(s), "hermes", "session", s.id)
  BY NamesAre DEF HermesOpened
<1>2. FoundAs(HermesCost(s), "hermes", "cost", <<"cost", s.id>>)
  BY NamesAre DEF HermesCost, HermesEvent
<1>3. FoundAs(HermesTurn(s, m), "hermes", "turn", <<"message", s.id, m.id>>)
  BY NamesAre DEF HermesTurn, HermesEvent
<1>4. FoundAs(HermesCall(s, m), "hermes", "model_call", <<"model", s.id, m.id>>)
  BY NamesAre DEF HermesCall, HermesEvent
<1>5. FoundAs(HermesTool(s, m, call), "hermes", "tool_call", <<"tool", s.id, call>>)
  BY NamesAre DEF HermesTool, HermesEvent
<1> QED BY <1>1, <1>2, <1>3, <1>4, <1>5

LEMMA HermesTells1 ==
  ASSUME NEW s, NEW e \in HermesTold(s)
  PROVE  \/ e = HermesOpened(s) /\ e.kind = "session" /\ e.native = s.id
         \/ e = HermesCost(s) /\ e.kind = "cost" /\ e.native = <<"cost", s.id>>
         \/ \E m \in ToSet(s.messages) :
              \/ e = HermesTurn(s, m) /\ e.kind = "turn" /\ e.native = <<"message", s.id, m.id>>
              \/ e = HermesCall(s, m) /\ e.kind = "model_call" /\ e.native = <<"model", s.id, m.id>>
         \/ \E i \in DOMAIN s.messages : \E call \in s.messages[i].calls :
              /\ e = HermesTool(s, s.messages[i], call)
              /\ e.kind = "tool_call" /\ e.native = <<"tool", s.id, call>>
<1>1. CASE e \in HermesTools(s)
  <2>1. PICK i \in DOMAIN s.messages, j \in DOMAIN s.messages :
          s.messages[j].call \in s.messages[i].calls /\ e = HermesTool(s, s.messages[i], s.messages[j].call)
    BY <1>1 DEF HermesTools
  <2>2. e.kind = "tool_call" /\ e.native = <<"tool", s.id, s.messages[j].call>>
    BY <2>1, HermesNames DEF FoundAs
  <2> QED BY <2>1, <2>2
<1>2. ASSUME NEW m \in ToSet(s.messages), e \in HermesMessage(s, m)
      PROVE  \/ e = HermesTurn(s, m) /\ e.kind = "turn" /\ e.native = <<"message", s.id, m.id>>
             \/ e = HermesCall(s, m) /\ e.kind = "model_call" /\ e.native = <<"model", s.id, m.id>>
  <2>1. e = HermesTurn(s, m) \/ e = HermesCall(s, m)
    BY <1>2 DEF HermesMessage, HermesTurn, HermesCall
  <2>2. /\ FoundAs(HermesTurn(s, m), "hermes", "turn", <<"message", s.id, m.id>>)
        /\ FoundAs(HermesCall(s, m), "hermes", "model_call", <<"model", s.id, m.id>>)
    BY HermesNames
  <2> QED BY <2>1, <2>2 DEF FoundAs
<1>3. CASE e = HermesOpened(s)
  BY <1>3, HermesNames DEF FoundAs
<1>4. CASE e = HermesCost(s)
  BY <1>4, HermesNames DEF FoundAs
<1> QED BY <1>1, <1>2, <1>3, <1>4 DEF HermesTold

LEMMA HermesTells ==
  ASSUME NEW sources, HermesKept(sources), NEW a \in sources, NEW b \in sources,
         NEW e \in ReadHermes(a.sessions, 0).events, NEW f \in ReadHermes(b.sessions, 0).events,
         SameName(e, f)
  PROVE  e = f
<1>1. PICK s \in a.sessions : e \in HermesTold(s)
  BY HermesReads
<1>2. PICK t \in b.sessions : f \in HermesTold(t)
  BY HermesReads
<1>3. s \in SessionRows(sources) /\ t \in SessionRows(sources)
  BY DEF SessionRows
<1>4. s.id = t.id => s = t
  BY <1>3 DEF HermesKept, Identified
<1>5. e.kind = f.kind /\ e.native = f.native
  BY DEF SameName
<1> DEFINE opened(g, x) == g = HermesOpened(x) /\ g.kind = "session" /\ g.native = x.id
           cost(g, x) == g = HermesCost(x) /\ g.kind = "cost" /\ g.native = <<"cost", x.id>>
           turn(g, x, m) == g = HermesTurn(x, m) /\ g.kind = "turn" /\ g.native = <<"message", x.id, m.id>>
           call(g, x, m) == g = HermesCall(x, m) /\ g.kind = "model_call" /\ g.native = <<"model", x.id, m.id>>
           tool(g, x, i, c) == /\ g = HermesTool(x, x.messages[i], c)
                               /\ g.kind = "tool_call" /\ g.native = <<"tool", x.id, c>>
           told(g, x) ==
             \/ opened(g, x) \/ cost(g, x)
             \/ \E m \in ToSet(x.messages) : turn(g, x, m) \/ call(g, x, m)
             \/ \E i \in DOMAIN x.messages : \E c \in x.messages[i].calls : tool(g, x, i, c)
<1>6. told(e, s) /\ told(f, t)
  BY <1>1, <1>2, HermesTells1
<1>7. CASE opened(e, s)
  <2>1. opened(f, t)
    BY <1>5, <1>6, <1>7
  <2> QED BY <1>4, <1>5, <1>7, <2>1
<1>8. CASE cost(e, s)
  <2>1. cost(f, t)
    BY <1>5, <1>6, <1>8
  <2>2. s.id = t.id
    BY <1>5, <1>8, <2>1, SamePlaces
  <2> QED BY <1>4, <1>8, <2>1, <2>2
<1>9. CASE \E m \in ToSet(s.messages) : turn(e, s, m)
  <2>1. PICK m \in ToSet(s.messages) : turn(e, s, m)
    BY <1>9
  <2>2. \E n \in ToSet(t.messages) : turn(f, t, n)
    BY <1>5, <1>6, <2>1
  <2>3. PICK n \in ToSet(t.messages) : turn(f, t, n)
    BY <2>2
  <2>4. s.id = t.id /\ m.id = n.id
    BY <1>5, <2>1, <2>3, SamePlaces
  <2>5. m = n
    BY <1>3, <1>4, <2>4 DEF HermesKept, Identified
  <2> QED BY <1>4, <2>1, <2>3, <2>4, <2>5
<1>10. CASE \E m \in ToSet(s.messages) : call(e, s, m)
  <2>1. PICK m \in ToSet(s.messages) : call(e, s, m)
    BY <1>10
  <2>2. \E n \in ToSet(t.messages) : call(f, t, n)
    BY <1>5, <1>6, <2>1
  <2>3. PICK n \in ToSet(t.messages) : call(f, t, n)
    BY <2>2
  <2>4. s.id = t.id /\ m.id = n.id
    BY <1>5, <2>1, <2>3, SamePlaces
  <2>5. m = n
    BY <1>3, <1>4, <2>4 DEF HermesKept, Identified
  <2> QED BY <1>4, <2>1, <2>3, <2>4, <2>5
<1>11. CASE \E i \in DOMAIN s.messages : \E c \in s.messages[i].calls : tool(e, s, i, c)
  <2>1. PICK i \in DOMAIN s.messages : \E c \in s.messages[i].calls : tool(e, s, i, c)
    BY <1>11
  <2>2. PICK c \in s.messages[i].calls : tool(e, s, i, c)
    BY <2>1
  <2>3. \E j \in DOMAIN t.messages : \E d \in t.messages[j].calls : tool(f, t, j, d)
    BY <1>5, <1>6, <2>2
  <2>4. PICK j \in DOMAIN t.messages : \E d \in t.messages[j].calls : tool(f, t, j, d)
    BY <2>3
  <2>5. PICK d \in t.messages[j].calls : tool(f, t, j, d)
    BY <2>4
  <2>6. s.id = t.id /\ c = d
    BY <1>5, <2>2, <2>5, SamePlaces
  <2>7. i = j
    BY <1>3, <1>4, <2>6 DEF HermesKept
  <2> QED BY <1>4, <2>2, <2>5, <2>6, <2>7
<1> QED BY <1>6, <1>7, <1>8, <1>9, <1>10, <1>11

LEMMA HermesReadsOn ==
  ASSUME NEW sources, HermesKept(sources), NEW s, NEW t \in sources, SessionsGoOn(s, t), NEW since,
         NEW e \in ReadHermes(s.sessions, since).events
  PROVE  e \in ReadHermes(t.sessions, 0).events
<1>1. PICK x \in s.sessions : e \in HermesTold(x)
  BY HermesReads
<1>2. x \in t.sessions
  BY DEF SessionsGoOn
<1>3. x.at >= 0
  BY <1>2 DEF HermesKept, SessionRows, Dated
<1> QED BY <1>1, <1>2, <1>3, HermesReads

OpenCodeCall(s, m) ==
  OpenCodeEvent(s, "model_call", <<"model", s.id, m.id>>, m.at, None,
                [status |-> IF m.error THEN "failed" ELSE "succeeded"])
OpenCodeCost(s, m) ==
  OpenCodeEvent(s, "cost", <<"cost", s.id, m.id>>, m.at, OpenCodeCall(s, m).id,
    [amount |-> m.amount, basis |-> "reported", economic |-> "unknown",
     accuracy |-> "unknown", role |-> "unknown", authority |-> "opencode",
     scope |-> "source", key |-> <<"opencode.message", s.id, m.id>>])
OpenCodeTurn(s, p) == OpenCodeEvent(s, "turn", <<"part", s.id, p.id>>, p.at, None, [text |-> TRUE])

OpenCodeTold(s) ==
  {OpenCodeOpened(s)}
    \cup UNION {OpenCodeAnswer(s, m) \cup UNION {OpenCodePart(s, p) : p \in m.parts} :
                  m \in ToSet(s.messages)}

LEMMA OpenCodeReads ==
  ASSUME NEW sessions, NEW since, NEW e
  PROVE  e \in ReadOpenCode(sessions, since).events <=>
           \E s \in sessions : s.at >= since /\ e \in OpenCodeTold(s)
<1> DEFINE yield(s) == Yield(OpenCodeTold(s), ParentJoin("opencode.session", s), {})
<1>1. ReadOpenCode(sessions, since) = All({yield(s) : s \in BegunIn(sessions, since)})
  BY DEF ReadOpenCode, OpenCodeTold
<1>2. \A s : yield(s).events = OpenCodeTold(s)
  BY InYield
<1> HIDE DEF yield
<1> QED BY <1>1, <1>2, InAll DEF BegunIn

LEMMA OpenCodeNames ==
  ASSUME NEW s, NEW m
  PROVE  /\ FoundAs(OpenCodeOpened(s), "opencode", "session", s.id)
         /\ FoundAs(OpenCodeCall(s, m), "opencode", "model_call", <<"model", s.id, m.id>>)
         /\ FoundAs(OpenCodeCost(s, m), "opencode", "cost", <<"cost", s.id, m.id>>)
         /\ FoundAs(OpenCodeTurn(s, m), "opencode", "turn", <<"part", s.id, m.id>>)
         /\ FoundAs(OpenCodeTool(s, m), "opencode", "tool_call", <<"tool", s.id, m.call>>)
<1>1. FoundAs(OpenCodeOpened(s), "opencode", "session", s.id)
  BY NamesAre DEF OpenCodeOpened
<1>2. FoundAs(OpenCodeCall(s, m), "opencode", "model_call", <<"model", s.id, m.id>>)
  BY NamesAre DEF OpenCodeCall, OpenCodeEvent
<1>3. FoundAs(OpenCodeCost(s, m), "opencode", "cost", <<"cost", s.id, m.id>>)
  BY NamesAre DEF OpenCodeCost, OpenCodeEvent
<1>4. FoundAs(OpenCodeTurn(s, m), "opencode", "turn", <<"part", s.id, m.id>>)
  BY NamesAre DEF OpenCodeTurn, OpenCodeEvent
<1>5. FoundAs(OpenCodeTool(s, m), "opencode", "tool_call", <<"tool", s.id, m.call>>)
  BY NamesAre DEF OpenCodeTool, OpenCodeEvent
<1> QED BY <1>1, <1>2, <1>3, <1>4, <1>5

LEMMA OpenCodeTells1 ==
  ASSUME NEW s, NEW e \in OpenCodeTold(s)
  PROVE  \/ e = OpenCodeOpened(s) /\ e.kind = "session" /\ e.native = s.id
         \/ \E m \in ToSet(s.messages) :
              \/ e = OpenCodeCall(s, m) /\ e.kind = "model_call" /\ e.native = <<"model", s.id, m.id>>
              \/ e = OpenCodeCost(s, m) /\ e.kind = "cost" /\ e.native = <<"cost", s.id, m.id>>
         \/ \E p \in PartsOf(s) :
              \/ e = OpenCodeTurn(s, p) /\ e.kind = "turn" /\ e.native = <<"part", s.id, p.id>>
              \/ /\ p.type = "tool" /\ e = OpenCodeTool(s, p)
                 /\ e.kind = "tool_call" /\ e.native = <<"tool", s.id, p.call>>
<1>1. ASSUME NEW m \in ToSet(s.messages), e \in OpenCodeAnswer(s, m)
      PROVE  \/ e = OpenCodeCall(s, m) /\ e.kind = "model_call" /\ e.native = <<"model", s.id, m.id>>
             \/ e = OpenCodeCost(s, m) /\ e.kind = "cost" /\ e.native = <<"cost", s.id, m.id>>
  <2>1. e = OpenCodeCall(s, m) \/ e = OpenCodeCost(s, m)
    BY <1>1 DEF OpenCodeAnswer, OpenCodeCall, OpenCodeCost
  <2>2. /\ FoundAs(OpenCodeCall(s, m), "opencode", "model_call", <<"model", s.id, m.id>>)
        /\ FoundAs(OpenCodeCost(s, m), "opencode", "cost", <<"cost", s.id, m.id>>)
    BY OpenCodeNames
  <2> QED BY <2>1, <2>2 DEF FoundAs
<1>2. ASSUME NEW m \in ToSet(s.messages), NEW p \in m.parts, e \in OpenCodePart(s, p)
      PROVE  /\ p \in PartsOf(s)
             /\ \/ e = OpenCodeTurn(s, p) /\ e.kind = "turn" /\ e.native = <<"part", s.id, p.id>>
                \/ /\ p.type = "tool" /\ e = OpenCodeTool(s, p)
                   /\ e.kind = "tool_call" /\ e.native = <<"tool", s.id, p.call>>
  <2>1. e = OpenCodeTurn(s, p) \/ (p.type = "tool" /\ e = OpenCodeTool(s, p))
    BY <1>2 DEF OpenCodePart, OpenCodeTurn
  <2>2. /\ FoundAs(OpenCodeTurn(s, p), "opencode", "turn", <<"part", s.id, p.id>>)
        /\ FoundAs(OpenCodeTool(s, p), "opencode", "tool_call", <<"tool", s.id, p.call>>)
    BY OpenCodeNames
  <2>3. p \in PartsOf(s)
    BY DEF PartsOf
  <2> QED BY <2>1, <2>2, <2>3 DEF FoundAs
<1>3. CASE e = OpenCodeOpened(s)
  BY <1>3, OpenCodeNames DEF FoundAs
<1> QED BY <1>1, <1>2, <1>3 DEF OpenCodeTold

LEMMA OpenCodeTells ==
  ASSUME NEW sources, OpenCodeKept(sources), NEW a \in sources, NEW b \in sources,
         NEW e \in ReadOpenCode(a.sessions, 0).events, NEW f \in ReadOpenCode(b.sessions, 0).events,
         SameName(e, f)
  PROVE  e = f
<1>1. PICK s \in a.sessions : e \in OpenCodeTold(s)
  BY OpenCodeReads
<1>2. PICK t \in b.sessions : f \in OpenCodeTold(t)
  BY OpenCodeReads
<1>3. s \in SessionRows(sources) /\ t \in SessionRows(sources)
  BY DEF SessionRows
<1>4. s.id = t.id => s = t
  BY <1>3 DEF OpenCodeKept, Identified
<1>5. e.kind = f.kind /\ e.native = f.native
  BY DEF SameName
<1> DEFINE opened(g, x) == g = OpenCodeOpened(x) /\ g.kind = "session" /\ g.native = x.id
           call(g, x, m) == g = OpenCodeCall(x, m) /\ g.kind = "model_call" /\ g.native = <<"model", x.id, m.id>>
           cost(g, x, m) == g = OpenCodeCost(x, m) /\ g.kind = "cost" /\ g.native = <<"cost", x.id, m.id>>
           turn(g, x, p) == g = OpenCodeTurn(x, p) /\ g.kind = "turn" /\ g.native = <<"part", x.id, p.id>>
           tool(g, x, p) == /\ p.type = "tool" /\ g = OpenCodeTool(x, p)
                            /\ g.kind = "tool_call" /\ g.native = <<"tool", x.id, p.call>>
           told(g, x) ==
             \/ opened(g, x)
             \/ \E m \in ToSet(x.messages) : call(g, x, m) \/ cost(g, x, m)
             \/ \E p \in PartsOf(x) : turn(g, x, p) \/ tool(g, x, p)
<1>6. told(e, s) /\ told(f, t)
  BY <1>1, <1>2, OpenCodeTells1
<1>7. CASE opened(e, s)
  <2>1. opened(f, t)
    BY <1>5, <1>6, <1>7
  <2> QED BY <1>4, <1>5, <1>7, <2>1
<1>8. CASE \E m \in ToSet(s.messages) : call(e, s, m) \/ cost(e, s, m)
  <2>1. PICK m \in ToSet(s.messages) : call(e, s, m) \/ cost(e, s, m)
    BY <1>8
  <2>2. \E n \in ToSet(t.messages) : (call(e, s, m) /\ call(f, t, n)) \/ (cost(e, s, m) /\ cost(f, t, n))
    BY <1>5, <1>6, <2>1
  <2>3. PICK n \in ToSet(t.messages) : (call(e, s, m) /\ call(f, t, n)) \/ (cost(e, s, m) /\ cost(f, t, n))
    BY <2>2
  <2>4. s.id = t.id /\ m.id = n.id
    BY <1>5, <2>3, SamePlaces
  <2>5. m = n
    BY <1>3, <1>4, <2>4 DEF OpenCodeKept, Identified
  <2> QED BY <1>4, <2>3, <2>4, <2>5
<1>9. CASE \E p \in PartsOf(s) : turn(e, s, p)
  <2>1. PICK p \in PartsOf(s) : turn(e, s, p)
    BY <1>9
  <2>2. \E q \in PartsOf(t) : turn(f, t, q)
    BY <1>5, <1>6, <2>1
  <2>3. PICK q \in PartsOf(t) : turn(f, t, q)
    BY <2>2
  <2>4. s.id = t.id /\ p.id = q.id
    BY <1>5, <2>1, <2>3, SamePlaces
  <2>5. p = q
    BY <1>3, <1>4, <2>4 DEF OpenCodeKept, Identified
  <2> QED BY <1>4, <2>1, <2>3, <2>4, <2>5
<1>10. CASE \E p \in PartsOf(s) : tool(e, s, p)
  <2>1. PICK p \in PartsOf(s) : tool(e, s, p)
    BY <1>10
  <2>2. \E q \in PartsOf(t) : tool(f, t, q)
    BY <1>5, <1>6, <2>1
  <2>3. PICK q \in PartsOf(t) : tool(f, t, q)
    BY <2>2
  <2>4. s.id = t.id /\ p.call = q.call
    BY <1>5, <2>1, <2>3, SamePlaces
  <2>5. p = q
    BY <1>3, <1>4, <2>1, <2>3, <2>4 DEF OpenCodeKept
  <2> QED BY <1>4, <2>1, <2>3, <2>4, <2>5
<1> QED BY <1>6, <1>7, <1>8, <1>9, <1>10

LEMMA OpenCodeReadsOn ==
  ASSUME NEW sources, OpenCodeKept(sources), NEW s, NEW t \in sources, SessionsGoOn(s, t), NEW since,
         NEW e \in ReadOpenCode(s.sessions, since).events
  PROVE  e \in ReadOpenCode(t.sessions, 0).events
<1>1. PICK x \in s.sessions : e \in OpenCodeTold(x)
  BY OpenCodeReads
<1>2. x \in t.sessions
  BY DEF SessionsGoOn
<1>3. x.at >= 0
  BY <1>2 DEF OpenCodeKept, SessionRows, Dated
<1> QED BY <1>1, <1>2, <1>3, OpenCodeReads

-----------------------------------------------------------------------------
(* What is told of a database of calls.                                    *)

EvidenceTold(table, row) ==
  CASE table = "eval_results"    -> ReadResult(row).events
    [] table = "eval_receipts"   -> ReadEvalReceipt(row).events
    [] table = "campaigns"       -> ReadCampaign(row).events
    [] table = "campaign_events" -> ReadCampaignEvent(row).events
    [] table = "decisions"       -> ReadDecision(row).events
    [] table = "recommendations" -> ReadRecommendation(row).events
    [] table = "call_updates"    -> ReadCallUpdate(row).events

LEMMA OutcomeNamed ==
  ASSUME NEW native, NEW at, NEW parent, NEW type, NEW status, NEW reference
  PROVE  FoundAs(SommOutcome(native, at, parent, type, status, reference), "somm", "outcome", native)
BY NamesAre DEF SommOutcome, OutcomePayload

LEMMA EvidenceNames ==
  ASSUME NEW table \in EvidenceTables, NEW row, NEW e \in EvidenceTold(table, row)
  PROVE  /\ \/ FoundAs(e, "somm", "outcome", row.id)
            \/ FoundAs(e, "somm", "cost", <<"campaign-rollup", row.id>>)
         /\ \A f \in EvidenceTold(table, row) : f.kind = e.kind => f = e
<1> DEFINE one(event) == /\ FoundAs(event, "somm", "outcome", row.id)
                         /\ EvidenceTold(table, row) = {event}
<1>1. ASSUME NEW event, one(event)
      PROVE  /\ FoundAs(e, "somm", "outcome", row.id)
             /\ \A f \in EvidenceTold(table, row) : f = e
  BY <1>1
<1>2. CASE table = "eval_results"
  <2> DEFINE event == SommOutcome(row.id, row.at, CallId(row.call), "somm.eval-result",
                                  IF row.scored THEN "succeeded" ELSE "unknown", row.call)
  <2>1. ReadResult(row).events = {event}
    BY InYield DEF ReadResult, Told
  <2>2. FoundAs(event, "somm", "outcome", row.id)
    BY OutcomeNamed
  <2> HIDE DEF event
  <2>3. one(event)
    BY <1>2, <2>1, <2>2 DEF EvidenceTold
  <2> HIDE DEF one
  <2> QED BY <1>1, <2>3
<1>3. CASE table = "eval_receipts"
  <2> DEFINE event == NormalizedEvent("somm", "outcome", row.id, row.at, None,
                        IF row.result = None THEN None ELSE EventId("somm", "outcome", row.result),
                        [type |-> "somm.eval-receipt." \o row.type, status |-> "succeeded",
                         reference |-> IF row.call # None THEN row.call ELSE row.source,
                         procedure |-> ProcedureOf(row)])
  <2>1. ReadEvalReceipt(row).events = {event}
    BY DEF ReadEvalReceipt, Told, Yield
  <2>2. FoundAs(event, "somm", "outcome", row.id)
    BY NamesAre
  <2> HIDE DEF event
  <2>3. one(event)
    BY <1>3, <2>1, <2>2 DEF EvidenceTold
  <2> HIDE DEF one
  <2> QED BY <1>1, <2>3
<1>4. CASE table = "campaigns"
  <2> DEFINE event == SommOutcome(row.id, row.at, None, "somm.campaign", OutcomeStatus(row.status), row.workload)
             payload == [role |-> "rollup", amount |-> row.amount, authority |-> "somm", basis |-> "computed",
                         economic |-> "unknown", accuracy |-> "unknown", scope |-> "source",
                         key |-> <<"somm.campaign", row.id>>]
             cost == NormalizedEvent("somm", "cost", <<"campaign-rollup", row.id>>, row.at, None, event.id, payload)
  <2>1. ReadCampaign(row).events = {event, cost}
    BY InYield DEF ReadCampaign
  <2>2. FoundAs(event, "somm", "outcome", row.id) /\ FoundAs(cost, "somm", "cost", <<"campaign-rollup", row.id>>)
    BY OutcomeNamed, NamesAre
  <2> HIDE DEF event, cost
  <2>3. EvidenceTold(table, row) = {event, cost}
    BY <1>4, <2>1 DEF EvidenceTold
  <2> QED BY <2>2, <2>3 DEF FoundAs
<1>5. CASE table = "campaign_events"
  <2> DEFINE event == SommOutcome(row.id, row.at, EventId("somm", "outcome", row.campaign),
                           "somm.campaign-event",
                           CASE row.action = "keep"   -> "succeeded"
                             [] row.action = "revert" -> "reverted"
                             [] row.action = "stop"   -> "abandoned"
                             [] OTHER                 -> "unknown", row.campaign)
  <2>1. ReadCampaignEvent(row).events = {event}
    BY InYield DEF ReadCampaignEvent, Told
  <2>2. FoundAs(event, "somm", "outcome", row.id)
    BY OutcomeNamed
  <2> HIDE DEF event
  <2>3. one(event)
    BY <1>5, <2>1, <2>2 DEF EvidenceTold
  <2> HIDE DEF one
  <2> QED BY <1>1, <2>3
<1>6. CASE table = "decisions"
  <2> DEFINE event == SommOutcome(row.id, row.at, None, "somm.decision", "succeeded", row.workload)
  <2>1. ReadDecision(row).events = {event}
    BY InYield DEF ReadDecision, Told
  <2>2. FoundAs(event, "somm", "outcome", row.id)
    BY OutcomeNamed
  <2> HIDE DEF event
  <2>3. one(event)
    BY <1>6, <2>1, <2>2 DEF EvidenceTold
  <2> HIDE DEF one
  <2> QED BY <1>1, <2>3
<1>7. CASE table = "recommendations"
  <2> DEFINE event == SommOutcome(row.id, row.at, None, "somm.recommendation",
                           CASE row.applied -> "succeeded"
                             [] ~row.applied /\ row.dismissed -> "abandoned"
                             [] OTHER -> "unknown", row.workload)
  <2>1. ReadRecommendation(row).events = {event}
    BY InYield DEF ReadRecommendation, Told
  <2>2. FoundAs(event, "somm", "outcome", row.id)
    BY OutcomeNamed
  <2> HIDE DEF event
  <2>3. one(event)
    BY <1>7, <2>1, <2>2 DEF EvidenceTold
  <2> HIDE DEF one
  <2> QED BY <1>1, <2>3
<1>8. CASE table = "call_updates"
  <2> DEFINE event == SommOutcome(row.id, row.at, CallId(row.call), "somm.call-update",
                           IF row.field = "outcome" THEN OutcomeStatus(row.value) ELSE "unknown",
                           row.call)
  <2>1. ReadCallUpdate(row).events = {event}
    BY InYield DEF ReadCallUpdate, Told
  <2>2. FoundAs(event, "somm", "outcome", row.id)
    BY OutcomeNamed
  <2> HIDE DEF event
  <2>3. one(event)
    BY <1>8, <2>1, <2>2 DEF EvidenceTold
  <2> HIDE DEF one
  <2> QED BY <1>1, <2>3
<1> QED BY <1>2, <1>3, <1>4, <1>5, <1>6, <1>7, <1>8 DEF EvidenceTables

LEMMA CallsRead ==
  ASSUME NEW rows, NEW e
  PROVE  e \in ReadCalls(rows).events <=>
           e \in CallSessions(rows) \/ \E row \in rows : e \in {CallEvent(row), CallCost(row)}
<1> DEFINE sessions == Yield(CallSessions(rows), {}, {})
           call(row) == Yield({CallEvent(row), CallCost(row)}, CallCrosswalks(row), CallRelations(row))
<1>1. ReadCalls(rows) = All({sessions} \cup {call(row) : row \in rows})
  BY DEF ReadCalls
<1>2. sessions.events = CallSessions(rows) /\ \A row : call(row).events = {CallEvent(row), CallCost(row)}
  BY InYield
<1> HIDE DEF sessions, call
<1>3. e \in ReadCalls(rows).events <=> \E y \in {sessions} \cup {call(row) : row \in rows} : e \in y.events
  BY <1>1, InAll
<1> QED BY <1>2, <1>3

LEMMA SommReads ==
  ASSUME NEW tables, NEW since, NEW e
  PROVE  e \in ReadSomm(tables, since).events <=>
           \/ e \in CallSessions(InWindow(RowsOf(tables, "calls"), since))
           \/ \E row \in RowsOf(tables, "calls") : row.at >= since /\ e \in {CallEvent(row), CallCost(row)}
           \/ \E table \in EvidenceTables : \E row \in RowsOf(tables, table) :
                row.at >= since /\ e \in EvidenceTold(table, row)
<1> DEFINE rows(table) == IF table \in DOMAIN tables THEN InWindow(tables[table], since) ELSE {}
           yields == {ReadCalls(rows("calls"))}
                       \cup {ReadResult(row)        : row \in rows("eval_results")}
                       \cup {ReadEvalReceipt(row)   : row \in rows("eval_receipts")}
                       \cup {ReadCampaign(row)      : row \in rows("campaigns")}
                       \cup {ReadCampaignEvent(row) : row \in rows("campaign_events")}
                       \cup {ReadDecision(row)      : row \in rows("decisions")}
                       \cup {ReadRecommendation(row): row \in rows("recommendations")}
                       \cup {ReadCallUpdate(row)    : row \in rows("call_updates")}
<1>1. ReadSomm(tables, since) = All(yields)
  BY DEF ReadSomm
<1>2. \A table : rows(table) = InWindow(RowsOf(tables, table), since)
  BY DEF RowsOf, InWindow
<1> HIDE DEF rows
<1>3. e \in ReadSomm(tables, since).events <=>
        \/ e \in ReadCalls(rows("calls")).events
        \/ \E row \in rows("eval_results") : e \in ReadResult(row).events
        \/ \E row \in rows("eval_receipts") : e \in ReadEvalReceipt(row).events
        \/ \E row \in rows("campaigns") : e \in ReadCampaign(row).events
        \/ \E row \in rows("campaign_events") : e \in ReadCampaignEvent(row).events
        \/ \E row \in rows("decisions") : e \in ReadDecision(row).events
        \/ \E row \in rows("recommendations") : e \in ReadRecommendation(row).events
        \/ \E row \in rows("call_updates") : e \in ReadCallUpdate(row).events
  BY <1>1, InAll
<1>4. e \in ReadCalls(rows("calls")).events <=>
        \/ e \in CallSessions(rows("calls"))
        \/ \E row \in rows("calls") : e \in {CallEvent(row), CallCost(row)}
  BY CallsRead
<1>5. e \in ReadSomm(tables, since).events <=>
        \/ e \in CallSessions(rows("calls"))
        \/ \E row \in rows("calls") : e \in {CallEvent(row), CallCost(row)}
        \/ \E table \in EvidenceTables : \E row \in rows(table) : e \in EvidenceTold(table, row)
  BY <1>3, <1>4 DEF EvidenceTables, EvidenceTold
<1>6. \A table : \A row : row \in rows(table) <=> row \in RowsOf(tables, table) /\ row.at >= since
  BY <1>2 DEF InWindow
<1> QED BY <1>2, <1>5, <1>6

LEMMA CallNames ==
  ASSUME NEW row
  PROVE  /\ FoundAs(CallEvent(row), "somm", "model_call", row.id)
         /\ FoundAs(CallCost(row), "somm", "cost", <<"cost", row.id>>)
<1>1. FoundAs(CallEvent(row), "somm", "model_call", row.id)
  BY NamesAre DEF CallEvent
<1>2. FoundAs(CallCost(row), "somm", "cost", <<"cost", row.id>>)
  BY NamesAre DEF CallCost
<1> QED BY <1>1, <1>2

CallTimes(rows, session) == {row.at : row \in {row \in rows : row.session = session}}
SessionTold(rows, session) ==
  NormalizedEvent("somm", "session", session, Min(CallTimes(rows, session)), None, None, <<>>)

LEMMA SessionNames ==
  ASSUME NEW rows, NEW e
  PROVE  /\ e \in CallSessions(rows) <=>
              \E row \in rows : row.session # None /\ e = SessionTold(rows, row.session)
         /\ \A session : FoundAs(SessionTold(rows, session), "somm", "session", session)
<1>1. \A session : FoundAs(SessionTold(rows, session), "somm", "session", session)
  BY NamesAre DEF SessionTold
<1>2. CallSessions(rows) = {SessionTold(rows, s) : s \in {row.session : row \in rows} \ {None}}
  BY DEF CallSessions, SessionTold, CallTimes
<1> QED BY <1>1, <1>2

\* What is told of a database, by name.
SommCase(e, tables, since) ==
  \/ \E row \in RowsOf(tables, "calls") :
       \/ /\ row.at >= since /\ row.session # None
          /\ e = SessionTold(InWindow(RowsOf(tables, "calls"), since), row.session)
          /\ e.kind = "session" /\ e.native = row.session
       \/ e = CallEvent(row) /\ e.kind = "model_call" /\ e.native = row.id
       \/ e = CallCost(row) /\ e.kind = "cost" /\ e.native = <<"cost", row.id>>
  \/ \E table \in EvidenceTables : \E row \in RowsOf(tables, table) :
       /\ e \in EvidenceTold(table, row)
       /\ \/ e.kind = "outcome" /\ e.native = row.id
          \/ e.kind = "cost" /\ e.native = <<"campaign-rollup", row.id>>

LEMMA SommCases ==
  ASSUME NEW tables, NEW since, NEW e \in ReadSomm(tables, since).events
  PROVE  e.adapter = "somm" /\ SommCase(e, tables, since)
<1> DEFINE calls == RowsOf(tables, "calls")
           window == InWindow(calls, since)
<1>1. CASE e \in CallSessions(window)
  <2>1. PICK row \in window : row.session # None /\ e = SessionTold(window, row.session)
    BY <1>1, SessionNames
  <2>2. row \in calls /\ row.at >= since
    BY DEF InWindow
  <2>3. FoundAs(e, "somm", "session", row.session)
    BY <2>1, SessionNames
  <2> QED BY <2>1, <2>2, <2>3 DEF FoundAs, SommCase
<1>2. ASSUME NEW row \in calls, e \in {CallEvent(row), CallCost(row)}
      PROVE  e.adapter = "somm" /\ SommCase(e, tables, since)
  <2>1. /\ FoundAs(CallEvent(row), "somm", "model_call", row.id)
        /\ FoundAs(CallCost(row), "somm", "cost", <<"cost", row.id>>)
    BY CallNames
  <2> QED BY <1>2, <2>1 DEF FoundAs, SommCase
<1>3. ASSUME NEW table \in EvidenceTables, NEW row \in RowsOf(tables, table), e \in EvidenceTold(table, row)
      PROVE  e.adapter = "somm" /\ SommCase(e, tables, since)
  <2>1. \/ FoundAs(e, "somm", "outcome", row.id)
        \/ FoundAs(e, "somm", "cost", <<"campaign-rollup", row.id>>)
    BY <1>3, EvidenceNames
  <2> QED BY <1>3, <2>1 DEF FoundAs, SommCase
<1> QED BY <1>1, <1>2, <1>3, SommReads

LEMMA SommTells ==
  ASSUME NEW sources, NEW bounds, SommKept(sources, bounds), NEW s \in sources, NEW t \in sources,
         NEW e \in ReadSomm(s.tables, 0).events, NEW f \in ReadSomm(t.tables, 0).events, SameName(e, f)
  PROVE  e = f
<1> DEFINE window(x) == InWindow(RowsOf(x.tables, "calls"), 0)
           session(g, x, row) == /\ row.session # None /\ g = SessionTold(window(x), row.session)
                                 /\ g.kind = "session" /\ g.native = row.session
           call(g, row) == g = CallEvent(row) /\ g.kind = "model_call" /\ g.native = row.id
           cost(g, row) == g = CallCost(row) /\ g.kind = "cost" /\ g.native = <<"cost", row.id>>
           outcome(g, table, row) == /\ g \in EvidenceTold(table, row)
                                     /\ g.kind = "outcome" /\ g.native = row.id
           rollup(g, table, row) == /\ g \in EvidenceTold(table, row)
                                    /\ g.kind = "cost" /\ g.native = <<"campaign-rollup", row.id>>
           told(g, x) ==
             \/ \E row \in RowsOf(x.tables, "calls") : session(g, x, row) \/ call(g, row) \/ cost(g, row)
             \/ \E table \in EvidenceTables : \E row \in RowsOf(x.tables, table) :
                  outcome(g, table, row) \/ rollup(g, table, row)
<1>1. told(e, s) /\ told(f, t)
  <2>1. SommCase(e, s.tables, 0) /\ SommCase(f, t.tables, 0)
    BY SommCases
  <2> QED BY <2>1 DEF SommCase
<1>2. e.kind = f.kind /\ e.native = f.native
  BY DEF SameName
<1>3. \A x \in RowsOf(s.tables, "calls"), y \in RowsOf(t.tables, "calls") :
        /\ x.id = y.id => x = y
        /\ x.session = y.session /\ x.session # None => s = t
  BY DEF SommKept
<1>4. \A a, b \in EvidenceTables : \A x \in RowsOf(s.tables, a), y \in RowsOf(t.tables, b) :
        x.id = y.id => a = b /\ x = y
  BY DEF SommKept
<1>5. \A x, y : <<"cost", x>> # <<"campaign-rollup", y>>
  <2> TAKE x, y
  <2>1. <<"cost", x>>[1] = "cost" /\ <<"campaign-rollup", y>>[1] = "campaign-rollup"
    OBVIOUS
  <2> QED BY <2>1
<1> HIDE DEF window
<1>6. CASE \E x \in RowsOf(s.tables, "calls") : session(e, s, x) \/ call(e, x) \/ cost(e, x)
  <2>1. PICK x \in RowsOf(s.tables, "calls") : session(e, s, x) \/ call(e, x) \/ cost(e, x)
    BY <1>6
  <2>2. \E y \in RowsOf(t.tables, "calls") :
          \/ session(e, s, x) /\ session(f, t, y)
          \/ call(e, x) /\ call(f, y)
          \/ cost(e, x) /\ cost(f, y)
    BY <1>1, <1>2, <1>5, <2>1
  <2>3. PICK y \in RowsOf(t.tables, "calls") :
          \/ session(e, s, x) /\ session(f, t, y)
          \/ call(e, x) /\ call(f, y)
          \/ cost(e, x) /\ cost(f, y)
    BY <2>2
  <2>4. CASE session(e, s, x) /\ session(f, t, y)
    BY <1>2, <1>3, <2>4
  <2>5. CASE call(e, x) /\ call(f, y)
    BY <1>2, <1>3, <2>5
  <2>6. CASE cost(e, x) /\ cost(f, y)
    BY <1>2, <1>3, <2>6, SamePlaces
  <2> QED BY <2>3, <2>4, <2>5, <2>6
<1>7. CASE \E a \in EvidenceTables : \E x \in RowsOf(s.tables, a) : outcome(e, a, x) \/ rollup(e, a, x)
  <2>1. PICK a \in EvidenceTables : \E x \in RowsOf(s.tables, a) : outcome(e, a, x) \/ rollup(e, a, x)
    BY <1>7
  <2>2. PICK x \in RowsOf(s.tables, a) : outcome(e, a, x) \/ rollup(e, a, x)
    BY <2>1
  <2>3. \E b \in EvidenceTables : \E y \in RowsOf(t.tables, b) :
          \/ outcome(e, a, x) /\ outcome(f, b, y)
          \/ rollup(e, a, x) /\ rollup(f, b, y)
    BY <1>1, <1>2, <1>5, <2>2
  <2>4. PICK b \in EvidenceTables : \E y \in RowsOf(t.tables, b) :
          \/ outcome(e, a, x) /\ outcome(f, b, y)
          \/ rollup(e, a, x) /\ rollup(f, b, y)
    BY <2>3
  <2>5. PICK y \in RowsOf(t.tables, b) :
          \/ outcome(e, a, x) /\ outcome(f, b, y)
          \/ rollup(e, a, x) /\ rollup(f, b, y)
    BY <2>4
  <2>6. x.id = y.id
    BY <1>2, <2>5, SamePlaces
  <2>7. a = b /\ x = y
    BY <1>4, <2>6
  <2> QED BY <1>2, <2>5, <2>7, EvidenceNames
<1> QED BY <1>1, <1>6, <1>7

\* The least of times that have one.
LEMMA LeastTime ==
  ASSUME NEW S, NEW T, S \subseteq T, T \subseteq Nat, S # {}, \A x \in S, y \in T \ S : x <= y
  PROVE  Min(S) = Min(T)
<1>1. PICK x \in S : \A y \in S : x <= y
  BY LeastOf
<1>2. \A y \in T : x <= y
  BY <1>1
<1>3. Min(S) \in S /\ \A y \in S : Min(S) <= y
  BY <1>1 DEF Min
<1>4. Min(T) \in T /\ \A y \in T : Min(T) <= y
  BY <1>2 DEF Min
<1>5. \A a, b \in Nat : a <= b /\ b <= a => a = b
  OBVIOUS
<1>6. x \in Nat /\ Min(S) \in Nat /\ Min(T) \in Nat
  BY <1>3, <1>4
<1>7. Min(S) = x
  BY <1>1, <1>3, <1>5, <1>6
<1>8. Min(T) = x
  BY <1>2, <1>4, <1>5, <1>6
<1> QED BY <1>7, <1>8

LEMMA SommReadsOn ==
  ASSUME NEW sources, NEW bounds, SommKept(sources, bounds), NEW s, NEW t \in sources, SommGoesOn(s, t),
         NEW since \in bounds, NEW e \in ReadSomm(s.tables, since).events
  PROVE  e \in ReadSomm(t.tables, 0).events
<1> DEFINE calls == RowsOf(s.tables, "calls")
           later == RowsOf(t.tables, "calls")
           window == InWindow(calls, since)
           all == InWindow(later, 0)
<1>1. \A table : RowsOf(s.tables, table) \subseteq RowsOf(t.tables, table)
  BY DEF SommGoesOn, RowsOf
<1>2. \A table : \A row \in RowsOf(t.tables, table) : row.at \in Nat
  BY DEF SommKept, RowsOf, Dated
<1>3. CASE e \in CallSessions(window)
  <2>1. PICK row \in window : row.session # None /\ e = SessionTold(window, row.session)
    BY <1>3, SessionNames
  <2> DEFINE S == CallTimes(window, row.session)
             T == CallTimes(all, row.session)
  <2>2. row \in calls /\ row.at >= since /\ row \in later
    BY <1>1 DEF InWindow
  <2>3. row \in all
    BY <1>2, <2>2 DEF InWindow
  <2>4. S \subseteq T /\ S # {} /\ T \subseteq Nat
    <3>1. window \subseteq all
      BY <1>1, <1>2 DEF InWindow
    <3>2. \A x \in all : x.at \in Nat
      BY <1>2 DEF InWindow
    <3> HIDE DEF window, all
    <3> QED BY <3>1, <3>2, <2>1 DEF CallTimes
  <2>5. ASSUME NEW x \in S, NEW y \in T \ S PROVE x <= y
    <3>1. PICK p \in window : p.session = row.session /\ x = p.at
      BY DEF CallTimes
    <3>2. PICK q \in all : q.session = row.session /\ y = q.at
      BY DEF CallTimes
    <3>3. p \in calls /\ q \in later
      BY DEF InWindow
    <3>4. q.at >= since
      BY <2>1, <2>2, <3>2, <3>3 DEF SommKept
    <3>5. q \notin calls
      <4>1. q \notin window
        BY <3>2 DEF CallTimes
      <4> QED BY <3>4, <4>1 DEF InWindow
    <3> QED BY <3>1, <3>2, <3>3, <3>5 DEF SommGoesOn
  <2>6. Min(S) = Min(T)
    <3> HIDE DEF S, T
    <3> QED BY <2>4, <2>5, LeastTime
  <2>7. e = SessionTold(all, row.session)
    BY <2>1, <2>6 DEF SessionTold
  <2>8. e \in CallSessions(all)
    BY <2>1, <2>3, <2>7, SessionNames
  <2> QED BY <2>8, SommReads
<1>4. ASSUME NEW row \in calls, e \in {CallEvent(row), CallCost(row)}
      PROVE  e \in ReadSomm(t.tables, 0).events
  <2>1. row \in later /\ row.at >= 0
    BY <1>1, <1>2
  <2> QED BY <1>4, <2>1, SommReads
<1>5. ASSUME NEW table \in EvidenceTables, NEW row \in RowsOf(s.tables, table), e \in EvidenceTold(table, row)
      PROVE  e \in ReadSomm(t.tables, 0).events
  <2>1. row \in RowsOf(t.tables, table) /\ row.at >= 0
    BY <1>1, <1>2
  <2> QED BY <1>5, <2>1, SommReads
<1> QED BY <1>3, <1>4, <1>5, SommReads

-----------------------------------------------------------------------------
(* What is told of jobs.                                                   *)

AttemptTold(line) ==
  FabEvent("outcome", <<"attempt", line.job, line.index, line.type>>, line.at, line.job, None,
           OutcomePayload("fab.attempt", AttemptStatus(line.outcome), line.job))
TerminalTold(line, n) ==
  FabEvent("outcome", <<"terminal", line.job, n>>, line.at, line.job, None,
           OutcomePayload("fab.job", TerminalStatus(line.to), line.job))

\* What is told of the n-th line of a ledger.
LineCase(e, line, n, coverage) ==
  /\ LedgerStep(line) \notin coverage
  /\ \/ /\ line.type = "submitted" /\ e = JobOpened(line.job, line.at, "ledger")
        /\ e.kind = "session" /\ e.native = line.job
     \/ /\ line.type \in {"attempt_finished", "attempt_finished_post_cancel"} /\ e = AttemptTold(line)
        /\ e.kind = "outcome" /\ e.native = <<"attempt", line.job, line.index, line.type>>
     \/ /\ line.type = "status_changed" /\ line.to \in TerminalStatuses /\ e = TerminalTold(line, n)
        /\ e.kind = "outcome" /\ e.native = <<"terminal", line.job, n>>

LEMMA LedgerNamed ==
  ASSUME NEW line, NEW n
  PROVE  /\ \A told : FoundAs(JobOpened(line.job, line.at, told), "fab", "session", line.job)
         /\ FoundAs(AttemptTold(line), "fab", "outcome", <<"attempt", line.job, line.index, line.type>>)
         /\ FoundAs(TerminalTold(line, n), "fab", "outcome", <<"terminal", line.job, n>>)
<1>1. ASSUME NEW told PROVE FoundAs(JobOpened(line.job, line.at, told), "fab", "session", line.job)
  BY NamesAre DEF JobOpened
<1>2. FoundAs(AttemptTold(line), "fab", "outcome", <<"attempt", line.job, line.index, line.type>>)
  BY NamesAre DEF AttemptTold, FabEvent, OutcomePayload
<1>3. FoundAs(TerminalTold(line, n), "fab", "outcome", <<"terminal", line.job, n>>)
  BY NamesAre DEF TerminalTold, FabEvent, OutcomePayload
<1> QED BY <1>1, <1>2, <1>3

LEMMA LedgerLineTells ==
  ASSUME NEW line, NEW n, NEW coverage, NEW e \in ReadLedgerLine(line, n, coverage).events
  PROVE  e.adapter = "fab" /\ LineCase(e, line, n, coverage)
<1> DEFINE y == ReadLedgerLine(line, n, coverage)
<1>1. CASE line.type = "submitted" /\ <<line.job, "job_submitted", None>> \notin coverage
  <2> DEFINE opened == JobOpened(line.job, line.at, "ledger")
  <2>1. y.events = {opened}
    BY <1>1, InYield DEF ReadLedgerLine
  <2>2. FoundAs(opened, "fab", "session", line.job)
    BY LedgerNamed
  <2>3. LedgerStep(line) \notin coverage
    BY <1>1 DEF LedgerStep
  <2> QED BY <1>1, <2>1, <2>2, <2>3 DEF FoundAs, LineCase
<1>2. CASE /\ line.type \in {"attempt_finished", "attempt_finished_post_cancel"}
           /\ <<line.job, "attempt_finished", line.index>> \notin coverage
  <2>1. y.events = {AttemptTold(line)}
    BY <1>2, InYield DEF ReadLedgerLine, AttemptTold
  <2>2. FoundAs(AttemptTold(line), "fab", "outcome", <<"attempt", line.job, line.index, line.type>>)
    BY LedgerNamed
  <2>3. LedgerStep(line) \notin coverage
    BY <1>2 DEF LedgerStep
  <2> QED BY <1>2, <2>1, <2>2, <2>3 DEF FoundAs, LineCase
<1>3. CASE /\ line.type = "status_changed" /\ line.to \in TerminalStatuses
           /\ <<line.job, "job_outcome", None>> \notin coverage
  <2>1. y.events = {TerminalTold(line, n)}
    BY <1>3, InYield DEF ReadLedgerLine, TerminalTold
  <2>2. FoundAs(TerminalTold(line, n), "fab", "outcome", <<"terminal", line.job, n>>)
    BY LedgerNamed
  <2>3. LedgerStep(line) \notin coverage
    BY <1>3 DEF LedgerStep
  <2> QED BY <1>3, <2>1, <2>2, <2>3 DEF FoundAs, LineCase
<1>4. Nothing.events = {}
  BY DEF Nothing
<1> QED BY <1>1, <1>2, <1>3, <1>4 DEF ReadLedgerLine

\* A step that has no receipt is told of the ledger.
LEMMA LedgerLineTold ==
  ASSUME NEW line, NEW n, NEW coverage, NEW later, NEW e \in ReadLedgerLine(line, n, coverage).events,
         LedgerStep(line) \notin later
  PROVE  e \in ReadLedgerLine(line, n, later).events
<1>1. LineCase(e, line, n, coverage)
  BY LedgerLineTells
<1>2. CASE line.type = "submitted"
  <2>1. <<line.job, "job_submitted", None>> \notin coverage /\ <<line.job, "job_submitted", None>> \notin later
    BY <1>1, <1>2 DEF LineCase, LedgerStep
  <2> QED BY <1>2, <2>1 DEF ReadLedgerLine
<1>3. CASE line.type \in {"attempt_finished", "attempt_finished_post_cancel"}
  <2>1. /\ <<line.job, "attempt_finished", line.index>> \notin coverage
        /\ <<line.job, "attempt_finished", line.index>> \notin later
    BY <1>1, <1>3 DEF LineCase, LedgerStep
  <2> QED BY <1>3, <2>1 DEF ReadLedgerLine
<1>4. CASE line.type = "status_changed" /\ line.to \in TerminalStatuses
  <2>1. <<line.job, "job_outcome", None>> \notin coverage /\ <<line.job, "job_outcome", None>> \notin later
    BY <1>1, <1>4 DEF LineCase, LedgerStep
  <2> QED BY <1>4, <2>1 DEF ReadLedgerLine
<1> QED BY <1>1, <1>2, <1>3, <1>4 DEF LineCase

LEMMA LedgerReads ==
  ASSUME NEW root, NEW seen, NEW since, NEW e
  PROVE  e \in ReadLedger(root, seen, since).events <=>
           \E n \in DOMAIN root.ledger :
             /\ root.ledger[n].at >= since
             /\ e \in ReadLedgerLine(root.ledger[n], n, ReceiptCoverage(seen)).events
BY InAll DEF ReadLedger

RollupTold(r) ==
  FabEvent("cost", <<"cost", r.id>>, r.at, r.job,
      IF ReceiptEvents(r) = {} THEN None ELSE CHOOSE i \in ReceiptEvidence(r) : TRUE,
      [role |-> "rollup", amount |-> r.accounting.amount, authority |-> "fab", key |-> <<"fab.receipt", r.id>>,
       scope |-> "source", economic |-> "unknown", basis |-> "unknown", accuracy |-> "unknown"])

\* What is told of a receipt.
ReceiptCase(e, r) ==
  \/ r.kind = "job_submitted" /\ e = JobOpened(r.job, r.at, "receipt") /\ e.kind = "session" /\ e.native = r.job
  \/ /\ ReceiptEvents(r) = {e} /\ e.kind = "outcome" /\ e.native = ReceiptName(r)
     /\ r.kind = "attempt_finished" => r.attempt # None
  \/ e = RollupTold(r) /\ e.kind = "cost" /\ e.native = <<"cost", r.id>>

LEMMA ReceiptTells ==
  ASSUME NEW r, NEW since, NEW e \in ReadReceipt(r, since).events
  PROVE  ~(r.at < since) /\ e.adapter = "fab" /\ ReceiptCase(e, r)
<1>1. ~(r.at < since) /\ e \in ReceiptEvents(r) \cup ReceiptRollup(r)
  BY InYield DEF ReadReceipt, Nothing
<1>2. CASE e \in ReceiptRollup(r)
  <2>1. e = RollupTold(r)
    BY <1>2 DEF ReceiptRollup, RollupTold
  <2>2. FoundAs(RollupTold(r), "fab", "cost", <<"cost", r.id>>)
    BY NamesAre DEF RollupTold, FabEvent
  <2> QED BY <1>1, <2>1, <2>2 DEF FoundAs, ReceiptCase
<1>3. CASE e \in ReceiptEvents(r)
  <2> DEFINE outcome(native, type, status, reference) ==
               FabEvent("outcome", native, r.at, r.job, None, OutcomePayload(type, status, reference))
             one(native, event) == ReceiptEvents(r) = {event} /\ FoundAs(event, "fab", "outcome", native)
  <2>1. \A native, type, status, reference :
          FoundAs(outcome(native, type, status, reference), "fab", "outcome", native)
    BY NamesAre DEF FabEvent, OutcomePayload
  <2>2. ASSUME NEW event, one(ReceiptName(r), event), r.kind = "attempt_finished" => r.attempt # None
        PROVE  e.adapter = "fab" /\ ReceiptCase(e, r)
    BY <1>3, <2>2 DEF FoundAs, ReceiptCase
  <2>3. CASE r.kind = "job_submitted"
    <3>1. e = JobOpened(r.job, r.at, "receipt")
      BY <1>3, <2>3 DEF ReceiptEvents
    <3>2. FoundAs(JobOpened(r.job, r.at, "receipt"), "fab", "session", r.job)
      BY NamesAre DEF JobOpened
    <3>3. e.adapter = "fab" /\ e.kind = "session" /\ e.native = r.job
      BY <3>1, <3>2 DEF FoundAs
    <3> QED BY <1>1, <2>3, <3>1, <3>3 DEF ReceiptCase
  <2>4. CASE r.kind = "attempt_finished" /\ r.attempt # None
    <3> DEFINE event == outcome(r.attempt, "fab.attempt", ReceiptStatus(r.status), r.job)
    <3>1. ReceiptEvents(r) = {event} /\ ReceiptName(r) = r.attempt
      BY <2>4 DEF ReceiptEvents, ReceiptName
    <3>2. FoundAs(event, "fab", "outcome", r.attempt)
      BY <2>1
    <3> HIDE DEF event
    <3>3. one(ReceiptName(r), event)
      BY <3>1, <3>2
    <3> HIDE DEF one
    <3> QED BY <1>1, <2>2, <2>4, <3>3
  <2>5. CASE r.kind \in {"job_outcome", "delivery_outcome"}
    <3> DEFINE event == outcome(<<r.kind, r.job>>, "fab.job", ReceiptStatus(r.status), r.job)
    <3>1. ReceiptEvents(r) = {event} /\ ReceiptName(r) = <<r.kind, r.job>>
      BY <2>5 DEF ReceiptEvents, ReceiptName
    <3>2. FoundAs(event, "fab", "outcome", <<r.kind, r.job>>)
      BY <2>1
    <3> HIDE DEF event
    <3>3. one(ReceiptName(r), event)
      BY <3>1, <3>2
    <3> HIDE DEF one
    <3> QED BY <1>1, <2>2, <2>5, <3>3
  <2>6. CASE r.kind = "verifier"
    <3> DEFINE event == outcome(r.id, "fab.verifier", ReceiptStatus(r.status), r.id)
    <3>1. ReceiptEvents(r) = {event} /\ ReceiptName(r) = r.id
      BY <2>6 DEF ReceiptEvents, ReceiptName
    <3>2. FoundAs(event, "fab", "outcome", r.id)
      BY <2>1
    <3> HIDE DEF event
    <3>3. one(ReceiptName(r), event)
      BY <3>1, <3>2
    <3> HIDE DEF one
    <3> QED BY <1>1, <2>2, <2>6, <3>3
  <2>7. CASE r.kind = "artifact" /\ r.artifact # None
    <3> DEFINE event == outcome(r.id, IF r.artifact.ns = "git.commit" THEN "git.commit" ELSE "fab.artifact",
                                "succeeded", r.artifact.value)
    <3>1. ReceiptEvents(r) = {event} /\ ReceiptName(r) = r.id
      BY <2>7 DEF ReceiptEvents, ReceiptName
    <3>2. FoundAs(event, "fab", "outcome", r.id)
      BY <2>1
    <3> HIDE DEF event
    <3>3. one(ReceiptName(r), event)
      BY <3>1, <3>2
    <3> HIDE DEF one
    <3> QED BY <1>1, <2>2, <2>7, <3>3
  <2> HIDE DEF outcome, one
  <2>8. \/ r.kind \in {"job_submitted", "job_outcome", "delivery_outcome", "verifier"}
        \/ r.kind = "attempt_finished" /\ r.attempt # None
        \/ r.kind = "artifact" /\ r.artifact # None
    BY <1>3 DEF ReceiptEvents
  <2> QED BY <1>1, <2>3, <2>4, <2>5, <2>6, <2>7, <2>8
<1> QED BY <1>1, <1>2, <1>3

FabTold(root, since) ==
  ReadLedger(root, root.receipts, since).events \cup UNION {ReadReceipt(r, since).events : r \in root.receipts}

\* Two events of one name that two lines of ledgers tell of.
LEMMA LedgersTell ==
  ASSUME NEW sources, FabKept(sources), NEW s \in sources, NEW t \in sources,
         NEW m \in DOMAIN s.ledger, NEW n \in DOMAIN t.ledger, NEW c, NEW d, NEW e, NEW f,
         LineCase(e, s.ledger[m], m, c), LineCase(f, t.ledger[n], n, d), SameName(e, f)
  PROVE  e = f
<1> DEFINE x == s.ledger[m]
           y == t.ledger[n]
<1>1. e.kind = f.kind /\ e.native = f.native
  BY DEF SameName
<1>2. x \in ToSet(s.ledger) /\ y \in ToSet(t.ledger)
  BY DEF ToSet
<1>3. x.job = y.job => s = t
  BY <1>2 DEF FabKept, JobsOf
<1>4. x.job = y.job /\ x.type = y.type /\ LedgerStep(x) = LedgerStep(y) /\ x.type # "status_changed" => x = y
  BY <1>2, <1>3 DEF FabKept
<1>5. s = t /\ m = n => x = y
  OBVIOUS
<1> HIDE DEF x, y
<1>6. LineCase(e, x, m, c) /\ LineCase(f, y, n, d)
  BY DEF x, y
<1>7. \A a, i, k, b, j : <<"attempt", a, i, k>> # <<"terminal", b, j>>
  <2> TAKE a, i, k, b, j
  <2>1. Len(<<"attempt", a, i, k>>) = 4 /\ Len(<<"terminal", b, j>>) = 3
    OBVIOUS
  <2> QED BY <2>1
<1>8. CASE x.type = "submitted"
  <2>1. /\ y.type = "submitted" /\ x.job = y.job
        /\ e = JobOpened(x.job, x.at, "ledger") /\ f = JobOpened(y.job, y.at, "ledger")
    BY <1>1, <1>6, <1>8 DEF LineCase
  <2>2. LedgerStep(x) = LedgerStep(y)
    BY <1>8, <2>1 DEF LedgerStep
  <2> QED BY <1>4, <1>8, <2>1, <2>2
<1>9. CASE x.type \in {"attempt_finished", "attempt_finished_post_cancel"}
  <2>1. /\ e = AttemptTold(x) /\ f = AttemptTold(y)
        /\ <<"attempt", x.job, x.index, x.type>> = <<"attempt", y.job, y.index, y.type>>
    BY <1>1, <1>6, <1>7, <1>9 DEF LineCase
  <2>2. x.job = y.job /\ x.index = y.index /\ x.type = y.type
    BY <2>1
  <2>3. LedgerStep(x) = LedgerStep(y)
    BY <1>9, <2>2 DEF LedgerStep
  <2> QED BY <1>4, <1>9, <2>1, <2>2, <2>3
<1>10. CASE x.type = "status_changed"
  <2>1. /\ e = TerminalTold(x, m) /\ f = TerminalTold(y, n)
        /\ <<"terminal", x.job, m>> = <<"terminal", y.job, n>>
    BY <1>1, <1>6, <1>7, <1>10 DEF LineCase
  <2>2. x.job = y.job /\ m = n
    BY <2>1
  <2> QED BY <1>3, <1>5, <2>1, <2>2
<1> QED BY <1>6, <1>8, <1>9, <1>10 DEF LineCase

\* No line of a ledger tells of what a receipt tells of.
LEMMA LedgerOrReceipt ==
  ASSUME NEW sources, FabKept(sources), NEW s \in sources, NEW t \in sources,
         NEW n \in DOMAIN s.ledger, NEW r \in t.receipts, NEW e, NEW f,
         LineCase(e, s.ledger[n], n, ReceiptCoverage(s.receipts)), ReceiptCase(f, r)
  PROVE  ~SameName(e, f)
<1> SUFFICES ASSUME SameName(e, f) PROVE FALSE
  OBVIOUS
<1> DEFINE line == s.ledger[n]
<1>1. e.kind = f.kind /\ e.native = f.native
  BY DEF SameName
<1>2. line \in ToSet(s.ledger)
  BY DEF ToSet
<1>3. ReceiptName(r) \notin LedgerNames(s)
  BY DEF FabKept
<1>4. /\ <<"attempt", line.job, line.index, line.type>> \in LedgerNames(s)
      /\ <<"terminal", line.job, n>> \in LedgerNames(s)
  BY <1>2 DEF LedgerNames
<1>5. line.job = r.job => s = t
  BY <1>2 DEF FabKept, JobsOf
<1> HIDE DEF line
<1>6. LineCase(e, line, n, ReceiptCoverage(s.receipts))
  BY DEF line
<1>7. CASE e.kind = "session"
  <2>1. line.type = "submitted" /\ r.kind = "job_submitted" /\ line.job = r.job
    BY <1>1, <1>6, <1>7 DEF LineCase, ReceiptCase
  <2>2. r \in s.receipts
    BY <1>5, <2>1
  <2>3. <<r.job, r.kind, None>> \in ReceiptCoverage(s.receipts)
    BY <2>1, <2>2 DEF ReceiptCoverage
  <2>4. LedgerStep(line) = <<r.job, r.kind, None>>
    BY <2>1 DEF LedgerStep
  <2> QED BY <1>6, <2>3, <2>4 DEF LineCase
<1>8. CASE e.kind = "outcome"
  BY <1>1, <1>3, <1>4, <1>6, <1>8 DEF LineCase, ReceiptCase
<1> QED BY <1>6, <1>7, <1>8 DEF LineCase

LEMMA ReceiptsTell ==
  ASSUME NEW sources, FabKept(sources), NEW s \in sources, NEW t \in sources,
         NEW q \in s.receipts, NEW r \in t.receipts, NEW e, NEW f,
         ReceiptCase(e, q), ReceiptCase(f, r), SameName(e, f)
  PROVE  e = f
<1>1. e.kind = f.kind /\ e.native = f.native
  BY DEF SameName
<1>2. /\ ReceiptName(q) = ReceiptName(r) /\ (q.kind = "attempt_finished" => q.attempt # None) => q = r
      /\ q.id = r.id => q = r
  BY DEF FabKept, Identified
<1>3. CASE e.kind = "session"
  <2>1. /\ q.kind = "job_submitted" /\ r.kind = "job_submitted" /\ q.job = r.job
        /\ e = JobOpened(q.job, q.at, "receipt") /\ f = JobOpened(r.job, r.at, "receipt")
    BY <1>1, <1>3 DEF ReceiptCase
  <2>2. ReceiptName(q) = ReceiptName(r)
    BY <2>1 DEF ReceiptName
  <2> QED BY <1>2, <2>1, <2>2
<1>4. CASE e.kind = "outcome"
  <2>1. /\ ReceiptEvents(q) = {e} /\ ReceiptEvents(r) = {f} /\ ReceiptName(q) = ReceiptName(r)
        /\ q.kind = "attempt_finished" => q.attempt # None
    BY <1>1, <1>4 DEF ReceiptCase
  <2> QED BY <1>2, <2>1
<1>5. CASE e.kind = "cost"
  <2>1. e = RollupTold(q) /\ f = RollupTold(r) /\ <<"cost", q.id>> = <<"cost", r.id>>
    BY <1>1, <1>5 DEF ReceiptCase
  <2> QED BY <1>2, <2>1
<1> QED BY <1>3, <1>4, <1>5 DEF ReceiptCase

LEMMA FabCases ==
  ASSUME NEW root, NEW since, NEW e \in FabTold(root, since)
  PROVE  /\ e.adapter = "fab"
         /\ \/ \E n \in DOMAIN root.ledger : LineCase(e, root.ledger[n], n, ReceiptCoverage(root.receipts))
            \/ \E r \in root.receipts : ReceiptCase(e, r)
<1>1. CASE e \in ReadLedger(root, root.receipts, since).events
  <2>1. PICK n \in DOMAIN root.ledger :
          e \in ReadLedgerLine(root.ledger[n], n, ReceiptCoverage(root.receipts)).events
    BY <1>1, LedgerReads
  <2> QED BY <2>1, LedgerLineTells
<1>2. CASE \E r \in root.receipts : e \in ReadReceipt(r, since).events
  BY <1>2, ReceiptTells
<1> QED BY <1>1, <1>2 DEF FabTold

LEMMA FabTells ==
  ASSUME NEW sources, FabKept(sources), NEW s \in sources, NEW t \in sources,
         NEW e \in FabTold(s, 0), NEW f \in FabTold(t, 0), SameName(e, f)
  PROVE  e = f
<1> DEFINE ledger(g, x) == \E n \in DOMAIN x.ledger : LineCase(g, x.ledger[n], n, ReceiptCoverage(x.receipts))
           receipt(g, x) == \E r \in x.receipts : ReceiptCase(g, r)
<1>1. (ledger(e, s) \/ receipt(e, s)) /\ (ledger(f, t) \/ receipt(f, t))
  BY FabCases
<1>2. SameName(f, e)
  BY DEF SameName
<1>3. CASE ledger(e, s) /\ ledger(f, t)
  BY <1>3, LedgersTell
<1>4. CASE ledger(e, s) /\ receipt(f, t)
  BY <1>4, LedgerOrReceipt
<1>5. CASE receipt(e, s) /\ ledger(f, t)
  BY <1>2, <1>5, LedgerOrReceipt
<1>6. CASE receipt(e, s) /\ receipt(f, t)
  BY <1>6, ReceiptsTell
<1> QED BY <1>1, <1>3, <1>4, <1>5, <1>6

LEMMA FabReadsOn ==
  ASSUME NEW sources, FabKept(sources), NEW s, NEW t \in sources, FabGoesOn(s, t), NEW since,
         NEW e \in FabTold(s, since)
  PROVE  e \in FabTold(t, 0)
<1>1. CASE e \in ReadLedger(s, s.receipts, since).events
  <2>1. PICK n \in DOMAIN s.ledger :
          e \in ReadLedgerLine(s.ledger[n], n, ReceiptCoverage(s.receipts)).events
    BY <1>1, LedgerReads
  <2> DEFINE line == s.ledger[n]
  <2>2. n \in DOMAIN t.ledger /\ t.ledger[n] = line /\ line \in ToSet(s.ledger) /\ line \in ToSet(t.ledger)
    BY DEF FabGoesOn, Continues, ToSet
  <2>3. line.at >= 0
    BY <2>2 DEF FabKept
  <2> HIDE DEF line
  <2>4. LedgerStep(line) \notin ReceiptCoverage(s.receipts)
    BY <2>1, LedgerLineTells DEF LineCase, line
  <2>5. LedgerStep(line) \notin ReceiptCoverage(t.receipts)
    BY <2>2, <2>4 DEF FabGoesOn
  <2>6. e \in ReadLedgerLine(line, n, ReceiptCoverage(t.receipts)).events
    BY <2>1, <2>5, LedgerLineTold DEF line
  <2>7. e \in ReadLedger(t, t.receipts, 0).events
    BY <2>2, <2>3, <2>6, LedgerReads
  <2> QED BY <2>7 DEF FabTold
<1>2. CASE \E r \in s.receipts : e \in ReadReceipt(r, since).events
  <2>1. PICK r \in s.receipts : e \in ReadReceipt(r, since).events
    BY <1>2
  <2>2. r \in t.receipts
    BY DEF FabGoesOn
  <2>3. r.at \in Nat
    BY <2>2 DEF FabKept, Dated
  <2>4. ~(r.at < since) /\ ~(r.at < 0)
    BY <2>1, <2>3, ReceiptTells
  <2>5. e \in ReadReceipt(r, 0).events
    BY <2>1, <2>4 DEF ReadReceipt
  <2> QED BY <2>2, <2>5 DEF FabTold
<1> QED BY <1>1, <1>2 DEF FabTold

-----------------------------------------------------------------------------
(* What is told of a rollout, line by line, whenever it is read: of its own *)
(* lines in the window, and of the calls in it once they have an output.   *)

\* The lines that say what model answers from then on, and which it is at a line.
ModelLines(lines) ==
  {k \in DOMAIN lines : lines[k].type = "turn_context" /\ ~lines[k].inherited /\ lines[k].model # None}
IsModel(lines, i, m) ==
  \/ m = None /\ \A k \in ModelLines(lines) : ~(k < i)
  \/ \E k \in ModelLines(lines) :
       k < i /\ m = lines[k].model /\ \A l \in ModelLines(lines) : l < i => l <= k
ModelAt(lines, i) == CHOOSE m : IsModel(lines, i, m)

MessageTold(session, model, line, n) ==
  LET native == IF line.id # None THEN <<line.id>> ELSE <<session, n>>
      turn == NormalizedEvent("codex", "turn", <<"message", native>>, line.at,
                              Sid(session), None, [role |-> line.role])
      call == NormalizedEvent("codex", "model_call", <<"model", native>>, line.at,
                              Sid(session), None, [model |-> model])
  IN  (IF line.text THEN {turn} ELSE {}) \cup (IF line.role = "assistant" THEN {call} ELSE {})

UsageTold(session, model, line, n) ==
  NormalizedEvent("codex", "cost", <<"usage", session, n>>, line.at, Sid(session), None,
     [role |-> "unknown", amount |-> None, tokens |-> line.tokens, authority |-> "codex",
      key |-> <<"codex.usage", session, n>>, scope |-> "source", model |-> model,
      economic |-> "unknown", basis |-> "unknown", accuracy |-> "unknown"])

CompleteTold(session, line, n) ==
  LET turn == IF line.turn # None THEN line.turn ELSE n
  IN  NormalizedEvent("codex", "outcome", <<"task", session, turn>>, line.at,
                      Sid(session), None, OutcomePayload("task", "succeeded", turn))

LineTold(session, model, line, n) ==
  CASE line.type = "message"       -> MessageTold(session, model, line, n)
    [] line.type = "token_count"   -> {UsageTold(session, model, line, n)}
    [] line.type = "task_complete" -> {CompleteTold(session, line, n)}
    [] OTHER -> {}

\* A call waits for the first output of it that comes behind it.
Calls(lines, i) == ~lines[i].inherited /\ lines[i].type = "call" /\ lines[i].call # None
Outputs(lines, j, call) == ~lines[j].inherited /\ lines[j].type = "output" /\ lines[j].call = call
Unanswered(lines, i, n) ==
  Calls(lines, i) /\ \A k \in 1..n : i < k => ~Outputs(lines, k, lines[i].call)
Answers(lines, i, j) == i < j /\ Unanswered(lines, i, j - 1) /\ Outputs(lines, j, lines[i].call)

PendingOf(lines, i) == [call |-> lines[i].call, at |-> lines[i].at, tool |-> lines[i].tool, line |-> i]
IsPending(p, lines, n, since) ==
  \E i \in 1..n : Unanswered(lines, i, n) /\ lines[i].at >= since /\ p = PendingOf(lines, i)

\* What the first n lines tell, and the n-th.
SessionOpened(line) == NormalizedEvent("codex", "session", line.id, line.at, None, None, <<>>)
ToolTold(lines, i, j) == CodexTool(lines[1].id, PendingOf(lines, i), lines[j].output)
TellsOf(e, lines, m, since) ==
  \/ /\ ~lines[m].inherited /\ lines[m].at >= since
     /\ e \in LineTold(lines[1].id, ModelAt(lines, m), lines[m], m)
  \/ \E i \in 1..m : Answers(lines, i, m) /\ lines[i].at >= since /\ e = ToolTold(lines, i, m)
RolloutTells(e, lines, n, since) ==
  \/ n # 0 /\ e = SessionOpened(lines[1])
  \/ \E m \in 1..n : TellsOf(e, lines, m, since)

LEMMA OneModel ==
  ASSUME NEW lines, Len(lines) \in Nat, DOMAIN lines = 1..Len(lines), NEW i \in Nat, NEW m, IsModel(lines, i, m)
  PROVE  ModelAt(lines, i) = m
<1>1. ModelLines(lines) \subseteq Nat
  BY DEF ModelLines
<1>2. ASSUME NEW a, NEW b, IsModel(lines, i, a), IsModel(lines, i, b) PROVE a = b
  <2>1. ASSUME NEW k \in ModelLines(lines), NEW l \in ModelLines(lines), k < i, l < i,
               \A x \in ModelLines(lines) : x < i => x <= k,
               \A x \in ModelLines(lines) : x < i => x <= l
        PROVE  k = l
    <3>1. k <= l /\ l <= k /\ k \in Nat /\ l \in Nat
      BY <1>1, <2>1
    <3> QED BY <3>1
  <2> QED BY <1>2, <2>1 DEF IsModel
<1>3. IsModel(lines, i, ModelAt(lines, i))
  BY DEF ModelAt
<1> QED BY <1>2, <1>3

LEMMA ModelGoesOn ==
  ASSUME NEW lines, Len(lines) \in Nat, DOMAIN lines = 1..Len(lines), NEW i \in 1..Len(lines), NEW m,
         IsModel(lines, i, m)
  PROVE  IsModel(lines, i + 1, IF i \in ModelLines(lines) THEN lines[i].model ELSE m)
<1>1. ModelLines(lines) \subseteq Nat
  BY DEF ModelLines
<1>2. \A k \in ModelLines(lines) : k < i + 1 <=> k < i \/ k = i
  BY <1>1
<1>3. CASE i \in ModelLines(lines)
  <2>1. \A l \in ModelLines(lines) : l < i + 1 => l <= i
    BY <1>1
  <2>2. i < i + 1
    OBVIOUS
  <2> QED BY <1>3, <2>1, <2>2 DEF IsModel
<1>4. CASE i \notin ModelLines(lines)
  <2>1. \A k \in ModelLines(lines) : k < i + 1 <=> k < i
    BY <1>2, <1>4
  <2> QED BY <1>4, <2>1 DEF IsModel
<1> QED BY <1>3, <1>4

LEMMA ModelStays ==
  ASSUME NEW lines, NEW later, Len(lines) \in Nat, DOMAIN lines = 1..Len(lines), Len(later) \in Nat,
         DOMAIN later = 1..Len(later), Continues(lines, later), NEW i \in 1..Len(lines)
  PROVE  ModelAt(lines, i) = ModelAt(later, i)
<1>1. ModelLines(lines) \subseteq Nat /\ ModelLines(later) \subseteq Nat
  BY DEF ModelLines
<1>2. \A k \in Nat : k < i => (k \in ModelLines(lines) <=> k \in ModelLines(later))
  <2>1. \A k \in Nat : k < i /\ k \in DOMAIN later => k \in DOMAIN lines
    OBVIOUS
  <2> QED BY <2>1 DEF ModelLines, Continues
<1>3. \A k \in ModelLines(lines) : lines[k].model = later[k].model
  BY DEF ModelLines, Continues
<1>4. \A m : IsModel(lines, i, m) <=> IsModel(later, i, m)
  BY <1>1, <1>2, <1>3 DEF IsModel
<1> QED BY <1>4 DEF ModelAt

\* How a line adds to what is pending, and to what is told.
LEMMA PendingGoesOn ==
  ASSUME NEW lines, NEW n \in Nat, NEW since, NEW p
  PROVE  IsPending(p, lines, n + 1, since) <=>
           \/ IsPending(p, lines, n, since) /\ ~Outputs(lines, n + 1, p.call)
           \/ Calls(lines, n + 1) /\ lines[n + 1].at >= since /\ p = PendingOf(lines, n + 1)
<1> DEFINE m == n + 1
<1>1. \A i \in 1..m : i \in 1..n \/ i = m
  OBVIOUS
<1>2. \A i \in 1..n : i \in 1..m /\ i < m
  OBVIOUS
<1>3. m \in 1..m /\ \A k \in 1..m : ~(m < k)
  OBVIOUS
<1> HIDE DEF m
<1>4. \A i : PendingOf(lines, i).call = lines[i].call
  BY DEF PendingOf
<1>5. \A i \in 1..n : Unanswered(lines, i, m) <=> Unanswered(lines, i, n) /\ ~Outputs(lines, m, lines[i].call)
  BY <1>1, <1>2, <1>3 DEF Unanswered
<1>6. Unanswered(lines, m, m) <=> Calls(lines, m)
  BY <1>3 DEF Unanswered
<1>7. ASSUME IsPending(p, lines, m, since)
      PROVE  \/ IsPending(p, lines, n, since) /\ ~Outputs(lines, m, p.call)
             \/ Calls(lines, m) /\ lines[m].at >= since /\ p = PendingOf(lines, m)
  <2>1. PICK i \in 1..m : Unanswered(lines, i, m) /\ lines[i].at >= since /\ p = PendingOf(lines, i)
    BY <1>7 DEF IsPending
  <2>2. CASE i = m
    BY <1>6, <2>1, <2>2
  <2>3. CASE i \in 1..n
    BY <1>4, <1>5, <2>1, <2>3 DEF IsPending
  <2> QED BY <1>1, <2>2, <2>3
<1>8. ASSUME IsPending(p, lines, n, since), ~Outputs(lines, m, p.call) PROVE IsPending(p, lines, m, since)
  <2>1. PICK i \in 1..n : Unanswered(lines, i, n) /\ lines[i].at >= since /\ p = PendingOf(lines, i)
    BY <1>8 DEF IsPending
  <2> QED BY <1>2, <1>4, <1>5, <1>8, <2>1 DEF IsPending
<1>9. ASSUME Calls(lines, m), lines[m].at >= since, p = PendingOf(lines, m) PROVE IsPending(p, lines, m, since)
  BY <1>3, <1>6, <1>9 DEF IsPending
<1> QED BY <1>7, <1>8, <1>9 DEF m

LEMMA TellsMore ==
  ASSUME NEW lines, NEW n \in Nat, n # 0, NEW since, NEW e
  PROVE  RolloutTells(e, lines, n + 1, since) <=>
           RolloutTells(e, lines, n, since) \/ TellsOf(e, lines, n + 1, since)
<1>1. 1..(n + 1) = 1..n \cup {n + 1} /\ n + 1 # 0
  OBVIOUS
<1> QED BY <1>1 DEF RolloutTells

LEMMA EmitKeeps ==
  ASSUME NEW s, ReaderOK(s), NEW E
  PROVE  /\ Emit(s, E).pending = s.pending /\ Emit(s, E).model = s.model
         /\ Emit(s, E).emitted.events = s.emitted.events \cup E
<1> DEFINE emitted == Both(s.emitted, Yield(E, {}, {}))
<1>1. Emit(s, E) = [s EXCEPT !.emitted = emitted]
  BY DEF Emit
<1>2. emitted.events = s.emitted.events \cup E
  BY DEF Both, Yield, ReaderOK
<1> HIDE DEF emitted
<1> QED BY <1>1, <1>2 DEF ReaderOK

\* What the reader remembers and has told, behind the n-th line.
Remembers(s, lines, n, since) ==
  /\ IsModel(lines, n + 1, s.model)
  /\ \A p : p \in s.pending <=> IsPending(p, lines, n, since)
  /\ \A e : e \in s.emitted.events <=> RolloutTells(e, lines, n, since)

LEMMA ReaderRemembers ==
  ASSUME NEW lines, Len(lines) \in Nat, DOMAIN lines = 1..Len(lines), \A i \in DOMAIN lines : lines[i].at \in Nat,
         RolloutKept(lines), NEW since \in Nat, NEW n \in 1..Len(lines), n + 1 \in 1..Len(lines), NEW s, NEW t,
         ReaderOK(s), s.session = lines[1].id, Remembers(s, lines, n, since),
         GoesThrough(s, t, lines[n + 1], n + 1, since)
  PROVE  Remembers(t, lines, n + 1, since)
<1> DEFINE m == n + 1
           line == lines[m]
           other == ~(line.type = "turn_context" /\ ~line.inherited)
<1>1. m \in Nat /\ m \in 1..Len(lines) /\ n \in Nat /\ n # 0 /\ line.at \in Nat
  OBVIOUS
<1>2. IsModel(lines, m + 1, IF m \in ModelLines(lines) THEN line.model ELSE s.model)
  BY <1>1, ModelGoesOn DEF Remembers
<1>3. ModelAt(lines, m) = s.model
  BY <1>1, OneModel DEF Remembers
<1>4. \A p : IsPending(p, lines, m, since) <=>
               \/ p \in s.pending /\ ~Outputs(lines, m, p.call)
               \/ Calls(lines, m) /\ line.at >= since /\ p = PendingOf(lines, m)
  <2> TAKE p
  <2>1. IsPending(p, lines, n + 1, since) <=>
           \/ IsPending(p, lines, n, since) /\ ~Outputs(lines, n + 1, p.call)
           \/ Calls(lines, n + 1) /\ lines[n + 1].at >= since /\ p = PendingOf(lines, n + 1)
    BY <1>1, PendingGoesOn
  <2> QED BY <2>1 DEF Remembers
<1>5. \A e : RolloutTells(e, lines, m, since) <=> e \in s.emitted.events \/ TellsOf(e, lines, m, since)
  <2> TAKE e
  <2>1. RolloutTells(e, lines, n + 1, since) <=>
           RolloutTells(e, lines, n, since) \/ TellsOf(e, lines, n + 1, since)
    BY <1>1, TellsMore
  <2> QED BY <2>1 DEF Remembers
<1>6. \A e : TellsOf(e, lines, m, since) <=>
               \/ ~line.inherited /\ line.at >= since /\ e \in LineTold(s.session, s.model, line, m)
               \/ \E p \in s.pending : Outputs(lines, m, p.call) /\ e = CodexTool(s.session, p, line.output)
  <2>1. \A i \in 1..m : Answers(lines, i, m) <=> i \in 1..n /\ Unanswered(lines, i, n) /\ Outputs(lines, m, lines[i].call)
    <3>1. m - 1 = n /\ \A i \in 1..m : i < m <=> i \in 1..n
      BY <1>1
    <3> QED BY <3>1 DEF Answers
  <2>2. \A i : PendingOf(lines, i).call = lines[i].call
    BY DEF PendingOf
  <2>3. \A p : p \in s.pending <=>
                 \E i \in 1..n : Unanswered(lines, i, n) /\ lines[i].at >= since /\ p = PendingOf(lines, i)
    BY DEF Remembers, IsPending
  <2>4. 1..n \subseteq 1..m
    BY <1>1
  <2>5. \A e : (\E i \in 1..m : Answers(lines, i, m) /\ lines[i].at >= since /\ e = ToolTold(lines, i, m)) <=>
               (\E p \in s.pending : Outputs(lines, m, p.call) /\ e = CodexTool(s.session, p, line.output))
    <3> HIDE DEF m, line
    <3>1. \A i : ToolTold(lines, i, m) = CodexTool(s.session, PendingOf(lines, i), line.output)
      BY DEF ToolTold, line
    <3> TAKE e
    <3>2. ASSUME NEW i \in 1..m, Answers(lines, i, m), lines[i].at >= since, e = ToolTold(lines, i, m)
          PROVE  \E p \in s.pending : Outputs(lines, m, p.call) /\ e = CodexTool(s.session, p, line.output)
      <4>1. PendingOf(lines, i) \in s.pending
        BY <2>1, <2>3, <3>2
      <4>2. Outputs(lines, m, PendingOf(lines, i).call)
        BY <2>1, <2>2, <3>2
      <4> QED BY <3>1, <3>2, <4>1, <4>2
    <3>3. ASSUME NEW p \in s.pending, Outputs(lines, m, p.call), e = CodexTool(s.session, p, line.output)
          PROVE  \E i \in 1..m : Answers(lines, i, m) /\ lines[i].at >= since /\ e = ToolTold(lines, i, m)
      <4>1. PICK i \in 1..n : Unanswered(lines, i, n) /\ lines[i].at >= since /\ p = PendingOf(lines, i)
        BY <2>3
      <4>2. Answers(lines, i, m) /\ i \in 1..m
        BY <2>1, <2>2, <2>4, <3>3, <4>1
      <4> QED BY <3>1, <3>3, <4>1, <4>2
    <3> QED BY <3>2, <3>3
  <2> QED BY <1>3, <2>5 DEF TellsOf
<1>7. \A p \in s.pending : Outputs(lines, m, p.call) => line.at >= since
  <2> SUFFICES ASSUME NEW p \in s.pending, Outputs(lines, m, p.call) PROVE line.at >= since
    OBVIOUS
  <2>1. PICK i \in 1..n : Unanswered(lines, i, n) /\ lines[i].at >= since /\ p = PendingOf(lines, i)
    BY DEF Remembers, IsPending
  <2>2. i \in OwnLines(lines) /\ m \in OwnLines(lines) /\ i < m /\ lines[i].at \in Nat
    BY <2>1 DEF OwnLines, Unanswered, Calls, Outputs
  <2>3. lines[i].at <= lines[m].at
    BY <2>2 DEF RolloutKept
  <2> QED BY <1>1, <2>1, <2>2, <2>3
<1>8. \A p \in s.pending : Calls(lines, m) => p.call # PendingOf(lines, m).call
  <2> SUFFICES ASSUME NEW p \in s.pending, Calls(lines, m), p.call = PendingOf(lines, m).call PROVE FALSE
    OBVIOUS
  <2>1. PICK i \in 1..n : Unanswered(lines, i, n) /\ p = PendingOf(lines, i)
    BY DEF Remembers, IsPending
  <2>2. lines[i].call = line.call
    BY <2>1 DEF PendingOf
  <2>3. i \in OwnLines(lines) /\ m \in OwnLines(lines) /\ i # m
    BY <2>1 DEF OwnLines, Unanswered, Calls
  <2> QED BY <2>1, <2>2, <2>3 DEF RolloutKept, Unanswered, Calls
<1> HIDE DEF m, line, other
<1> SUFFICES /\ IsModel(lines, m + 1, t.model)
             /\ \A p : p \in t.pending <=> IsPending(p, lines, m, since)
             /\ \A e : e \in t.emitted.events <=> RolloutTells(e, lines, m, since)
  BY DEF Remembers, m
<1>9. GoesThrough(s, t, line, m, since)
  BY DEF m, line
<1>10. Calls(lines, m) <=> ~line.inherited /\ line.type = "call" /\ line.call # None
  BY DEF Calls, line
<1>11. \A call : Outputs(lines, m, call) <=> ~line.inherited /\ line.type = "output" /\ line.call = call
  BY DEF Outputs, line
<1>12. m \in ModelLines(lines) <=> ~line.inherited /\ line.type = "turn_context" /\ line.model # None
  BY <1>1 DEF ModelLines, line
<1>13. CASE /\ Passed(s, t)
            /\ line.inherited \/ line.type \notin ToldTypes \cup {"turn_context"}
                 \/ (line.type \in ToldTypes /\ line.at < since)
  <2>1. ~(line.at >= since /\ line.at < since)
    BY <1>1
  <2>2. m \notin ModelLines(lines)
    BY <1>12, <1>13 DEF ToldTypes
  <2>3. \A p \in s.pending : ~Outputs(lines, m, p.call)
    BY <1>7, <1>11, <1>13, <2>1 DEF ToldTypes
  <2>4. ~(Calls(lines, m) /\ line.at >= since)
    BY <1>10, <1>13, <2>1 DEF ToldTypes
  <2>5. ~line.inherited /\ line.at >= since => LineTold(s.session, s.model, line, m) = {}
    BY <1>13, <2>1 DEF ToldTypes, LineTold
  <2>6. \A e : ~TellsOf(e, lines, m, since)
    BY <1>6, <2>3, <2>5
  <2> QED BY <1>2, <1>4, <1>5, <1>13, <2>2, <2>3, <2>4, <2>6 DEF Passed
<1>14. CASE /\ ~line.inherited /\ line.type = "turn_context"
            /\ t = [s EXCEPT !.model = IF line.model # None THEN line.model ELSE @]
  <2>1. /\ t.pending = s.pending /\ t.emitted = s.emitted
        /\ t.model = IF line.model # None THEN line.model ELSE s.model
    BY <1>14 DEF ReaderOK
  <2>2. IsModel(lines, m + 1, t.model)
    BY <1>2, <1>12, <1>14, <2>1
  <2>3. LineTold(s.session, s.model, line, m) = {} /\ ~Calls(lines, m) /\ \A p : ~Outputs(lines, m, p.call)
    BY <1>10, <1>11, <1>14 DEF LineTold
  <2>4. \A e : ~TellsOf(e, lines, m, since)
    BY <1>6, <2>3
  <2> QED BY <1>4, <1>5, <2>1, <2>2, <2>3, <2>4
<1>15. CASE ~line.inherited /\ ~(line.at < since) /\ TakenIn(s, t, line, m)
  <2>1. line.at >= since
    BY <1>1, <1>15
  <2>2. line.type \in ToldTypes /\ m \notin ModelLines(lines)
    BY <1>12, <1>15 DEF TakenIn, ToldTypes
  <2>3. IsModel(lines, m + 1, s.model)
    BY <1>2, <2>2
  <2>4. CASE line.type \in {"message", "token_count", "task_complete"}
    <3>1. t = Emit(s, LineTold(s.session, s.model, line, m))
      <4>1. CASE line.type = "message"
        BY <1>15, <4>1 DEF TakenIn, ReadMessage, LineTold, MessageTold
      <4>2. CASE line.type = "token_count"
        BY <1>15, <4>2 DEF TakenIn, ReadUsage, LineTold, UsageTold
      <4>3. CASE line.type = "task_complete"
        BY <1>15, <4>3 DEF TakenIn, ReadComplete, LineTold, CompleteTold
      <4> QED BY <2>4, <4>1, <4>2, <4>3
    <3>2. /\ t.pending = s.pending /\ t.model = s.model
          /\ t.emitted.events = s.emitted.events \cup LineTold(s.session, s.model, line, m)
      BY <3>1, EmitKeeps
    <3>3. ~Calls(lines, m) /\ \A p : ~Outputs(lines, m, p.call)
      BY <1>10, <1>11, <2>4
    <3>4. \A e : TellsOf(e, lines, m, since) <=> e \in LineTold(s.session, s.model, line, m)
      BY <1>6, <1>15, <2>1, <3>3
    <3> QED BY <1>4, <1>5, <2>3, <3>2, <3>3, <3>4
  <2>5. CASE line.type = "call"
    <3>1. LineTold(s.session, s.model, line, m) = {} /\ \A p : ~Outputs(lines, m, p.call)
      BY <1>11, <2>5 DEF LineTold
    <3>2. \A e : ~TellsOf(e, lines, m, since)
      BY <1>6, <3>1
    <3>3. t = ReadCall(s, line, m)
      BY <1>15, <2>5 DEF TakenIn
    <3>4. CASE line.call = None
      <4>1. t = s /\ ~Calls(lines, m)
        BY <1>10, <3>3, <3>4 DEF ReadCall
      <4> QED BY <1>4, <1>5, <2>3, <3>1, <3>2, <4>1
    <3>5. CASE line.call # None
      <4>1. Calls(lines, m)
        BY <1>10, <1>15, <2>5, <3>5
      <4>2. PendingOf(lines, m) = [call |-> line.call, at |-> line.at, tool |-> line.tool, line |-> m]
        BY DEF PendingOf, line
      <4>3. \A p \in s.pending : p.call # line.call
        <5>1. PendingOf(lines, m).call = line.call
          BY <4>2
        <5> QED BY <1>8, <4>1, <5>1
      <4>4. /\ t.pending = {p \in s.pending : p.call # line.call} \cup {PendingOf(lines, m)}
            /\ t.model = s.model /\ t.emitted = s.emitted
        BY <3>3, <3>5, <4>2 DEF ReadCall, ReaderOK
      <4>5. t.pending = s.pending \cup {PendingOf(lines, m)}
        BY <4>3, <4>4
      <4> QED BY <1>4, <1>5, <2>1, <2>3, <3>1, <3>2, <4>1, <4>4, <4>5
    <3> QED BY <3>4, <3>5
  <2>6. CASE line.type = "output"
    <3> DEFINE waiting == {p \in s.pending : p.call = line.call}
               u == [s EXCEPT !.pending = @ \ waiting]
               E == {CodexTool(s.session, p, line.output) : p \in waiting}
    <3>1. /\ LineTold(s.session, s.model, line, m) = {} /\ ~Calls(lines, m)
          /\ \A p : Outputs(lines, m, p.call) <=> p.call = line.call
      BY <1>10, <1>11, <1>15, <2>6 DEF LineTold
    <3>2. t = Emit(u, E)
      BY <1>15, <2>6 DEF TakenIn, ReadOutput
    <3>3. ReaderOK(u) /\ u.pending = s.pending \ waiting /\ u.model = s.model /\ u.emitted = s.emitted
      BY DEF ReaderOK
    <3>4. \A e : e \in E <=> TellsOf(e, lines, m, since)
      BY <1>6, <3>1
    <3>5. \A p : p \in s.pending \ waiting <=> IsPending(p, lines, m, since)
      BY <1>4, <3>1
    <3> HIDE DEF u, E, waiting
    <3>6. t.pending = u.pending /\ t.model = u.model /\ t.emitted.events = u.emitted.events \cup E
      BY <3>2, <3>3, EmitKeeps
    <3> QED BY <1>5, <2>3, <3>3, <3>4, <3>5, <3>6
  <2> QED BY <2>2, <2>4, <2>5, <2>6 DEF ToldTypes
<1> QED BY <1>9, <1>13, <1>14, <1>15 DEF GoesThrough

LEMMA ReaderTells ==
  ASSUME NEW lines, NEW rollouts, RolloutOK(lines, rollouts), RolloutKept(lines), NEW since \in Nat, NEW e
  PROVE  e \in ReadCodex(lines, rollouts, since).events <=> RolloutTells(e, lines, Len(lines), since)
<1> DEFINE size == Len(lines)
           opened == NormalizedEvent("codex", "session", lines[1].id, lines[1].at, None, None, <<>>)
<1>1. /\ size \in Nat /\ DOMAIN lines = 1..size /\ \A n \in DOMAIN lines : lines[n].at \in Nat
      /\ size > 0 => lines[1].type = "session_meta"
  <2>1. Len(lines) > 0 => lines # <<>>
    OBVIOUS
  <2> QED BY <2>1 DEF RolloutOK
<1>2. PICK f : /\ ReadCodex(lines, rollouts, since) = f[size].emitted
               /\ f[0] = Unread
               /\ size > 0 => f[1].emitted.events = {opened} /\ f[1].model = None /\ f[1].pending = {}
               /\ \A n \in 1..size : ReaderOK(f[n]) /\ f[n].session = lines[1].id
               /\ \A n \in 2..size : GoesThrough(f[n - 1], f[n], lines[n], n, since)
  BY ReaderPasses
<1>3. opened = SessionOpened(lines[1])
  BY DEF SessionOpened
<1> HIDE DEF size, opened
<1> DEFINE P == {n \in Nat : n + 1 \in 1..size => Remembers(f[n + 1], lines, n + 1, since)}
<1>4. 0 \in P
  <2> SUFFICES ASSUME 1 \in 1..size PROVE Remembers(f[1], lines, 1, since)
    OBVIOUS
  <2>1. /\ f[1].emitted.events = {opened} /\ f[1].model = None /\ f[1].pending = {}
        /\ lines[1].type = "session_meta"
    BY <1>1, <1>2
  <2>2. IsModel(lines, 1 + 1, None)
    <3>1. \A k \in ModelLines(lines) : k < 2 => k = 1
      BY <1>1 DEF ModelLines
    <3>2. 1 \notin ModelLines(lines)
      BY <2>1 DEF ModelLines
    <3> QED BY <3>1, <3>2 DEF IsModel
  <2>3. \A p : ~IsPending(p, lines, 1, since)
    BY <2>1 DEF IsPending, Unanswered, Calls
  <2>4. \A d : ~TellsOf(d, lines, 1, since)
    <3>1. \A i \in 1..1 : ~Answers(lines, i, 1)
      BY DEF Answers
    <3> QED BY <2>1, <3>1 DEF TellsOf, LineTold
  <2>5. \A d : RolloutTells(d, lines, 1, since) <=> d = opened
    BY <1>3, <2>4 DEF RolloutTells
  <2> QED BY <2>1, <2>2, <2>3, <2>5 DEF Remembers
<1>5. ASSUME NEW n \in Nat, n \in P PROVE n + 1 \in P
  <2> DEFINE m == n + 1
  <2> SUFFICES ASSUME m + 1 \in 1..size PROVE Remembers(f[m + 1], lines, m + 1, since)
    OBVIOUS
  <2>1. m \in 1..size /\ m + 1 \in 2..size /\ m + 1 - 1 = m
    BY <1>1
  <2>2. Remembers(f[m], lines, m, since)
    BY <1>5, <2>1
  <2>3. ReaderOK(f[m]) /\ f[m].session = lines[1].id /\ GoesThrough(f[m], f[m + 1], lines[m + 1], m + 1, since)
    <3>1. GoesThrough(f[m + 1 - 1], f[m + 1], lines[m + 1], m + 1, since)
      BY <1>2, <2>1
    <3> QED BY <1>2, <2>1, <3>1
  <2> HIDE DEF m
  <2> QED BY <1>1, <2>1, <2>2, <2>3, ReaderRemembers DEF size
<1>6. CASE size = 0
  <2>1. f[size].emitted.events = {}
    BY <1>2, <1>6 DEF Unread, Nothing, Yield
  <2>2. ~RolloutTells(e, lines, size, since)
    BY <1>6 DEF RolloutTells
  <2> QED BY <1>2, <2>1, <2>2 DEF size
<1>7. CASE size # 0
  <2> HIDE DEF P
  <2>1. Nat \subseteq P
    BY <1>4, <1>5, Induction
  <2>2. size - 1 \in P
    BY <1>1, <1>7, <2>1
  <2>3. Remembers(f[size], lines, size, since)
    <3>1. size - 1 + 1 = size /\ size \in 1..size
      BY <1>1, <1>7
    <3> QED BY <2>2, <3>1 DEF P
  <2> QED BY <1>2, <2>3 DEF size, Remembers
<1> QED BY <1>6, <1>7

LEMMA CodexReadsOn ==
  ASSUME NEW s, NEW t, Continues(s, t), NEW rollouts, NEW later, RolloutOK(s, rollouts), RolloutOK(t, later),
         RolloutKept(s), RolloutKept(t), NEW since \in Nat, NEW e \in ReadCodex(s, rollouts, since).events
  PROVE  e \in ReadCodex(t, later, 0).events
<1>1. /\ Len(s) \in Nat /\ DOMAIN s = 1..Len(s) /\ Len(t) \in Nat /\ DOMAIN t = 1..Len(t)
      /\ \A i \in DOMAIN t : t[i].at >= 0
  BY DEF RolloutOK
<1>2. \A i \in 1..Len(s) : i \in 1..Len(t) /\ t[i] = s[i]
  BY <1>1 DEF Continues
<1>3. RolloutTells(e, s, Len(s), since)
  BY ReaderTells
<1>4. CASE Len(s) # 0 /\ e = SessionOpened(s[1])
  <2>1. Len(t) # 0 /\ t[1] = s[1]
    <3>1. 1 \in 1..Len(s)
      BY <1>1, <1>4
    <3>2. 1 \in 1..Len(t)
      BY <1>2, <3>1
    <3> QED BY <1>1, <1>2, <3>1, <3>2
  <2>2. RolloutTells(e, t, Len(t), 0)
    BY <1>4, <2>1 DEF RolloutTells
  <2> QED BY <2>2, ReaderTells
<1>5. ASSUME NEW m \in 1..Len(s), TellsOf(e, s, m, since) PROVE e \in ReadCodex(t, later, 0).events
  <2>1. \A i \in 1..m : i \in 1..Len(s)
    BY <1>1
  <2>2. \A i \in 1..m : t[i] = s[i] /\ t[i].at >= 0
    BY <1>1, <1>2, <2>1
  <2>3. 1 \in 1..m /\ m \in 1..m /\ m \in 1..Len(t)
    BY <1>2
  <2>4. ModelAt(s, m) = ModelAt(t, m)
    BY <1>1, ModelStays
  <2>5. \A i, j \in 1..m : /\ PendingOf(s, i) = PendingOf(t, i) /\ ToolTold(s, i, j) = ToolTold(t, i, j)
                           /\ Calls(s, i) <=> Calls(t, i)
                           /\ \A call : Outputs(s, j, call) <=> Outputs(t, j, call)
    BY <2>2, <2>3 DEF PendingOf, ToolTold, Calls, Outputs
  <2>6. \A k \in 1..(m - 1) : k \in 1..m
    OBVIOUS
  <2>7. \A i \in 1..m : Answers(s, i, m) => Answers(t, i, m)
    BY <2>2, <2>3, <2>5, <2>6 DEF Answers, Unanswered
  <2>8. TellsOf(e, t, m, 0)
    <3>1. CASE /\ ~s[m].inherited /\ s[m].at >= since
               /\ e \in LineTold(s[1].id, ModelAt(s, m), s[m], m)
      BY <2>2, <2>3, <2>4, <3>1 DEF TellsOf
    <3>2. ASSUME NEW i \in 1..m, Answers(s, i, m), e = ToolTold(s, i, m) PROVE TellsOf(e, t, m, 0)
      <4>1. Answers(t, i, m) /\ t[i].at >= 0 /\ e = ToolTold(t, i, m)
        BY <2>2, <2>3, <2>5, <2>7, <3>2
      <4> QED BY <4>1 DEF TellsOf
    <3> QED BY <1>5, <3>1, <3>2 DEF TellsOf
  <2>9. RolloutTells(e, t, Len(t), 0)
    BY <2>3, <2>8 DEF RolloutTells
  <2> QED BY <2>9, ReaderTells
<1> QED BY <1>3, <1>4, <1>5 DEF RolloutTells

\* What is told of a rollout, by name.
MessagePlace(lines, m) == IF lines[m].id # None THEN <<lines[m].id>> ELSE <<lines[1].id, m>>
TurnTold(lines, m) ==
  NormalizedEvent("codex", "turn", <<"message", MessagePlace(lines, m)>>, lines[m].at,
                  Sid(lines[1].id), None, [role |-> lines[m].role])
AnswerTold(lines, m) ==
  NormalizedEvent("codex", "model_call", <<"model", MessagePlace(lines, m)>>, lines[m].at,
                  Sid(lines[1].id), None, [model |-> ModelAt(lines, m)])

OwnOf(lines, m, type) == m \in OwnLines(lines) /\ lines[m].type = type
TurnCase(e, lines, m) ==
  OwnOf(lines, m, "message") /\ e = TurnTold(lines, m) /\ e.kind = "turn" /\ e.native = <<"message", MessagePlace(lines, m)>>
AnswerCase(e, lines, m) ==
  OwnOf(lines, m, "message") /\ e = AnswerTold(lines, m) /\ e.kind = "model_call" /\ e.native = <<"model", MessagePlace(lines, m)>>
UsageCase(e, lines, m) ==
  /\ OwnOf(lines, m, "token_count") /\ e = UsageTold(lines[1].id, ModelAt(lines, m), lines[m], m)
  /\ e.kind = "cost" /\ e.native = <<"usage", lines[1].id, m>>
CompleteCase(e, lines, m) ==
  /\ OwnOf(lines, m, "task_complete") /\ e = CompleteTold(lines[1].id, lines[m], m)
  /\ e.kind = "outcome" /\ e.native = <<"task", lines[1].id, CompletedTurn(lines, m)>>
ToolCase(e, lines, i, j) ==
  /\ i \in OwnLines(lines) /\ j \in OwnLines(lines) /\ Answers(lines, i, j) /\ e = ToolTold(lines, i, j)
  /\ e.kind = "tool_call" /\ e.native = <<"tool", lines[1].id, lines[i].call>>
CodexCase(e, lines) ==
  \/ lines # <<>> /\ e = SessionOpened(lines[1]) /\ e.kind = "session" /\ e.native = lines[1].id
  \/ \E m \in OwnLines(lines) :
       TurnCase(e, lines, m) \/ AnswerCase(e, lines, m) \/ UsageCase(e, lines, m) \/ CompleteCase(e, lines, m)
  \/ \E i, j \in OwnLines(lines) : ToolCase(e, lines, i, j)

LEMMA CodexCases ==
  ASSUME NEW lines, NEW rollouts, RolloutOK(lines, rollouts), RolloutKept(lines), NEW since \in Nat,
         NEW e \in ReadCodex(lines, rollouts, since).events
  PROVE  e.adapter = "codex" /\ CodexCase(e, lines)
<1> DEFINE session == lines[1].id
<1>1. Len(lines) \in Nat /\ DOMAIN lines = 1..Len(lines)
  BY DEF RolloutOK
<1>2. RolloutTells(e, lines, Len(lines), since)
  BY ReaderTells
<1>3. CASE Len(lines) # 0 /\ e = SessionOpened(lines[1])
  <2>1. FoundAs(SessionOpened(lines[1]), "codex", "session", session)
    BY NamesAre DEF SessionOpened
  <2>2. lines # <<>>
    BY <1>3
  <2> QED BY <1>3, <2>1, <2>2 DEF FoundAs, CodexCase
<1>4. ASSUME NEW m \in 1..Len(lines), ~lines[m].inherited, e \in LineTold(session, ModelAt(lines, m), lines[m], m)
      PROVE  e.adapter = "codex" /\ CodexCase(e, lines)
  <2>1. CASE lines[m].type = "message"
    <3>1. e = TurnTold(lines, m) \/ e = AnswerTold(lines, m)
      BY <1>4, <2>1 DEF LineTold, MessageTold, TurnTold, AnswerTold, MessagePlace
    <3>2. /\ FoundAs(TurnTold(lines, m), "codex", "turn", <<"message", MessagePlace(lines, m)>>)
          /\ FoundAs(AnswerTold(lines, m), "codex", "model_call", <<"model", MessagePlace(lines, m)>>)
      BY NamesAre DEF TurnTold, AnswerTold
    <3>3. m \in OwnLines(lines) /\ OwnOf(lines, m, "message")
      BY <1>1, <1>4, <2>1 DEF OwnLines, OwnOf
    <3>4. e.adapter = "codex" /\ (TurnCase(e, lines, m) \/ AnswerCase(e, lines, m))
      BY <3>1, <3>2, <3>3 DEF FoundAs, TurnCase, AnswerCase
    <3> QED BY <3>3, <3>4 DEF CodexCase
  <2>2. CASE lines[m].type = "token_count"
    <3> DEFINE told == UsageTold(session, ModelAt(lines, m), lines[m], m)
    <3>1. e = told
      BY <1>4, <2>2 DEF LineTold
    <3>2. FoundAs(told, "codex", "cost", <<"usage", session, m>>)
      BY NamesAre DEF UsageTold
    <3>3. m \in OwnLines(lines) /\ OwnOf(lines, m, "token_count")
      BY <1>1, <1>4, <2>2 DEF OwnLines, OwnOf
    <3>4. e.adapter = "codex" /\ UsageCase(e, lines, m)
      BY <3>1, <3>2, <3>3 DEF FoundAs, UsageCase
    <3> QED BY <3>3, <3>4 DEF CodexCase
  <2>3. CASE lines[m].type = "task_complete"
    <3> DEFINE told == CompleteTold(session, lines[m], m)
    <3>1. e = told
      BY <1>4, <2>3 DEF LineTold
    <3>2. FoundAs(told, "codex", "outcome", <<"task", session, CompletedTurn(lines, m)>>)
      BY NamesAre DEF CompleteTold, CompletedTurn, OutcomePayload
    <3>3. m \in OwnLines(lines) /\ OwnOf(lines, m, "task_complete")
      BY <1>1, <1>4, <2>3 DEF OwnLines, OwnOf
    <3>4. e.adapter = "codex" /\ CompleteCase(e, lines, m)
      BY <3>1, <3>2, <3>3 DEF FoundAs, CompleteCase
    <3> QED BY <3>3, <3>4 DEF CodexCase
  <2> QED BY <1>4, <2>1, <2>2, <2>3 DEF LineTold
<1>5. ASSUME NEW m \in 1..Len(lines), NEW i \in 1..m, Answers(lines, i, m), e = ToolTold(lines, i, m)
      PROVE  e.adapter = "codex" /\ CodexCase(e, lines)
  <2>1. i \in OwnLines(lines) /\ m \in OwnLines(lines)
    BY <1>1, <1>5 DEF OwnLines, Answers, Unanswered, Calls, Outputs
  <2>2. PendingOf(lines, i).call = lines[i].call
    BY DEF PendingOf
  <2>3. FoundAs(ToolTold(lines, i, m), "codex", "tool_call", <<"tool", session, lines[i].call>>)
    BY <2>2, NamesAre DEF ToolTold, CodexTool
  <2>4. e.adapter = "codex" /\ ToolCase(e, lines, i, m)
    BY <1>5, <2>1, <2>3 DEF FoundAs, ToolCase
  <2> QED BY <2>1, <2>4 DEF CodexCase
<1> QED BY <1>2, <1>3, <1>4, <1>5 DEF RolloutTells, TellsOf

LEMMA PlacesApart ==
  ASSUME NEW sources, CodexKept(sources), NEW s \in sources, NEW t \in sources,
         NEW m \in OwnLines(s.lines), NEW n \in OwnLines(t.lines),
         s.lines[m].type = "message", t.lines[n].type = "message",
         s.lines # <<>>, t.lines # <<>>,
         MessagePlace(s.lines, m) = MessagePlace(t.lines, n)
  PROVE  s.lines = t.lines /\ m = n
<1>1. \A x, a, b : <<x>> # <<a, b>>
  <2> TAKE x, a, b
  <2>1. Len(<<x>>) = 1 /\ Len(<<a, b>>) = 2
    OBVIOUS
  <2> QED BY <2>1
<1>2. CASE s.lines[m].id # None
  <2>1. t.lines[n].id # None /\ <<s.lines[m].id>> = <<t.lines[n].id>>
    BY <1>1, <1>2 DEF MessagePlace
  <2>2. s.lines[m].id = t.lines[n].id
    BY <2>1
  <2> QED BY <1>2, <2>2 DEF CodexKept
<1>3. CASE s.lines[m].id = None
  <2>1. t.lines[n].id = None /\ <<s.lines[1].id, m>> = <<t.lines[1].id, n>>
    BY <1>1, <1>3 DEF MessagePlace
  <2>2. s.lines[1].id = t.lines[1].id /\ m = n
    BY <2>1
  <2> QED BY <2>2 DEF CodexKept
<1> QED BY <1>2, <1>3

LEMMA CodexTells ==
  ASSUME NEW sources, CodexKept(sources), NEW s \in sources, NEW t \in sources, NEW rollouts,
         RolloutOK(s.lines, rollouts), RolloutOK(t.lines, rollouts),
         NEW e \in ReadCodex(s.lines, rollouts, 0).events, NEW f \in ReadCodex(t.lines, rollouts, 0).events,
         SameName(e, f)
  PROVE  e = f
<1> DEFINE x == s.lines
           y == t.lines
<1>1. e.kind = f.kind /\ e.native = f.native
  BY DEF SameName
<1>2. RolloutKept(x) /\ RolloutKept(y)
  BY DEF CodexKept
<1>3. CodexCase(e, x) /\ CodexCase(f, y)
  BY <1>2, CodexCases
<1>4. x # <<>> /\ y # <<>> /\ x[1].id = y[1].id => x = y
  BY DEF CodexKept
<1>5. \A m \in OwnLines(x), n \in OwnLines(y) :
        /\ OwnOf(x, m, "message") /\ OwnOf(y, n, "message") /\ MessagePlace(x, m) = MessagePlace(y, n)
        => x = y /\ m = n
  <2>1. \A m \in OwnLines(x), n \in OwnLines(y) : x # <<>> /\ y # <<>>
    BY DEF OwnLines
  <2> QED BY <2>1, PlacesApart DEF OwnOf
<1>6. \A m \in OwnLines(x), n \in OwnLines(y) : x # <<>> /\ y # <<>>
  BY DEF OwnLines
<1>7. OwnLines(x) \subseteq Nat
  BY DEF OwnLines, RolloutOK
<1> HIDE DEF x, y
<1>8. CASE x # <<>> /\ e = SessionOpened(x[1]) /\ e.kind = "session" /\ e.native = x[1].id
  <2>1. y # <<>> /\ f = SessionOpened(y[1]) /\ f.native = y[1].id
    BY <1>1, <1>3, <1>8 DEF CodexCase, TurnCase, AnswerCase, UsageCase, CompleteCase, ToolCase
  <2> QED BY <1>1, <1>4, <1>8, <2>1
<1>9. ASSUME NEW m \in OwnLines(x), TurnCase(e, x, m) PROVE e = f
  <2>1. PICK n \in OwnLines(y) : TurnCase(f, y, n)
    BY <1>1, <1>3, <1>9 DEF CodexCase, TurnCase, AnswerCase, UsageCase, CompleteCase, ToolCase
  <2>2. MessagePlace(x, m) = MessagePlace(y, n)
    BY <1>1, <1>9, <2>1, SamePlaces DEF TurnCase
  <2> QED BY <1>5, <1>9, <2>1, <2>2 DEF TurnCase
<1>10. ASSUME NEW m \in OwnLines(x), AnswerCase(e, x, m) PROVE e = f
  <2>1. PICK n \in OwnLines(y) : AnswerCase(f, y, n)
    BY <1>1, <1>3, <1>10 DEF CodexCase, TurnCase, AnswerCase, UsageCase, CompleteCase, ToolCase
  <2>2. MessagePlace(x, m) = MessagePlace(y, n)
    BY <1>1, <1>10, <2>1, SamePlaces DEF AnswerCase
  <2> QED BY <1>5, <1>10, <2>1, <2>2 DEF AnswerCase
<1>11. ASSUME NEW m \in OwnLines(x), UsageCase(e, x, m) PROVE e = f
  <2>1. PICK n \in OwnLines(y) : UsageCase(f, y, n)
    BY <1>1, <1>3, <1>11 DEF CodexCase, TurnCase, AnswerCase, UsageCase, CompleteCase, ToolCase
  <2>2. x[1].id = y[1].id /\ m = n
    BY <1>1, <1>11, <2>1, SamePlaces DEF UsageCase
  <2>3. x = y
    BY <1>4, <1>6, <2>2
  <2> QED BY <1>11, <2>1, <2>2, <2>3 DEF UsageCase
<1>12. ASSUME NEW m \in OwnLines(x), CompleteCase(e, x, m) PROVE e = f
  <2>1. PICK n \in OwnLines(y) : CompleteCase(f, y, n)
    BY <1>1, <1>3, <1>12 DEF CodexCase, TurnCase, AnswerCase, UsageCase, CompleteCase, ToolCase
  <2>2. x[1].id = y[1].id /\ CompletedTurn(x, m) = CompletedTurn(y, n)
    BY <1>1, <1>12, <2>1, SamePlaces DEF CompleteCase
  <2>3. x = y
    BY <1>4, <1>6, <2>2
  <2>4. m = n
    BY <1>2, <1>12, <2>1, <2>2, <2>3 DEF RolloutKept, CompleteCase, OwnOf
  <2> QED BY <1>12, <2>1, <2>3, <2>4 DEF CompleteCase
<1>13. ASSUME NEW i \in OwnLines(x), NEW j \in OwnLines(x), ToolCase(e, x, i, j) PROVE e = f
  <2>1. PICK k \in OwnLines(y), l \in OwnLines(y) : ToolCase(f, y, k, l)
    BY <1>1, <1>3, <1>13 DEF CodexCase, TurnCase, AnswerCase, UsageCase, CompleteCase, ToolCase
  <2>2. x[1].id = y[1].id /\ x[i].call = y[k].call
    BY <1>1, <1>13, <2>1, SamePlaces DEF ToolCase
  <2>3. x = y
    BY <1>4, <1>6, <2>2
  <2>4. i = k
    BY <1>2, <1>13, <2>1, <2>2, <2>3 DEF RolloutKept, ToolCase, Answers, Unanswered, Calls
  <2>5. j = l
    <3>1. Answers(x, i, j) /\ Answers(x, i, l) /\ i \in Nat /\ j \in Nat /\ l \in Nat
      BY <1>7, <1>13, <2>1, <2>3, <2>4 DEF ToolCase
    <3>2. ~(j < l) /\ ~(l < j)
      <4>1. ASSUME NEW a \in Nat, NEW b \in Nat, Answers(x, i, a), Answers(x, i, b), a < b PROVE FALSE
        <5>1. a \in 1..(b - 1) /\ i < a
          BY <3>1, <4>1 DEF Answers
        <5> QED BY <4>1, <5>1 DEF Answers, Unanswered
      <4> QED BY <3>1, <4>1
    <3> QED BY <3>1, <3>2
  <2> QED BY <1>13, <2>1, <2>3, <2>4, <2>5 DEF ToolCase
<1> QED BY <1>3, <1>8, <1>9, <1>10, <1>11, <1>12, <1>13 DEF CodexCase

-----------------------------------------------------------------------------
(* What is told of a Claude Code transcript.                               *)

TranscriptOK(s) == DOMAIN s = {"session", "told", "waiting", "emitted"}
InSession(session) == [session |-> session]

\* What the first line of an answer tells, and a line with text.
ReplyTold(session, line, n) ==
  LET id == AnswerId(InSession(session), line, n)
      call == ClaudeEvent(InSession(session), "model_call", <<"model", session, id>>, line.at, None,
                          [model |-> line.model, request |-> line.request])
      cost == ClaudeEvent(InSession(session), "cost", <<"usage", session, id>>, line.at, call.id,
                [role |-> "unknown", amount |-> None, tokens |-> line.tokens,
                 authority |-> "claude-code", economic |-> "unknown",
                 basis |-> "unknown", accuracy |-> "unknown",
                 key |-> IF line.request # None THEN <<"anthropic.request", line.request>>
                         ELSE <<"claude-code.message", session, id>>,
                 scope |-> IF line.request # None THEN "shared" ELSE "source"])
  IN  {call} \cup (IF line.tokens # None THEN {cost} ELSE {})
SpokenPlace(session, line, n) == IF line.uuid # None THEN <<line.uuid>> ELSE <<session, n>>
SpokenTold(session, line, n) ==
  IF line.text
  THEN {ClaudeEvent(InSession(session), "turn", <<"message", SpokenPlace(session, line, n)>>,
                    line.at, None, [role |-> line.type])}
  ELSE {}
UseTold(session, w, error) == ClaudeTool(InSession(session), w, error)

\* How a line and a block change what the reader remembers.
LEMMA AnswerGoesOn ==
  ASSUME NEW s, TranscriptOK(s), NEW line, NEW n
  PROVE  LET u == TellAnswer(s, line, n)
             id == AnswerId(InSession(s.session), line, n)
         IN  /\ TranscriptOK(u) /\ u.session = s.session /\ u.waiting = s.waiting
             /\ IF line.type # "assistant" \/ id \in s.told
                THEN u.told = s.told /\ u.emitted = s.emitted
                ELSE /\ u.told = s.told \cup {id}
                     /\ u.emitted = s.emitted \cup ReplyTold(s.session, line, n)
<1> DEFINE id == AnswerId(InSession(s.session), line, n)
           told == s.told \cup {id}
           emitted == s.emitted \cup ReplyTold(s.session, line, n)
<1>1. AnswerId(s, line, n) = id
  BY DEF AnswerId, InSession
<1>2. \A kind, native, at, parent, payload :
        ClaudeEvent(s, kind, native, at, parent, payload)
          = ClaudeEvent(InSession(s.session), kind, native, at, parent, payload)
  BY DEF ClaudeEvent, InSession
<1>3. TellAnswer(s, line, n)
        = IF line.type # "assistant" \/ id \in s.told THEN s
          ELSE [s EXCEPT !.told = told, !.emitted = emitted]
  <2> DEFINE call == ClaudeEvent(s, "model_call", <<"model", s.session, id>>, line.at, None,
                                 [model |-> line.model, request |-> line.request])
             cost == ClaudeEvent(s, "cost", <<"usage", s.session, id>>, line.at, call.id,
                [role |-> "unknown", amount |-> None, tokens |-> line.tokens,
                 authority |-> "claude-code", economic |-> "unknown",
                 basis |-> "unknown", accuracy |-> "unknown",
                 key |-> IF line.request # None THEN <<"anthropic.request", line.request>>
                         ELSE <<"claude-code.message", s.session, id>>,
                 scope |-> IF line.request # None THEN "shared" ELSE "source"])
             costs == IF line.tokens # None THEN {cost} ELSE {}
  <2>1. ReplyTold(s.session, line, n) = {call} \cup costs
    BY <1>2 DEF ReplyTold
  <2>2. TellAnswer(s, line, n)
          = IF line.type # "assistant" \/ id \in s.told THEN s
            ELSE [s EXCEPT !.told = told, !.emitted = @ \cup {call} \cup costs]
    BY <1>1 DEF TellAnswer
  <2> HIDE DEF call, costs, id, told
  <2>3. s.emitted \cup {call} \cup costs = emitted
    BY <2>1
  <2> HIDE DEF emitted
  <2> QED BY <2>2, <2>3
<1> HIDE DEF id, told, emitted
<1>4. CASE line.type # "assistant" \/ id \in s.told
  BY <1>3, <1>4 DEF id
<1>5. CASE ~(line.type # "assistant" \/ id \in s.told)
  BY <1>3, <1>5 DEF TranscriptOK, id, told, emitted
<1> QED BY <1>4, <1>5

LEMMA SpokenGoesOn ==
  ASSUME NEW s, TranscriptOK(s), NEW line, NEW n
  PROVE  LET u == TellTurn(s, line, n)
         IN  /\ TranscriptOK(u) /\ u.session = s.session /\ u.waiting = s.waiting /\ u.told = s.told
             /\ u.emitted = s.emitted \cup SpokenTold(s.session, line, n)
<1> DEFINE emitted == s.emitted \cup SpokenTold(s.session, line, n)
<1>1. \A kind, native, at, parent, payload :
        ClaudeEvent(s, kind, native, at, parent, payload)
          = ClaudeEvent(InSession(s.session), kind, native, at, parent, payload)
  BY DEF ClaudeEvent, InSession
<1>2. TellTurn(s, line, n) = IF ~line.text THEN s ELSE [s EXCEPT !.emitted = emitted]
  BY <1>1 DEF TellTurn, SpokenTold, SpokenPlace
<1>3. ~line.text => emitted = s.emitted
  BY DEF SpokenTold
<1> HIDE DEF emitted
<1> QED BY <1>2, <1>3 DEF TranscriptOK, emitted

LEMMA BlockGoesOn ==
  ASSUME NEW s, TranscriptOK(s), NEW block, NEW line, NEW n
  PROVE  LET u == TellBlock(s, block, line, n)
             calls == {w \in s.waiting : w.call = block.call}
         IN  /\ TranscriptOK(u) /\ u.session = s.session /\ u.told = s.told
             /\ IF block.type = "tool_use"
                THEN /\ u.waiting = (s.waiting \ calls)
                           \cup {[call |-> block.call, at |-> line.at, tool |-> block.tool, line |-> n]}
                     /\ u.emitted = s.emitted
                ELSE /\ u.waiting = s.waiting \ calls
                     /\ u.emitted = s.emitted \cup {UseTold(s.session, w, block.error) : w \in calls}
<1> DEFINE calls == {w \in s.waiting : w.call = block.call}
           use == (s.waiting \ calls) \cup {[call |-> block.call, at |-> line.at, tool |-> block.tool, line |-> n]}
           left == s.waiting \ calls
           emitted == s.emitted \cup {UseTold(s.session, w, block.error) : w \in calls}
<1>1. \A w : ClaudeTool(s, w, block.error) = UseTold(s.session, w, block.error)
  BY DEF ClaudeTool, ClaudeEvent, InSession, UseTold
<1>2. TellBlock(s, block, line, n)
        = IF block.type = "tool_use" THEN [s EXCEPT !.waiting = use]
          ELSE [s EXCEPT !.waiting = left, !.emitted = emitted]
  BY <1>1 DEF TellBlock
<1> HIDE DEF use, left, emitted
<1>3. CASE block.type = "tool_use"
  BY <1>2, <1>3 DEF TranscriptOK, use
<1>4. CASE block.type # "tool_use"
  BY <1>2, <1>4 DEF TranscriptOK, left, emitted
<1> QED BY <1>3, <1>4

\* The blocks of a line, one by one, and the lines: the recursions have solutions.
BlockStates(h, s, line, n) ==
  /\ h[0] = TellTurn(TellAnswer(s, line, n), line, n)
  /\ \A k \in 1..Len(line.blocks) : h[k] = TellBlock(h[k - 1], line.blocks[k], line, n)
  /\ TellMessage(s, line, n) = h[Len(line.blocks)]

LEMMA BlocksGoOn ==
  ASSUME NEW s, NEW line, Len(line.blocks) \in Nat, NEW n
  PROVE  \E h : BlockStates(h, s, line, n)
<1> DEFINE start == TellTurn(TellAnswer(s, line, n), line, n)
           tell(u, k) == TellBlock(u, line.blocks[k], line, n)
           eq(h, m) == h = [k \in 0..m |-> IF k = 0 THEN start ELSE tell(h[k - 1], k)]
           P == {m \in Nat : \E h : eq(h, m)}
           after == CHOOSE h : eq(h, Len(line.blocks))
<1>1. TellMessage(s, line, n) = after[Len(line.blocks)]
  BY DEF TellMessage
<1> HIDE DEF start, tell
<1>2. 0 \in P
  <2> DEFINE h == [k \in 0..0 |-> start]
  <2>1. h = [k \in 0..0 |-> IF k = 0 THEN start ELSE tell(h[k - 1], k)]
    OBVIOUS
  <2> HIDE DEF h
  <2> QED BY <2>1
<1>3. ASSUME NEW m \in Nat, m \in P PROVE m + 1 \in P
  <2>1. PICK h : eq(h, m)
    BY <1>3
  <2> DEFINE g == [k \in 0..(m + 1) |-> IF k = m + 1 THEN tell(h[m], k) ELSE h[k]]
  <2>2. ASSUME NEW k \in 0..(m + 1) PROVE g[k] = IF k = 0 THEN start ELSE tell(g[k - 1], k)
    <3>1. CASE k = m + 1
      <4>1. k - 1 = m /\ k # 0 /\ m \in 0..(m + 1) /\ m # m + 1
        BY <3>1
      <4>2. g[m] = h[m]
        BY <4>1
      <4> QED BY <3>1, <4>1, <4>2
    <3>2. CASE k # m + 1
      <4>1. k \in 0..m
        BY <3>2
      <4>2. h[k] = IF k = 0 THEN start ELSE tell(h[k - 1], k)
        BY <2>1, <4>1
      <4>3. g[k] = h[k]
        BY <3>2
      <4>4. k # 0 => g[k - 1] = h[k - 1]
        <5>1. k # 0 => k - 1 \in 0..(m + 1) /\ k - 1 # m + 1
          BY <4>1
        <5> QED BY <5>1
      <4> HIDE DEF g
      <4> QED BY <4>2, <4>3, <4>4
    <3> QED BY <3>1, <3>2
  <2>3. g = [k \in 0..(m + 1) |-> g[k]]
    OBVIOUS
  <2> HIDE DEF g
  <2>4. eq(g, m + 1)
    BY <2>2, <2>3
  <2> QED BY <2>4
<1>4. \E h : eq(h, Len(line.blocks))
  <2> HIDE DEF P
  <2>1. Nat \subseteq P
    BY <1>2, <1>3, Induction
  <2>2. Len(line.blocks) \in P
    BY <2>1
  <2> QED BY <2>2 DEF P
<1>5. eq(after, Len(line.blocks))
  <2> HIDE DEF eq
  <2> QED BY <1>4
<1> DEFINE size == Len(line.blocks)
<1>6. size \in Nat /\ eq(after, size)
  BY <1>5
<1> HIDE DEF after, size
<1>7. after[0] = start /\ \A k \in 1..size : after[k] = tell(after[k - 1], k)
  BY <1>6
<1>8. BlockStates(after, s, line, n)
  BY <1>1, <1>7 DEF start, tell, size, BlockStates
<1> QED BY <1>8

LEMMA TranscriptGoesOn ==
  ASSUME NEW lines, Len(lines) \in Nat, NEW since
  PROVE  \E f : /\ f[0] = UnreadTranscript
                /\ \A n \in 1..Len(lines) : f[n] = ReadClaudeLine(f[n - 1], lines[n], n, since)
                /\ ReadClaude(lines, since) = Yield(f[Len(lines)].emitted, {}, {})
<1> DEFINE read(s, n) == ReadClaudeLine(s, lines[n], n, since)
           eq(f, m) == f = [n \in 0..m |-> IF n = 0 THEN UnreadTranscript ELSE read(f[n - 1], n)]
           P == {m \in Nat : \E f : eq(f, m)}
           state == CHOOSE f : eq(f, Len(lines))
<1>1. ReadClaude(lines, since) = Yield(state[Len(lines)].emitted, {}, {})
  BY DEF ReadClaude
<1> HIDE DEF read
<1>2. 0 \in P
  <2> DEFINE f == [n \in 0..0 |-> UnreadTranscript]
  <2>1. f = [n \in 0..0 |-> IF n = 0 THEN UnreadTranscript ELSE read(f[n - 1], n)]
    OBVIOUS
  <2> HIDE DEF f
  <2> QED BY <2>1
<1>3. ASSUME NEW m \in Nat, m \in P PROVE m + 1 \in P
  <2>1. PICK f : eq(f, m)
    BY <1>3
  <2> DEFINE g == [n \in 0..(m + 1) |-> IF n = m + 1 THEN read(f[m], n) ELSE f[n]]
  <2>2. ASSUME NEW n \in 0..(m + 1) PROVE g[n] = IF n = 0 THEN UnreadTranscript ELSE read(g[n - 1], n)
    <3>1. CASE n = m + 1
      <4>1. n - 1 = m /\ n # 0 /\ m \in 0..(m + 1) /\ m # m + 1
        BY <3>1
      <4>2. g[m] = f[m]
        BY <4>1
      <4> QED BY <3>1, <4>1, <4>2
    <3>2. CASE n # m + 1
      <4>1. n \in 0..m
        BY <3>2
      <4>2. f[n] = IF n = 0 THEN UnreadTranscript ELSE read(f[n - 1], n)
        BY <2>1, <4>1
      <4>3. g[n] = f[n]
        BY <3>2
      <4>4. n # 0 => g[n - 1] = f[n - 1]
        <5>1. n # 0 => n - 1 \in 0..(m + 1) /\ n - 1 # m + 1
          BY <4>1
        <5> QED BY <5>1
      <4> HIDE DEF g
      <4> QED BY <4>2, <4>3, <4>4
    <3> QED BY <3>1, <3>2
  <2>3. g = [n \in 0..(m + 1) |-> g[n]]
    OBVIOUS
  <2> HIDE DEF g
  <2>4. eq(g, m + 1)
    BY <2>2, <2>3
  <2> QED BY <2>4
<1>4. \E f : eq(f, Len(lines))
  <2> HIDE DEF P
  <2>1. Nat \subseteq P
    BY <1>2, <1>3, Induction
  <2>2. Len(lines) \in P
    BY <2>1
  <2> QED BY <2>2 DEF P
<1>5. eq(state, Len(lines))
  <2> HIDE DEF eq
  <2> QED BY <1>4
<1> HIDE DEF state
<1>6. /\ state[0] = UnreadTranscript
      /\ \A n \in 1..Len(lines) : state[n] = read(state[n - 1], n)
  BY <1>5
<1> QED BY <1>1, <1>6 DEF read

LEMMA MessageKeeps ==
  ASSUME NEW s, TranscriptOK(s), NEW line, Len(line.blocks) \in Nat, NEW n
  PROVE  LET u == TellMessage(s, line, n)
         IN  /\ TranscriptOK(u) /\ u.session = s.session /\ s.emitted \subseteq u.emitted
             /\ u.told \subseteq s.told \cup
                  {id \in {AnswerId(InSession(s.session), line, n)} : line.type = "assistant"}
<1> DEFINE size == Len(line.blocks)
           start == TellTurn(TellAnswer(s, line, n), line, n)
<1>h. PICK h : BlockStates(h, s, line, n)
  BY BlocksGoOn
<1>1. /\ h[0] = start
      /\ \A k \in 1..size : h[k] = TellBlock(h[k - 1], line.blocks[k], line, n)
      /\ TellMessage(s, line, n) = h[size]
  BY <1>h DEF BlockStates
<1> DEFINE new == {id \in {AnswerId(InSession(s.session), line, n)} : line.type = "assistant"}
           keeps(u) == /\ TranscriptOK(u) /\ u.session = s.session /\ s.emitted \subseteq u.emitted
                       /\ u.told \subseteq s.told \cup new
           P == {k \in Nat : k <= size => keeps(h[k])}
<1>2. keeps(start)
  <2>1. keeps(TellAnswer(s, line, n))
    BY AnswerGoesOn
  <2> QED BY <2>1, SpokenGoesOn
<1> HIDE DEF size, start
<1>3. 0 \in P
  BY <1>1, <1>2
<1>4. ASSUME NEW k \in Nat, k \in P PROVE k + 1 \in P
  <2> SUFFICES ASSUME k + 1 <= size PROVE keeps(h[k + 1])
    OBVIOUS
  <2>1. size \in Nat
    BY DEF size
  <2>2. k + 1 \in 1..size /\ k + 1 - 1 = k /\ k <= size
    BY <2>1
  <2>3. keeps(h[k]) /\ h[k + 1] = TellBlock(h[k], line.blocks[k + 1], line, n)
    BY <1>1, <1>4, <2>2
  <2> DEFINE u == h[k] v == h[k + 1] block == line.blocks[k + 1]
  <2> HIDE DEF u, v, block
  <2>4. keeps(u) /\ v = TellBlock(u, block, line, n)
    BY <2>3 DEF u, v, block
  <2>5. keeps(v)
    BY <2>4, BlockGoesOn
  <2> QED BY <2>5 DEF v
<1>5. size \in P
  <2> HIDE DEF P
  <2>1. Nat \subseteq P
    BY <1>3, <1>4, Induction
  <2> QED BY <2>1 DEF size
<1>6. keeps(h[size])
  <2>1. size <= size
    BY DEF size
  <2> QED BY <1>5, <2>1
<1> QED BY <1>1, <1>6

\* Nothing is told before a line opens the session, and then what is said in it.
ClaudeOpened(line) ==
  NormalizedEvent("claude-code", "session", SessionIdentity(line), line.at, None, None, <<>>)
OpenedBy(line) ==
  [session |-> SessionIdentity(line), told |-> {}, waiting |-> {}, emitted |-> {ClaudeOpened(line)}]
Hears(f, lines, o, since) ==
  /\ f[o - 1] = OpenedBy(lines[o])
  /\ \A n \in o..Len(lines) :
       f[n] = IF n \in SaidIn(lines, o) /\ ~(lines[n].at < since)
              THEN TellMessage(f[n - 1], lines[n], n) ELSE f[n - 1]
  /\ \A n \in (o - 1)..Len(lines) : TranscriptOK(f[n]) /\ f[n].session = SessionIdentity(lines[o])

LEMMA OpenedOnce ==
  ASSUME NEW lines, Len(lines) \in Nat, DOMAIN lines = 1..Len(lines), NEW o, NEW p, Opens(lines, o), Opens(lines, p)
  PROVE  o = p
<1>1. o \in 1..Len(lines) /\ p \in 1..Len(lines)
  BY DEF Opens
<1>2. ~(o < p) /\ ~(p < o)
  BY <1>1 DEF Opens
<1> QED BY <1>1, <1>2

LEMMA TranscriptPasses ==
  ASSUME NEW lines, Len(lines) \in Nat, DOMAIN lines = 1..Len(lines),
         \A i \in DOMAIN lines : Len(lines[i].blocks) \in Nat, NEW since
  PROVE  /\ (\A o \in DOMAIN lines : ~Opens(lines, o)) => ReadClaude(lines, since).events = {}
         /\ \A o \in DOMAIN lines : Opens(lines, o) =>
              \E f : Hears(f, lines, o, since) /\ ReadClaude(lines, since).events = f[Len(lines)].emitted
<1> DEFINE size == Len(lines)
<1>1. PICK f : /\ f[0] = UnreadTranscript
               /\ \A n \in 1..size : f[n] = ReadClaudeLine(f[n - 1], lines[n], n, since)
               /\ ReadClaude(lines, since) = Yield(f[size].emitted, {}, {})
  BY TranscriptGoesOn
<1>2. ReadClaude(lines, since).events = f[size].emitted
  BY <1>1, InYield
<1> HIDE DEF size
<1>3. size \in Nat /\ DOMAIN lines = 1..size
  BY DEF size
<1> DEFINE silent(i) == lines[i].type = "malformed" \/ SessionIdentity(lines[i]) = None
           P == {n \in Nat : n <= size /\ (\A i \in 1..n : silent(i)) => f[n] = UnreadTranscript}
<1>4. 0 \in P
  BY <1>1
<1>5. ASSUME NEW n \in Nat, n \in P PROVE n + 1 \in P
  <2> SUFFICES ASSUME n + 1 <= size, \A i \in 1..(n + 1) : silent(i) PROVE f[n + 1] = UnreadTranscript
    OBVIOUS
  <2>1. n + 1 \in 1..size /\ n + 1 - 1 = n /\ n <= size /\ n + 1 \in 1..(n + 1) /\ 1..n \subseteq 1..(n + 1)
    BY <1>3
  <2>2. f[n] = UnreadTranscript
    BY <1>5, <2>1
  <2>3. f[n + 1] = ReadClaudeLine(UnreadTranscript, lines[n + 1], n + 1, since) /\ silent(n + 1)
    BY <1>1, <2>1, <2>2
  <2>4. UnreadTranscript.session = None
    BY DEF UnreadTranscript
  <2> QED BY <2>3, <2>4 DEF ReadClaudeLine, OpenSession
<1>6. \A n \in Nat : n \in P
  <2> HIDE DEF P
  <2> QED BY <1>4, <1>5, Induction
<1>7. ASSUME \A o \in DOMAIN lines : ~Opens(lines, o) PROVE f[size].emitted = {}
  <2> DEFINE loud == {i \in 1..size : ~silent(i)}
  <2>1. loud = {}
    <3> SUFFICES ASSUME loud # {} PROVE FALSE
      OBVIOUS
    <3>1. loud \subseteq Nat
      OBVIOUS
    <3>2. PICK o \in loud : \A i \in loud : o <= i
      <4> HIDE DEF loud
      <4> QED BY <3>1, LeastOf
    <3>3. \A i \in 1..(o - 1) : i \in 1..size /\ ~(o <= i)
      BY <1>3
    <3>4. \A i \in 1..(o - 1) : silent(i)
      BY <3>2, <3>3
    <3>5. Opens(lines, o)
      BY <1>3, <3>4 DEF Opens
    <3> QED BY <1>3, <1>7, <3>5
  <2>2. f[size] = UnreadTranscript
    BY <1>3, <1>6, <2>1
  <2> QED BY <2>2 DEF UnreadTranscript
<1>8. ASSUME NEW o \in DOMAIN lines, Opens(lines, o)
      PROVE  \E g : Hears(g, lines, o, since) /\ f[size].emitted = g[size].emitted
  <2> DEFINE session == SessionIdentity(lines[o])
             opened == OpenedBy(lines[o])
             g == [n \in (o - 1)..size |-> IF n = o - 1 THEN opened ELSE f[n]]
             heard(n) == n \in SaidIn(lines, o) /\ ~(lines[n].at < since)
             goes(n) == g[n] = IF heard(n) THEN TellMessage(g[n - 1], lines[n], n) ELSE g[n - 1]
             ok(n) == TranscriptOK(g[n]) /\ g[n].session = session
  <2>1. o \in 1..size /\ session # None /\ lines[o].type # "malformed" /\ f[o - 1] = UnreadTranscript
    <3>1. o - 1 \in Nat /\ o - 1 <= size /\ \A i \in 1..(o - 1) : silent(i)
      BY <1>3, <1>8 DEF Opens
    <3> QED BY <1>3, <1>6, <1>8, <3>1 DEF Opens
  <2>2. g[o - 1] = opened /\ \A n \in o..size : g[n] = f[n]
    BY <1>3, <2>1
  <2>3. TranscriptOK(opened) /\ opened.session = session
    BY DEF OpenedBy, TranscriptOK
  <2>4. OpenSession(UnreadTranscript, lines[o]) = opened
    BY <2>1 DEF OpenSession, UnreadTranscript, OpenedBy, ClaudeOpened
  <2>5. ASSUME NEW n \in o..size, ok(n - 1) PROVE goes(n) /\ ok(n)
    <3> DEFINE line == lines[n]
               s == g[n - 1]
    <3>1. n \in 1..size /\ n \in DOMAIN lines /\ n >= o /\ n \in Nat
      BY <1>3, <2>1
    <3>2. f[n] = ReadClaudeLine(f[n - 1], line, n, since)
      BY <1>1, <3>1
    <3>3. /\ line.type = "malformed" => f[n] = s
          /\ line.type # "malformed" =>
               f[n] = IF SessionIdentity(line) \notin {None, session} \/ line.at < since \/ line.type = "state"
                      THEN s ELSE TellMessage(s, line, n)
      <4>1. CASE n = o
        <5>1. s = opened /\ f[n - 1] = UnreadTranscript /\ line.type # "malformed"
          BY <2>1, <2>2, <4>1
        <5>2. f[n] = ReadClaudeLine(UnreadTranscript, line, n, since)
          BY <3>2, <5>1
        <5>3. OpenSession(UnreadTranscript, line) = s
          BY <2>4, <4>1, <5>1
        <5>4. s.session = session
          BY <2>3, <5>1
        <5> HIDE DEF s, line, session
        <5> QED BY <2>1, <5>1, <5>2, <5>3, <5>4 DEF ReadClaudeLine
      <4>2. CASE n # o
        <5>1. n - 1 \in o..size
          BY <1>3, <2>1, <4>2
        <5>2. s = f[n - 1] /\ s.session = session
          BY <2>2, <2>5, <5>1
        <5>3. f[n] = ReadClaudeLine(s, line, n, since)
          BY <3>2, <5>2
        <5> HIDE DEF s, line, session
        <5>4. OpenSession(s, line) = s
          BY <2>1, <5>2 DEF OpenSession
        <5> QED BY <2>1, <5>2, <5>3, <5>4 DEF ReadClaudeLine
      <4> QED BY <4>1, <4>2
    <3>4. n \in SaidIn(lines, o) <=> line.type \notin {"malformed", "state"} /\ SessionIdentity(line) \in {None, session}
      BY <3>1 DEF SaidIn
    <3>5. f[n] = IF heard(n) THEN TellMessage(s, line, n) ELSE s
      <4> HIDE DEF s, line, session
      <4> QED BY <3>3, <3>4 DEF line
    <3>6. goes(n)
      BY <2>2, <3>5
    <3>7. Len(line.blocks) \in Nat
      BY <3>1
    <3>8. TranscriptOK(s) /\ s.session = session
      BY <2>5
    <3>9. TranscriptOK(TellMessage(s, line, n)) /\ TellMessage(s, line, n).session = session
      <4> HIDE DEF s, line
      <4> QED BY <3>7, <3>8, MessageKeeps
    <3>10. g[n] = s \/ g[n] = TellMessage(s, line, n)
      BY <3>6
    <3> HIDE DEF g
    <3> QED BY <3>6, <3>8, <3>9, <3>10
  <2> DEFINE Q == {n \in Nat : o - 1 + n <= size => ok(o - 1 + n)}
  <2> HIDE DEF g
  <2>6. 0 \in Q
    <3>1. o - 1 + 0 = o - 1
      BY <2>1
    <3> QED BY <2>2, <2>3, <3>1
  <2>7. ASSUME NEW n \in Nat, n \in Q PROVE n + 1 \in Q
    <3> SUFFICES ASSUME o - 1 + (n + 1) <= size PROVE ok(o - 1 + (n + 1))
      OBVIOUS
    <3>1. o - 1 + (n + 1) \in o..size /\ o - 1 + (n + 1) - 1 = o - 1 + n /\ o - 1 + n <= size
      BY <1>3, <2>1
    <3>2. ok(o - 1 + n)
      BY <2>7, <3>1
    <3> HIDE DEF ok, goes
    <3> QED BY <2>5, <3>1, <3>2
  <2>8. \A n \in (o - 1)..size : ok(n)
    <3> TAKE n \in (o - 1)..size
    <3>1. n - (o - 1) \in Nat /\ o - 1 + (n - (o - 1)) = n /\ n <= size
      BY <1>3, <2>1
    <3>2. n - (o - 1) \in Q
      <4> HIDE DEF Q
      <4>1. Nat \subseteq Q
        BY <2>6, <2>7, Induction
      <4> QED BY <3>1, <4>1
    <3> QED BY <3>1, <3>2
  <2>9. \A n \in o..size : goes(n)
    <3> TAKE n \in o..size
    <3>1. n - 1 \in (o - 1)..size
      BY <1>3, <2>1
    <3> HIDE DEF ok, goes
    <3> QED BY <2>5, <2>8, <3>1
  <2>10. Hears(g, lines, o, since)
    BY <2>2, <2>8, <2>9 DEF Hears, size
  <2>11. f[size] = g[size]
    BY <1>3, <2>1, <2>2
  <2> QED BY <2>10, <2>11
<1> QED BY <1>2, <1>7, <1>8 DEF size

\* What a read from some time on has remembered and told, a read of all has too,
\* but for the answers that began before that time.
Behind(s, t, old) ==
  /\ TranscriptOK(s) /\ TranscriptOK(t) /\ s.session = t.session
  /\ s.waiting \subseteq t.waiting /\ s.emitted \subseteq t.emitted /\ t.told \subseteq s.told \cup old

LEMMA MessageAlong ==
  ASSUME NEW s, NEW t, NEW old, Behind(s, t, old), NEW line, Len(line.blocks) \in Nat, NEW n,
         line.type = "assistant" => AnswerId(InSession(s.session), line, n) \notin old
  PROVE  Behind(TellMessage(s, line, n), TellMessage(t, line, n), old)
<1> DEFINE size == Len(line.blocks)
           a == TellAnswer(s, line, n)
           b == TellAnswer(t, line, n)
           start(u) == TellTurn(TellAnswer(u, line, n), line, n)
<1>g. PICK g : BlockStates(g, s, line, n)
  BY BlocksGoOn
<1>1. /\ g[0] = start(s)
      /\ \A k \in 1..size : g[k] = TellBlock(g[k - 1], line.blocks[k], line, n)
      /\ TellMessage(s, line, n) = g[size]
  BY <1>g DEF BlockStates
<1>h. PICK h : BlockStates(h, t, line, n)
  BY BlocksGoOn
<1>2. /\ h[0] = start(t)
      /\ \A k \in 1..size : h[k] = TellBlock(h[k - 1], line.blocks[k], line, n)
      /\ TellMessage(t, line, n) = h[size]
  BY <1>h DEF BlockStates
<1>3. Behind(a, b, old)
  <2> DEFINE id == AnswerId(InSession(s.session), line, n)
  <2>1. /\ TranscriptOK(a) /\ a.session = s.session /\ a.waiting = s.waiting
        /\ IF line.type # "assistant" \/ id \in s.told
           THEN a.told = s.told /\ a.emitted = s.emitted
           ELSE a.told = s.told \cup {id} /\ a.emitted = s.emitted \cup ReplyTold(s.session, line, n)
    BY AnswerGoesOn DEF Behind
  <2>2. /\ TranscriptOK(b) /\ b.session = s.session /\ b.waiting = t.waiting
        /\ IF line.type # "assistant" \/ id \in t.told
           THEN b.told = t.told /\ b.emitted = t.emitted
           ELSE b.told = t.told \cup {id} /\ b.emitted = t.emitted \cup ReplyTold(s.session, line, n)
    BY AnswerGoesOn DEF Behind
  <2> HIDE DEF a, b, id
  <2>3. line.type = "assistant" => id \notin old
    BY DEF id
  <2> QED BY <2>1, <2>2, <2>3 DEF Behind
<1>4. Behind(start(s), start(t), old)
  <2> HIDE DEF a, b
  <2>1. /\ TranscriptOK(start(s)) /\ start(s).session = a.session /\ start(s).waiting = a.waiting
        /\ start(s).told = a.told /\ start(s).emitted = a.emitted \cup SpokenTold(a.session, line, n)
    BY <1>3, SpokenGoesOn DEF Behind, a
  <2>2. /\ TranscriptOK(start(t)) /\ start(t).session = b.session /\ start(t).waiting = b.waiting
        /\ start(t).told = b.told /\ start(t).emitted = b.emitted \cup SpokenTold(b.session, line, n)
    BY <1>3, SpokenGoesOn DEF Behind, b
  <2> HIDE DEF start
  <2> QED BY <1>3, <2>1, <2>2 DEF Behind
<1> HIDE DEF start, size
<1> DEFINE P == {k \in Nat : k <= size => Behind(g[k], h[k], old)}
<1>5. 0 \in P
  BY <1>1, <1>2, <1>4
<1>6. ASSUME NEW k \in Nat, k \in P PROVE k + 1 \in P
  <2> SUFFICES ASSUME k + 1 <= size PROVE Behind(g[k + 1], h[k + 1], old)
    OBVIOUS
  <2>1. size \in Nat
    BY DEF size
  <2>2. k + 1 \in 1..size /\ k + 1 - 1 = k /\ k <= size
    BY <2>1
  <2> DEFINE x == g[k] y == h[k] block == line.blocks[k + 1]
             v == TellBlock(x, block, line, n)
             w == TellBlock(y, block, line, n)
  <2>3. Behind(x, y, old) /\ g[k + 1] = v /\ h[k + 1] = w
    BY <1>1, <1>2, <1>6, <2>2
  <2> HIDE DEF x, y, block
  <2> DEFINE these == {c \in x.waiting : c.call = block.call}
             those == {c \in y.waiting : c.call = block.call}
             use == [call |-> block.call, at |-> line.at, tool |-> block.tool, line |-> n]
  <2>4. /\ TranscriptOK(v) /\ v.session = x.session /\ v.told = x.told
        /\ IF block.type = "tool_use"
           THEN v.waiting = (x.waiting \ these) \cup {use} /\ v.emitted = x.emitted
           ELSE /\ v.waiting = x.waiting \ these
                /\ v.emitted = x.emitted \cup {UseTold(x.session, c, block.error) : c \in these}
    BY <2>3, BlockGoesOn DEF Behind
  <2>5. /\ TranscriptOK(w) /\ w.session = y.session /\ w.told = y.told
        /\ IF block.type = "tool_use"
           THEN w.waiting = (y.waiting \ those) \cup {use} /\ w.emitted = y.emitted
           ELSE /\ w.waiting = y.waiting \ those
                /\ w.emitted = y.emitted \cup {UseTold(y.session, c, block.error) : c \in those}
    BY <2>3, BlockGoesOn DEF Behind
  <2> HIDE DEF v, w, use
  <2>6. these \subseteq those /\ x.waiting \ these \subseteq y.waiting \ those
    BY <2>3 DEF Behind
  <2>7. x.session = y.session /\ x.emitted \subseteq y.emitted /\ y.told \subseteq x.told \cup old
    BY <2>3 DEF Behind
  <2>8. {UseTold(x.session, c, block.error) : c \in these} \subseteq {UseTold(y.session, c, block.error) : c \in those}
    BY <2>6, <2>7
  <2> HIDE DEF these, those
  <2>9. v.waiting \subseteq w.waiting
    BY <2>4, <2>5, <2>6
  <2>10. v.emitted \subseteq w.emitted
    BY <2>4, <2>5, <2>7, <2>8
  <2> QED BY <2>3, <2>4, <2>5, <2>7, <2>9, <2>10 DEF Behind
<1>7. size \in P /\ size <= size
  <2> HIDE DEF P
  <2>1. Nat \subseteq P
    BY <1>5, <1>6, Induction
  <2> QED BY <2>1 DEF size
<1> QED BY <1>1, <1>2, <1>7

LEMMA HearsMore ==
  ASSUME NEW lines, NEW o \in Nat, o # 0, Len(lines) \in Nat, \A i \in SaidIn(lines, o) : Len(lines[i].blocks) \in Nat,
         NEW since, NEW f, Hears(f, lines, o, since), NEW m \in (o - 1)..Len(lines)
  PROVE  f[m].emitted \subseteq f[Len(lines)].emitted
<1> DEFINE size == Len(lines)
           P == {n \in Nat : m + n <= size => f[m].emitted \subseteq f[m + n].emitted}
<1>1. m \in Nat /\ size \in Nat /\ m <= size
  OBVIOUS
<1>2. 0 \in P
  BY <1>1
<1>3. ASSUME NEW n \in Nat, n \in P PROVE n + 1 \in P
  <2> DEFINE i == m + (n + 1)
  <2> SUFFICES ASSUME i <= size PROVE f[m].emitted \subseteq f[i].emitted
    OBVIOUS
  <2>1. i \in o..size /\ i - 1 = m + n /\ m + n <= size /\ i - 1 \in (o - 1)..size
    BY <1>1
  <2>2. f[m].emitted \subseteq f[i - 1].emitted
    BY <1>3, <2>1
  <2> HIDE DEF i
  <2>3. TranscriptOK(f[i - 1])
    BY <2>1 DEF Hears
  <2>4. f[i] = IF i \in SaidIn(lines, o) /\ ~(lines[i].at < since)
               THEN TellMessage(f[i - 1], lines[i], i) ELSE f[i - 1]
    BY <2>1 DEF Hears
  <2>5. CASE i \in SaidIn(lines, o) /\ ~(lines[i].at < since)
    <3>1. f[i - 1].emitted \subseteq f[i].emitted
      BY <2>3, <2>4, <2>5, MessageKeeps
    <3> QED BY <2>2, <3>1
  <2>6. CASE ~(i \in SaidIn(lines, o) /\ ~(lines[i].at < since))
    BY <2>2, <2>4, <2>6
  <2> QED BY <2>5, <2>6
<1>4. size - m \in P
  <2> HIDE DEF P
  <2>1. Nat \subseteq P
    BY <1>2, <1>3, Induction
  <2> QED BY <1>1, <2>1
<1>5. m + (size - m) = size
  BY <1>1
<1> QED BY <1>4, <1>5

LEMMA ClaudeReadsOn ==
  ASSUME NEW s, NEW t, Continues(s, t), NEW bounds, bounds \subseteq Nat,
         TranscriptKept(s, bounds), TranscriptKept(t, bounds), NEW since \in bounds,
         NEW e \in ReadClaude(s, since).events
  PROVE  e \in ReadClaude(t, 0).events
<1> DEFINE size == Len(s)
<1>1. /\ size \in Nat /\ DOMAIN s = 1..size /\ Len(t) \in Nat /\ DOMAIN t = 1..Len(t) /\ since \in Nat
      /\ \A i \in 1..size : Len(s[i].blocks) \in Nat /\ s[i].at \in Nat
      /\ \A i \in DOMAIN t : Len(t[i].blocks) \in Nat /\ t[i].at \in Nat
  BY DEF TranscriptKept
<1>2. \A i \in 1..size : i \in DOMAIN t /\ t[i] = s[i]
  BY <1>1 DEF Continues
<1>3. PICK o \in DOMAIN s : Opens(s, o)
  <2> SUFFICES ASSUME \A o \in DOMAIN s : ~Opens(s, o) PROVE FALSE
    OBVIOUS
  <2>1. ReadClaude(s, since).events = {}
    BY <1>1, TranscriptPasses
  <2> QED BY <2>1
<1>4. o \in 1..size /\ o \in Nat /\ o # 0 /\ o \in DOMAIN t /\ t[o] = s[o] /\ size <= Len(t)
  <2>1. o \in 1..size
    BY <1>1, <1>3
  <2>2. size \in 1..size
    BY <1>1, <2>1
  <2>3. size \in DOMAIN t
    BY <1>2, <2>2
  <2> QED BY <1>1, <1>2, <2>1, <2>3
<1>5. Opens(t, o)
  <2>1. \A i \in 1..(o - 1) : i \in 1..size
    BY <1>1, <1>4
  <2> QED BY <1>2, <1>3, <1>4, <2>1 DEF Opens
<1>6. PICK f : Hears(f, s, o, since) /\ ReadClaude(s, since).events = f[size].emitted
  BY <1>1, <1>3, TranscriptPasses
<1>7. PICK g : Hears(g, t, o, 0) /\ ReadClaude(t, 0).events = g[Len(t)].emitted
  BY <1>1, <1>4, <1>5, TranscriptPasses
<1>8. \A i \in 1..size : i \in SaidIn(s, o) <=> i \in SaidIn(t, o)
  BY <1>1, <1>2, <1>4 DEF SaidIn
<1> DEFINE session == SessionIdentity(s[o])
           early(m) == m \in SaidIn(s, o) /\ s[m].at < since
           old == {AnswerOf(s, o, m) : m \in {m \in SaidIn(s, o) : s[m].type = "assistant" /\ s[m].at < since}}
           opened == OpenedBy(s[o])
           along(n) == /\ Behind(f[n], g[n], old)
                       /\ f[n] = opened \/ \E m \in SaidIn(s, o) : m <= n /\ ~(s[m].at < since)
           P == {n \in Nat : o - 1 + n <= size => along(o - 1 + n)}
<1>9. SaidIn(s, o) \subseteq 1..size
  BY <1>1 DEF SaidIn
<1>10. ASSUME NEW m \in SaidIn(s, o), NEW n \in SaidIn(s, o)
       PROVE  /\ m < n => s[m].at <= s[n].at
              /\ s[m].type = "assistant" /\ s[n].type = "assistant" /\ AnswerOf(s, o, m) = AnswerOf(s, o, n)
                   => (s[m].at >= since <=> s[n].at >= since)
  BY <1>3 DEF TranscriptKept
<1>11. 0 \in P
  <2>1. o - 1 + 0 = o - 1
    BY <1>4
  <2>2. f[o - 1] = opened /\ g[o - 1] = opened
    BY <1>4, <1>6, <1>7 DEF Hears
  <2>3. Behind(opened, opened, old)
    BY DEF Behind, OpenedBy, TranscriptOK
  <2> QED BY <2>1, <2>2, <2>3
<1>12. ASSUME NEW j \in Nat, j \in P PROVE j + 1 \in P
  <2> DEFINE n == o - 1 + (j + 1)
  <2> SUFFICES ASSUME n <= size PROVE along(n)
    OBVIOUS
  <2>1. n \in o..size /\ n - 1 = o - 1 + j /\ n - 1 <= size /\ n - 1 \in (o - 1)..size
    BY <1>1, <1>4
  <2>2. along(n - 1)
    BY <1>12, <2>1
  <2> HIDE DEF n
  <2> DEFINE line == s[n]
             x == f[n - 1]
             y == g[n - 1]
  <2>3. n \in 1..size /\ n \in o..Len(t) /\ n - 1 \in (o - 1)..Len(t) /\ t[n] = line /\ n \in Nat
    BY <1>1, <1>2, <1>4, <2>1
  <2>4. Len(line.blocks) \in Nat /\ line.at \in Nat
    BY <1>1, <2>3
  <2>5. f[n] = IF n \in SaidIn(s, o) /\ ~(line.at < since) THEN TellMessage(x, line, n) ELSE x
    BY <1>6, <2>1 DEF Hears
  <2>6. g[n] = IF n \in SaidIn(s, o) THEN TellMessage(y, line, n) ELSE y
    <3>1. g[n] = IF n \in SaidIn(t, o) /\ ~(t[n].at < 0) THEN TellMessage(g[n - 1], t[n], n) ELSE g[n - 1]
      BY <1>7, <2>3 DEF Hears
    <3>2. ~(line.at < 0)
      BY <2>4
    <3> QED BY <1>8, <2>3, <3>1, <3>2
  <2>7. x.session = session /\ y.session = session /\ TranscriptOK(x) /\ TranscriptOK(y)
    BY <1>4, <1>6, <1>7, <2>1, <2>3 DEF Hears
  <2>8. AnswerId(InSession(session), line, n) = AnswerOf(s, o, n)
    BY DEF AnswerOf, InSession
  <2>9. CASE n \notin SaidIn(s, o)
    <3>1. f[n] = x /\ g[n] = y
      BY <2>5, <2>6, <2>9
    <3>2. \A m \in SaidIn(s, o) : m <= n - 1 => m <= n
      BY <1>9, <2>3
    <3> QED BY <2>2, <3>1, <3>2
  <2>10. CASE n \in SaidIn(s, o) /\ ~(line.at < since)
    <3>1. line.type = "assistant" => AnswerOf(s, o, n) \notin old
      <4> SUFFICES ASSUME line.type = "assistant", NEW m \in SaidIn(s, o), s[m].type = "assistant",
                          s[m].at < since, AnswerOf(s, o, n) = AnswerOf(s, o, m)
                   PROVE  FALSE
        OBVIOUS
      <4>1. s[m].at \in Nat /\ (s[m].at >= since <=> s[n].at >= since)
        BY <1>1, <1>9, <1>10, <2>10
      <4>2. s[n].at >= since /\ ~(s[m].at >= since)
        BY <1>1, <2>4, <2>10, <4>1
      <4> QED BY <4>1, <4>2
    <3>2. n <= n
      BY <2>3
    <3> HIDE DEF old
    <3>3. Behind(x, y, old)
      BY <2>2
    <3> HIDE DEF x, y, line
    <3>4. Behind(TellMessage(x, line, n), TellMessage(y, line, n), old)
      BY <2>4, <2>7, <2>8, <3>1, <3>3, MessageAlong
    <3>5. Behind(f[n], g[n], old)
      BY <2>5, <2>6, <2>10, <3>4
    <3> QED BY <2>10, <3>2, <3>5 DEF line
  <2>11. CASE n \in SaidIn(s, o) /\ line.at < since
    <3>1. x = opened
      <4> SUFFICES ASSUME NEW m \in SaidIn(s, o), m <= n - 1, ~(s[m].at < since) PROVE FALSE
        BY <2>2
      <4>1. m < n /\ s[m].at \in Nat
        BY <1>1, <1>9, <2>3
      <4>2. s[m].at <= s[n].at
        BY <1>10, <2>11, <4>1
      <4> QED BY <1>1, <2>4, <2>11, <4>1, <4>2
    <3>2. f[n] = x /\ g[n] = TellMessage(y, line, n)
      BY <2>5, <2>6, <2>11
    <3>3. line.type = "assistant" => AnswerOf(s, o, n) \in old
      BY <2>11
    <3> HIDE DEF old
    <3>4. Behind(x, y, old)
      BY <2>2
    <3> DEFINE z == TellMessage(y, line, n)
               new == {id \in {AnswerId(InSession(y.session), line, n)} : line.type = "assistant"}
    <3> HIDE DEF x, y, line
    <3>5. TranscriptOK(z) /\ z.session = y.session /\ y.emitted \subseteq z.emitted /\ z.told \subseteq y.told \cup new
      BY <2>4, <2>7, MessageKeeps
    <3>6. new \subseteq old
      BY <2>7, <2>8, <3>3
    <3>7. x.waiting = {}
      BY <3>1 DEF OpenedBy
    <3> HIDE DEF z, new
    <3>8. Behind(x, z, old)
      BY <3>4, <3>5, <3>6, <3>7 DEF Behind
    <3> QED BY <3>1, <3>2, <3>8 DEF z
  <2> QED BY <2>9, <2>10, <2>11
<1>13. along(size)
  <2>1. size - (o - 1) \in P
    <3> HIDE DEF P
    <3>1. Nat \subseteq P
      BY <1>11, <1>12, Induction
    <3> QED BY <1>1, <1>4, <3>1
  <2>2. o - 1 + (size - (o - 1)) = size
    BY <1>1, <1>4
  <2> QED BY <1>1, <2>1, <2>2
<1>14. e \in g[size].emitted
  BY <1>6, <1>13 DEF Behind
<1>15. g[size].emitted \subseteq g[Len(t)].emitted
  <2>1. \A i \in SaidIn(t, o) : Len(t[i].blocks) \in Nat
    BY <1>1 DEF SaidIn
  <2>2. size \in (o - 1)..Len(t)
    BY <1>1, <1>4
  <2> QED BY <1>1, <1>4, <1>7, <2>1, <2>2, HearsMore
<1> QED BY <1>7, <1>14, <1>15

\* Events of one name are one event.
Apart(E) == \A e, f \in E : SameName(e, f) => e = f

LEMMA ApartTogether ==
  ASSUME NEW E, NEW F, Apart(E), Apart(F), \A e \in E, f \in F : ~SameName(e, f)
  PROVE  Apart(E \cup F)
BY DEF Apart, SameName

\* What is told of a transcript so far: the session, answers, what was spoken, and the
\* tools that were used and wait no more.
ClaudeName(e, session, told, spoken, used) ==
  /\ e.adapter = "claude-code"
  /\ \/ e.kind = "session" /\ e.native = session
     \/ e.kind = "model_call" /\ \E id \in told : e.native = <<"model", session, id>>
     \/ e.kind = "cost" /\ \E id \in told : e.native = <<"usage", session, id>>
     \/ e.kind = "turn" /\ \E place \in spoken : e.native = <<"message", place>>
     \/ e.kind = "tool_call" /\ \E call \in used : e.native = <<"tool", session, call>>
CallsOf(waiting) == {w.call : w \in waiting}
Fresh(s, session, spoken, used) ==
  /\ TranscriptOK(s) /\ s.session = session
  /\ Apart(s.emitted)
  /\ \A e \in s.emitted : ClaudeName(e, session, s.told, spoken, used \ CallsOf(s.waiting))
  /\ \A w \in s.waiting : w.call \in used
  /\ \A v, w \in s.waiting : v.call = w.call => v = w

LEMMA ClaudeNamed ==
  ASSUME NEW session, NEW line, NEW n
  PROVE  /\ Apart(ReplyTold(session, line, n))
         /\ \A e \in ReplyTold(session, line, n) :
              LET id == AnswerId(InSession(session), line, n)
              IN  \/ FoundAs(e, "claude-code", "model_call", <<"model", session, id>>)
                  \/ FoundAs(e, "claude-code", "cost", <<"usage", session, id>>)
         /\ Apart(SpokenTold(session, line, n))
         /\ \A e \in SpokenTold(session, line, n) :
              FoundAs(e, "claude-code", "turn", <<"message", SpokenPlace(session, line, n)>>)
         /\ \A w, error : FoundAs(UseTold(session, w, error), "claude-code", "tool_call", <<"tool", session, w.call>>)
<1> DEFINE id == AnswerId(InSession(session), line, n)
           call == ClaudeEvent(InSession(session), "model_call", <<"model", session, id>>, line.at, None,
                          [model |-> line.model, request |-> line.request])
           cost == ClaudeEvent(InSession(session), "cost", <<"usage", session, id>>, line.at, call.id,
                [role |-> "unknown", amount |-> None, tokens |-> line.tokens,
                 authority |-> "claude-code", economic |-> "unknown",
                 basis |-> "unknown", accuracy |-> "unknown",
                 key |-> IF line.request # None THEN <<"anthropic.request", line.request>>
                         ELSE <<"claude-code.message", session, id>>,
                 scope |-> IF line.request # None THEN "shared" ELSE "source"])
           turn == ClaudeEvent(InSession(session), "turn", <<"message", SpokenPlace(session, line, n)>>,
                    line.at, None, [role |-> line.type])
<1>1. FoundAs(call, "claude-code", "model_call", <<"model", session, id>>)
  BY NamesAre DEF ClaudeEvent
<1>2. FoundAs(cost, "claude-code", "cost", <<"usage", session, id>>)
  BY NamesAre DEF ClaudeEvent
<1>3. FoundAs(turn, "claude-code", "turn", <<"message", SpokenPlace(session, line, n)>>)
  BY NamesAre DEF ClaudeEvent
<1>4. \A w, error : FoundAs(UseTold(session, w, error), "claude-code", "tool_call", <<"tool", session, w.call>>)
  BY NamesAre DEF UseTold, ClaudeTool, ClaudeEvent, InSession
<1>5. ReplyTold(session, line, n) \subseteq {call, cost}
  BY DEF ReplyTold
<1>6. SpokenTold(session, line, n) \subseteq {turn}
  BY DEF SpokenTold
<1> HIDE DEF call, cost, turn
<1>7. Apart({call, cost}) /\ Apart({turn})
  BY <1>1, <1>2 DEF Apart, SameName, FoundAs
<1>8. Apart(ReplyTold(session, line, n)) /\ Apart(SpokenTold(session, line, n))
  BY <1>5, <1>6, <1>7 DEF Apart
<1> QED BY <1>1, <1>2, <1>3, <1>4, <1>5, <1>6, <1>8

LEMMA AnswerFresh ==
  ASSUME NEW s, NEW session, NEW spoken, NEW used, Fresh(s, session, spoken, used), NEW line, NEW n
  PROVE  Fresh(TellAnswer(s, line, n), session, spoken, used)
<1> DEFINE u == TellAnswer(s, line, n)
           id == AnswerId(InSession(session), line, n)
           new == ReplyTold(session, line, n)
           answered == used \ CallsOf(s.waiting)
<1>1. /\ TranscriptOK(u) /\ u.session = session /\ u.waiting = s.waiting
      /\ IF line.type # "assistant" \/ id \in s.told
         THEN u.told = s.told /\ u.emitted = s.emitted
         ELSE u.told = s.told \cup {id} /\ u.emitted = s.emitted \cup new
  BY AnswerGoesOn DEF Fresh
<1>2. /\ Apart(new)
      /\ \A e \in new : \/ FoundAs(e, "claude-code", "model_call", <<"model", session, id>>)
                        \/ FoundAs(e, "claude-code", "cost", <<"usage", session, id>>)
  BY ClaudeNamed
<1> HIDE DEF u, id, new, answered
<1>3. \A e \in s.emitted : ClaudeName(e, session, s.told, spoken, answered)
  BY DEF Fresh, answered
<1>4. CASE line.type # "assistant" \/ id \in s.told
  BY <1>1, <1>4 DEF Fresh, u
<1>5. CASE ~(line.type # "assistant" \/ id \in s.told)
  <2>1. \A e \in s.emitted, f \in new : ~SameName(e, f)
    BY <1>2, <1>3, <1>5 DEF ClaudeName, SameName, FoundAs
  <2>2. Apart(u.emitted)
    BY <1>1, <1>2, <1>5, <2>1, ApartTogether DEF Fresh
  <2>3. \A e \in u.emitted : ClaudeName(e, session, u.told, spoken, answered)
    <3>1. \A e \in s.emitted : ClaudeName(e, session, u.told, spoken, answered)
      BY <1>1, <1>3, <1>5 DEF ClaudeName
    <3>2. \A e \in new : ClaudeName(e, session, u.told, spoken, answered)
      BY <1>1, <1>2, <1>5 DEF ClaudeName, FoundAs
    <3> QED BY <1>1, <1>5, <3>1, <3>2
  <2> QED BY <1>1, <2>2, <2>3 DEF Fresh, answered, u
<1> QED BY <1>4, <1>5

LEMMA SpokenFresh ==
  ASSUME NEW s, NEW session, NEW spoken, NEW used, Fresh(s, session, spoken, used), NEW line, NEW n,
         line.text => SpokenPlace(session, line, n) \notin spoken
  PROVE  Fresh(TellTurn(s, line, n), session,
               spoken \cup {place \in {SpokenPlace(session, line, n)} : line.text}, used)
<1> DEFINE u == TellTurn(s, line, n)
           new == SpokenTold(session, line, n)
           here == {place \in {SpokenPlace(session, line, n)} : line.text}
           answered == used \ CallsOf(s.waiting)
<1>1. /\ TranscriptOK(u) /\ u.session = session /\ u.waiting = s.waiting /\ u.told = s.told
      /\ u.emitted = s.emitted \cup new
  BY SpokenGoesOn DEF Fresh
<1>2. /\ Apart(new)
      /\ \A e \in new : line.text /\ FoundAs(e, "claude-code", "turn", <<"message", SpokenPlace(session, line, n)>>)
  BY ClaudeNamed DEF SpokenTold
<1> HIDE DEF u, new, answered
<1>3. \A e \in s.emitted : ClaudeName(e, session, s.told, spoken, answered)
  BY DEF Fresh, answered
<1>4. \A e \in s.emitted, f \in new : ~SameName(e, f)
  BY <1>2, <1>3 DEF ClaudeName, SameName, FoundAs
<1>5. Apart(u.emitted)
  BY <1>1, <1>2, <1>4, ApartTogether DEF Fresh
<1>6. \A e \in u.emitted : ClaudeName(e, session, u.told, spoken \cup here, answered)
  <2>1. \A e \in s.emitted : ClaudeName(e, session, u.told, spoken \cup here, answered)
    BY <1>1, <1>3 DEF ClaudeName
  <2>2. \A e \in new : ClaudeName(e, session, u.told, spoken \cup here, answered)
    BY <1>1, <1>2 DEF ClaudeName, FoundAs
  <2> QED BY <1>1, <2>1, <2>2
<1> HIDE DEF here
<1>7. Fresh(u, session, spoken \cup here, used)
  BY <1>1, <1>5, <1>6 DEF Fresh, answered
<1> QED BY <1>7 DEF u, here

LEMMA BlockFresh ==
  ASSUME NEW s, NEW session, NEW spoken, NEW used, Fresh(s, session, spoken, used), NEW block, NEW line, NEW n,
         block.type = "tool_use" => block.call \notin used
  PROVE  Fresh(TellBlock(s, block, line, n), session, spoken,
               used \cup {call \in {block.call} : block.type = "tool_use"})
<1> DEFINE u == TellBlock(s, block, line, n)
           calls == {w \in s.waiting : w.call = block.call}
           use == [call |-> block.call, at |-> line.at, tool |-> block.tool, line |-> n]
           new == {UseTold(session, w, block.error) : w \in calls}
           answered == used \ CallsOf(s.waiting)
<1>1. /\ TranscriptOK(u) /\ u.session = session /\ u.told = s.told
      /\ IF block.type = "tool_use"
         THEN u.waiting = (s.waiting \ calls) \cup {use} /\ u.emitted = s.emitted
         ELSE u.waiting = s.waiting \ calls /\ u.emitted = s.emitted \cup new
  BY BlockGoesOn DEF Fresh
<1>2. \A w, error : FoundAs(UseTold(session, w, error), "claude-code", "tool_call", <<"tool", session, w.call>>)
  BY ClaudeNamed
<1>3. use.call = block.call
  OBVIOUS
<1> HIDE DEF u, use
<1>4. \A e \in s.emitted : ClaudeName(e, session, s.told, spoken, answered)
  BY DEF Fresh
<1>5. CASE block.type = "tool_use"
  <2>1. calls = {} /\ u.waiting = s.waiting \cup {use}
    BY <1>1, <1>5 DEF Fresh
  <2>2. (used \cup {block.call}) \ CallsOf(u.waiting) = answered
    BY <1>3, <1>5, <2>1 DEF CallsOf
  <2>3. Fresh(u, session, spoken, used \cup {block.call})
    <3>1. \A v, w \in u.waiting : v.call = w.call => v = w
      BY <1>3, <1>5, <2>1 DEF Fresh
    <3>2. \A w \in u.waiting : w.call \in used \cup {block.call}
      BY <1>3, <2>1 DEF Fresh
    <3> HIDE DEF answered, calls
    <3> QED BY <1>1, <1>4, <1>5, <2>2, <3>1, <3>2 DEF Fresh
  <2>4. {call \in {block.call} : block.type = "tool_use"} = {block.call}
    BY <1>5
  <2> QED BY <2>3, <2>4 DEF u
<1>6. CASE block.type # "tool_use"
  <2>1. Apart(new)
    <3> SUFFICES ASSUME NEW v \in calls, NEW w \in calls
                 PROVE  UseTold(session, v, block.error) = UseTold(session, w, block.error)
      BY DEF Apart
    <3> QED BY DEF Fresh
  <2>2. answered \subseteq used \ CallsOf(u.waiting)
    BY <1>1, <1>6 DEF CallsOf
  <2>3. \A e \in new : FoundAs(e, "claude-code", "tool_call", <<"tool", session, block.call>>)
    BY <1>2
  <2>4. \A e \in new : block.call \notin answered /\ block.call \in used \ CallsOf(u.waiting)
    BY <1>1, <1>6 DEF CallsOf, Fresh
  <2> HIDE DEF new, answered, calls
  <2>5. \A e \in s.emitted, f \in new : ~SameName(e, f)
    BY <1>4, <2>3, <2>4 DEF ClaudeName, SameName, FoundAs
  <2>6. Apart(u.emitted)
    BY <1>1, <1>6, <2>1, <2>5, ApartTogether DEF Fresh
  <2>7. \A e \in u.emitted : ClaudeName(e, session, u.told, spoken, used \ CallsOf(u.waiting))
    <3>1. \A e \in s.emitted : ClaudeName(e, session, u.told, spoken, used \ CallsOf(u.waiting))
      BY <1>1, <1>4, <2>2 DEF ClaudeName
    <3>2. \A e \in new : ClaudeName(e, session, u.told, spoken, used \ CallsOf(u.waiting))
      BY <2>3, <2>4 DEF ClaudeName, FoundAs
    <3> QED BY <1>1, <1>6, <3>1, <3>2
  <2>8. u.waiting \subseteq s.waiting
    BY <1>1, <1>6
  <2>9. Fresh(u, session, spoken, used)
    BY <1>1, <2>6, <2>7, <2>8 DEF Fresh
  <2>10. used \cup {call \in {block.call} : block.type = "tool_use"} = used
    BY <1>6
  <2> QED BY <2>9, <2>10 DEF u
<1> QED BY <1>5, <1>6

UsesIn(line, k) == {line.blocks[j].call : j \in {j \in 1..k : line.blocks[j].type = "tool_use"}}

LEMMA MessageFresh ==
  ASSUME NEW s, NEW session, NEW spoken, NEW used, Fresh(s, session, spoken, used), NEW line, NEW n,
         Len(line.blocks) \in Nat, line.text => SpokenPlace(session, line, n) \notin spoken,
         UsesIn(line, Len(line.blocks)) \cap used = {},
         \A k, l \in 1..Len(line.blocks) :
           /\ line.blocks[k].type = "tool_use" /\ line.blocks[l].type = "tool_use"
           /\ line.blocks[k].call = line.blocks[l].call
           => k = l
  PROVE  Fresh(TellMessage(s, line, n), session,
               spoken \cup {place \in {SpokenPlace(session, line, n)} : line.text},
               used \cup UsesIn(line, Len(line.blocks)))
<1> DEFINE size == Len(line.blocks)
           later == spoken \cup {place \in {SpokenPlace(session, line, n)} : line.text}
           start == TellTurn(TellAnswer(s, line, n), line, n)
<1>h. PICK h : BlockStates(h, s, line, n)
  BY BlocksGoOn
<1>1. /\ h[0] = start
      /\ \A k \in 1..size : h[k] = TellBlock(h[k - 1], line.blocks[k], line, n)
      /\ TellMessage(s, line, n) = h[size]
  BY <1>h DEF BlockStates
<1>2. Fresh(start, session, later, used)
  <2>1. Fresh(TellAnswer(s, line, n), session, spoken, used)
    BY AnswerFresh
  <2> QED BY <2>1, SpokenFresh
<1> HIDE DEF size, start, later
<1> DEFINE P == {k \in Nat : k <= size => Fresh(h[k], session, later, used \cup UsesIn(line, k))}
<1>3. 0 \in P
  <2>1. used \cup UsesIn(line, 0) = used
    BY DEF UsesIn
  <2> QED BY <1>1, <1>2, <2>1
<1>4. ASSUME NEW k \in Nat, k \in P PROVE k + 1 \in P
  <2> SUFFICES ASSUME k + 1 <= size PROVE Fresh(h[k + 1], session, later, used \cup UsesIn(line, k + 1))
    OBVIOUS
  <2>1. size \in Nat
    BY DEF size
  <2>2. k + 1 \in 1..size /\ k + 1 - 1 = k /\ k <= size /\ 1..(k + 1) = 1..k \cup {k + 1} /\ k + 1 \notin 1..k
    BY <2>1
  <2> DEFINE block == line.blocks[k + 1]
             before == used \cup UsesIn(line, k)
  <2>3. Fresh(h[k], session, later, before) /\ h[k + 1] = TellBlock(h[k], block, line, n)
    BY <1>1, <1>4, <2>2
  <2>4. block.type = "tool_use" => block.call \notin before
    <3> SUFFICES ASSUME block.type = "tool_use", block.call \in before PROVE FALSE
      OBVIOUS
    <3>1. block.call \in UsesIn(line, size)
      BY <2>2 DEF UsesIn
    <3>2. block.call \in UsesIn(line, k)
      BY <3>1 DEF size
    <3>3. PICK j \in 1..k : line.blocks[j].type = "tool_use" /\ line.blocks[j].call = block.call
      BY <3>2 DEF UsesIn
    <3>4. j \in 1..size
      BY <2>1, <2>2
    <3> QED BY <2>2, <3>3, <3>4 DEF size
  <2>5. used \cup UsesIn(line, k + 1) = before \cup {call \in {block.call} : block.type = "tool_use"}
    BY <2>2 DEF UsesIn
  <2> HIDE DEF block, before
  <2>6. Fresh(h[k + 1], session, later, before \cup {call \in {block.call} : block.type = "tool_use"})
    BY <2>3, <2>4, BlockFresh
  <2> QED BY <2>5, <2>6
<1>5. size \in P /\ size <= size
  <2> HIDE DEF P
  <2>1. Nat \subseteq P
    BY <1>3, <1>4, Induction
  <2> QED BY <2>1 DEF size
<1> QED BY <1>1, <1>5 DEF size, later

\* What was spoken and used up to a line.
SpokenTill(lines, o, n) ==
  {SpokenPlace(SessionIdentity(lines[o]), lines[m], m) : m \in {m \in SaidIn(lines, o) : m <= n /\ lines[m].text}}
UsedTill(lines, o, n) ==
  UNION {UsesIn(lines[m], Len(lines[m].blocks)) : m \in {m \in SaidIn(lines, o) : m <= n}}

LEMMA TillMore ==
  ASSUME NEW lines, NEW o, NEW n \in Nat, n # 0, SaidIn(lines, o) \subseteq Nat
  PROVE  /\ n \in SaidIn(lines, o) =>
              /\ SpokenTill(lines, o, n) = SpokenTill(lines, o, n - 1)
                    \cup {place \in {SpokenPlace(SessionIdentity(lines[o]), lines[n], n)} : lines[n].text}
              /\ UsedTill(lines, o, n) = UsedTill(lines, o, n - 1) \cup UsesIn(lines[n], Len(lines[n].blocks))
         /\ n \notin SaidIn(lines, o) =>
              SpokenTill(lines, o, n) = SpokenTill(lines, o, n - 1) /\ UsedTill(lines, o, n) = UsedTill(lines, o, n - 1)
<1>1. \A m \in SaidIn(lines, o) : m <= n <=> m <= n - 1 \/ m = n
  OBVIOUS
<1> DEFINE till(k) == {m \in SaidIn(lines, o) : m <= k}
<1>2. CASE n \in SaidIn(lines, o)
  <2>1. till(n) = till(n - 1) \cup {n}
    BY <1>1, <1>2
  <2>2. \A k : /\ SpokenTill(lines, o, k)
                    = {SpokenPlace(SessionIdentity(lines[o]), lines[m], m) : m \in {m \in till(k) : lines[m].text}}
               /\ UsedTill(lines, o, k) = UNION {UsesIn(lines[m], Len(lines[m].blocks)) : m \in till(k)}
    BY DEF SpokenTill, UsedTill
  <2> HIDE DEF till
  <2>3. UsedTill(lines, o, n) = UsedTill(lines, o, n - 1) \cup UsesIn(lines[n], Len(lines[n].blocks))
    BY <2>1, <2>2
  <2>4. SpokenTill(lines, o, n) = SpokenTill(lines, o, n - 1)
          \cup {place \in {SpokenPlace(SessionIdentity(lines[o]), lines[n], n)} : lines[n].text}
    BY <2>1, <2>2
  <2> QED BY <1>2, <2>3, <2>4
<1>3. CASE n \notin SaidIn(lines, o)
  <2>1. \A m \in SaidIn(lines, o) : m <= n <=> m <= n - 1
    BY <1>1, <1>3
  <2> QED BY <1>3, <2>1 DEF SpokenTill, UsedTill
<1> QED BY <1>2, <1>3

LEMMA TranscriptTells ==
  ASSUME NEW lines, NEW bounds, TranscriptKept(lines, bounds), NEW o \in DOMAIN lines, Opens(lines, o),
         \A m, n \in SaidIn(lines, o) :
           /\ lines[m].text /\ lines[n].text /\ lines[m].uuid = lines[n].uuid /\ lines[m].uuid # None
           => m = n
  PROVE  /\ Apart(ReadClaude(lines, 0).events)
         /\ \E told, used : \A e \in ReadClaude(lines, 0).events :
              ClaudeName(e, SessionIdentity(lines[o]), told, SpokenTill(lines, o, Len(lines)), used)
<1> DEFINE size == Len(lines)
           session == SessionIdentity(lines[o])
<1>1. /\ size \in Nat /\ DOMAIN lines = 1..size
      /\ \A i \in DOMAIN lines : Len(lines[i].blocks) \in Nat /\ ~(lines[i].at < 0)
  BY DEF TranscriptKept
<1>2. PICK f : Hears(f, lines, o, 0) /\ ReadClaude(lines, 0).events = f[size].emitted
  BY <1>1, TranscriptPasses
<1> HIDE DEF size
<1>3. SaidIn(lines, o) \subseteq 1..size
  BY <1>1 DEF SaidIn
<1>4. o \in 1..size
  BY <1>1
<1> DEFINE known(n) == Fresh(f[n], session, SpokenTill(lines, o, n), UsedTill(lines, o, n))
           P == {n \in Nat : o - 1 + n <= size => known(o - 1 + n)}
<1>5. known(o - 1)
  <2>1. f[o - 1] = OpenedBy(lines[o])
    BY <1>2 DEF Hears
  <2>2. SpokenTill(lines, o, o - 1) = {} /\ UsedTill(lines, o, o - 1) = {}
    <3>1. \A m \in SaidIn(lines, o) : ~(m <= o - 1)
      BY <1>3, <1>4 DEF SaidIn
    <3> QED BY <3>1 DEF SpokenTill, UsedTill
  <2>3. FoundAs(ClaudeOpened(lines[o]), "claude-code", "session", session)
    BY NamesAre DEF ClaudeOpened
  <2> DEFINE opened == ClaudeOpened(lines[o])
             u == OpenedBy(lines[o])
  <2>4. u.session = session /\ u.told = {} /\ u.waiting = {} /\ u.emitted = {opened} /\ TranscriptOK(u)
    BY DEF OpenedBy, TranscriptOK
  <2> HIDE DEF u, opened
  <2>5. Fresh(u, session, {}, {})
    BY <2>3, <2>4 DEF Fresh, Apart, ClaudeName, FoundAs, opened
  <2> QED BY <2>1, <2>2, <2>5 DEF u
<1>6. ASSUME NEW n \in o..size, known(n - 1) PROVE known(n)
  <2> DEFINE line == lines[n]
             s == f[n - 1]
             spoken == SpokenTill(lines, o, n - 1)
             used == UsedTill(lines, o, n - 1)
  <2>1. n \in Nat /\ n # 0 /\ n \in DOMAIN lines /\ SaidIn(lines, o) \subseteq Nat
    BY <1>1, <1>3, <1>4
  <2>2. f[n] = IF n \in SaidIn(lines, o) THEN TellMessage(s, line, n) ELSE s
    <3>1. f[n] = IF n \in SaidIn(lines, o) /\ ~(lines[n].at < 0) THEN TellMessage(f[n - 1], lines[n], n) ELSE f[n - 1]
      BY <1>2 DEF Hears, size
    <3> QED BY <1>1, <2>1, <3>1
  <2>3. CASE n \notin SaidIn(lines, o)
    <3>1. f[n] = s
      BY <2>2, <2>3
    <3>2. SpokenTill(lines, o, n) = spoken /\ UsedTill(lines, o, n) = used
      BY <2>1, <2>3, TillMore
    <3> QED BY <1>6, <3>1, <3>2
  <2>4. CASE n \in SaidIn(lines, o)
    <3> DEFINE place == SpokenPlace(session, line, n)
               uses == UsesIn(line, Len(line.blocks))
    <3>1. line.text => place \notin spoken
      <4> SUFFICES ASSUME line.text, NEW m \in SaidIn(lines, o), m <= n - 1, lines[m].text,
                          SpokenPlace(session, lines[m], m) = SpokenPlace(session, line, n)
                   PROVE  FALSE
        BY DEF SpokenTill
      <4>1. m # n
        BY <2>1
      <4>2. \A x, a, b : <<x>> # <<a, b>>
        <5> TAKE x, a, b
        <5>1. Len(<<x>>) = 1 /\ Len(<<a, b>>) = 2
          OBVIOUS
        <5> QED BY <5>1
      <4>3. CASE lines[m].uuid # None
        <5>1. line.uuid # None /\ <<lines[m].uuid>> = <<line.uuid>>
          BY <4>2, <4>3 DEF SpokenPlace
        <5>2. lines[m].uuid = line.uuid
          BY <5>1
        <5> QED BY <2>4, <4>1, <4>3, <5>2
      <4>4. CASE lines[m].uuid = None
        <5>1. line.uuid = None /\ <<session, m>> = <<session, n>>
          BY <4>2, <4>4 DEF SpokenPlace
        <5>2. m = n
          BY <5>1
        <5> QED BY <4>1, <5>2
      <4> QED BY <4>3, <4>4
    <3>2. \A m \in SaidIn(lines, o) : \A k \in 1..Len(lines[m].blocks), l \in 1..Len(line.blocks) :
            /\ lines[m].blocks[k].type = "tool_use" /\ line.blocks[l].type = "tool_use"
            /\ lines[m].blocks[k].call = line.blocks[l].call
            => m = n /\ k = l
      BY <2>4 DEF TranscriptKept
    <3>3. uses \cap used = {}
      <4> SUFFICES ASSUME NEW m \in SaidIn(lines, o), m <= n - 1, NEW k \in 1..Len(lines[m].blocks),
                          NEW l \in 1..Len(line.blocks), lines[m].blocks[k].type = "tool_use",
                          line.blocks[l].type = "tool_use", lines[m].blocks[k].call = line.blocks[l].call
                   PROVE  FALSE
        BY DEF UsedTill, UsesIn
      <4>1. m = n
        BY <3>2
      <4> QED BY <2>1, <4>1
    <3>4. \A k, l \in 1..Len(line.blocks) :
            /\ line.blocks[k].type = "tool_use" /\ line.blocks[l].type = "tool_use"
            /\ line.blocks[k].call = line.blocks[l].call
            => k = l
      BY <2>4, <3>2
    <3>5. Len(line.blocks) \in Nat
      BY <1>1, <2>1
    <3>6. Fresh(s, session, spoken, used)
      BY <1>6
    <3>7. /\ SpokenTill(lines, o, n) = spoken \cup {p \in {place} : line.text}
          /\ UsedTill(lines, o, n) = used \cup uses
      BY <2>1, <2>4, TillMore
    <3>8. f[n] = TellMessage(s, line, n)
      BY <2>2, <2>4
    <3> HIDE DEF s, line, spoken, used, session
    <3>9. Fresh(TellMessage(s, line, n), session, spoken \cup {p \in {place} : line.text}, used \cup uses)
      BY <3>1, <3>3, <3>4, <3>5, <3>6, MessageFresh
    <3> HIDE DEF place, uses
    <3>10. Fresh(f[n], session, SpokenTill(lines, o, n), UsedTill(lines, o, n))
      BY <3>7, <3>8, <3>9
    <3> QED BY <3>10
  <2> QED BY <2>3, <2>4
<1> HIDE DEF known
<1>7. 0 \in P
  <2>1. o - 1 + 0 = o - 1
    BY <1>4
  <2> QED BY <1>5, <2>1
<1>8. ASSUME NEW n \in Nat, n \in P PROVE n + 1 \in P
  <2> DEFINE m == o - 1 + (n + 1)
  <2> SUFFICES ASSUME m <= size PROVE known(m)
    OBVIOUS
  <2>1. m \in o..size /\ m - 1 = o - 1 + n /\ o - 1 + n <= size
    BY <1>1, <1>4
  <2>2. known(m - 1)
    BY <1>8, <2>1
  <2> HIDE DEF m
  <2> QED BY <1>6, <2>1, <2>2
<1>9. known(size)
  <2>1. size - (o - 1) \in P
    <3> HIDE DEF P
    <3>1. Nat \subseteq P
      BY <1>7, <1>8, Induction
    <3> QED BY <1>1, <1>4, <3>1
  <2>2. o - 1 + (size - (o - 1)) = size
    BY <1>1, <1>4
  <2> QED BY <1>1, <2>1, <2>2
<1> QED BY <1>2, <1>9 DEF known, Fresh, size

LEMMA ClaudeCases ==
  ASSUME NEW sources, NEW bounds, ClaudeKept(sources, bounds), NEW r \in sources,
         NEW d \in ReadClaude(r.lines, 0).events
  PROVE  /\ Apart(ReadClaude(r.lines, 0).events)
         /\ \E o \in DOMAIN r.lines : Opens(r.lines, o) /\ \E told, used :
              ClaudeName(d, SessionIdentity(r.lines[o]), told, SpokenTill(r.lines, o, Len(r.lines)), used)
<1> DEFINE lines == r.lines
<1>1. TranscriptKept(lines, bounds)
  BY DEF ClaudeKept
<1>2. PICK o \in DOMAIN lines : Opens(lines, o)
  <2> SUFFICES ASSUME \A o \in DOMAIN lines : ~Opens(lines, o) PROVE FALSE
    OBVIOUS
  <2>1. /\ Len(lines) \in Nat /\ DOMAIN lines = 1..Len(lines)
        /\ \A i \in DOMAIN lines : Len(lines[i].blocks) \in Nat
    BY <1>1 DEF TranscriptKept
  <2>2. d \in ReadClaude(lines, 0).events
    OBVIOUS
  <2> HIDE DEF lines
  <2>3. ReadClaude(lines, 0).events = {}
    BY <2>1, TranscriptPasses
  <2> QED BY <2>2, <2>3
<1>3. \A m, n \in SaidIn(lines, o) :
        /\ lines[m].text /\ lines[n].text /\ lines[m].uuid = lines[n].uuid /\ lines[m].uuid # None
        => m = n
  BY <1>2 DEF ClaudeKept
<1>4. d \in ReadClaude(lines, 0).events
  OBVIOUS
<1> HIDE DEF lines
<1>5. /\ Apart(ReadClaude(lines, 0).events)
      /\ \E told, used : \A e1 \in ReadClaude(lines, 0).events :
            ClaudeName(e1, SessionIdentity(lines[o]), told, SpokenTill(lines, o, Len(lines)), used)
  BY <1>1, <1>2, <1>3, TranscriptTells
<1> QED BY <1>2, <1>4, <1>5 DEF lines

LEMMA ClaudeTells ==
  ASSUME NEW sources, NEW bounds, ClaudeKept(sources, bounds), NEW s \in sources, NEW t \in sources,
         NEW e \in ReadClaude(s.lines, 0).events, NEW f \in ReadClaude(t.lines, 0).events, SameName(e, f)
  PROVE  e = f
<1>1. PICK o \in DOMAIN s.lines : Opens(s.lines, o) /\ \E told, used :
        ClaudeName(e, SessionIdentity(s.lines[o]), told, SpokenTill(s.lines, o, Len(s.lines)), used)
  BY ClaudeCases
<1>2. PICK p \in DOMAIN t.lines : Opens(t.lines, p) /\ \E told, used :
        ClaudeName(f, SessionIdentity(t.lines[p]), told, SpokenTill(t.lines, p, Len(t.lines)), used)
  BY ClaudeCases
<1> DEFINE x == SessionIdentity(s.lines[o])
           y == SessionIdentity(t.lines[p])
<1>3. s.lines = t.lines => e = f
  BY ClaudeCases DEF Apart
<1>4. x = y => s.lines = t.lines
  BY <1>1, <1>2 DEF ClaudeKept
<1>5. e.kind = f.kind /\ e.native = f.native
  BY DEF SameName
<1> DEFINE spoken == SpokenTill(s.lines, o, Len(s.lines))
           said == SpokenTill(t.lines, p, Len(t.lines))
<1>6. ASSUME NEW a \in spoken, NEW b \in said, a = b PROVE s.lines = t.lines
  <2>1. PICK m \in SaidIn(s.lines, o) : s.lines[m].text /\ a = SpokenPlace(x, s.lines[m], m)
    BY DEF SpokenTill
  <2>2. PICK n \in SaidIn(t.lines, p) : t.lines[n].text /\ b = SpokenPlace(y, t.lines[n], n)
    BY DEF SpokenTill
  <2>3. \A c, d1, d2 : <<c>> # <<d1, d2>>
    <3> TAKE c, d1, d2
    <3>1. Len(<<c>>) = 1 /\ Len(<<d1, d2>>) = 2
      OBVIOUS
    <3> QED BY <3>1
  <2> DEFINE i == s.lines[m] j == t.lines[n]
  <2>4. CASE i.uuid # None
    <3>1. j.uuid # None /\ <<i.uuid>> = <<j.uuid>>
      BY <1>6, <2>1, <2>2, <2>3, <2>4 DEF SpokenPlace
    <3>2. i.uuid = j.uuid
      BY <3>1
    <3> QED BY <1>1, <1>2, <2>1, <2>2, <2>4, <3>2 DEF ClaudeKept
  <2>5. CASE i.uuid = None
    <3> HIDE DEF x, y
    <3>1. j.uuid = None /\ <<x, m>> = <<y, n>>
      BY <1>6, <2>1, <2>2, <2>3, <2>5 DEF SpokenPlace
    <3>2. x = y
      BY <3>1
    <3> QED BY <1>4, <3>2
  <2> QED BY <2>4, <2>5
<1> HIDE DEF x, y, spoken, said
<1>7. (\E told, used : ClaudeName(e, x, told, spoken, used)) /\ \E told, used : ClaudeName(f, y, told, said, used)
  BY <1>1, <1>2 DEF x, y, spoken, said
<1>8. x = y \/ \E a \in spoken, b \in said : a = b
  BY <1>5, <1>7 DEF ClaudeName
<1> QED BY <1>3, <1>4, <1>6, <1>8

-----------------------------------------------------------------------------
(* What an index of these sources has.                                     *)

\* An event that is told of a source, of all its receipts.
Reads(e, source, content, since) ==
  \E r \in Readings(source, content, ReceiptsOf(source), since) : e \in r.events

LEMMA FabReads ==
  ASSUME NEW s, s.adapter = "fab", NEW content, NEW since, NEW e
  PROVE  Reads(e, s, content, since) <=> e \in FabTold(s, since)
<1> DEFINE ledger == {ReadLedger(s, s.receipts, since)}
           receipts == {ReadReceipt(r, since) : r \in s.receipts}
           stdouts == {ReadStdout(o, s.receipts, since) : o \in s.stdouts}
<1>1. Readings(s, content, ReceiptsOf(s), since) = ledger \cup receipts \cup stdouts
  BY DEF Readings, ReceiptsOf, MemoryAdapters
<1>2. \A o : ReadStdout(o, s.receipts, since).events = {}
  BY DEF ReadStdout, Nothing, Yield
<1>3. e \in FabTold(s, since) <=> \E y \in ledger \cup receipts : e \in y.events
  BY DEF FabTold
<1>4. \A y \in stdouts : e \notin y.events
  BY <1>2
<1> HIDE DEF ledger, receipts, stdouts
<1> QED BY <1>1, <1>3, <1>4 DEF Reads

LEMMA AdapterReads ==
  ASSUME NEW s, NEW content, NEW since, NEW e
  PROVE  /\ s.adapter = "codex" =>
              (Reads(e, s, content, since) <=> e \in ReadCodex(s.lines, RolloutsOf(content), since).events)
         /\ s.adapter = "claude-code" => (Reads(e, s, content, since) <=> e \in ReadClaude(s.lines, since).events)
         /\ s.adapter = "george" => (Reads(e, s, content, since) <=> e \in ReadGeorge(s.lines, since).events)
         /\ s.adapter = "somm" => (Reads(e, s, content, since) <=> e \in ReadSomm(s.tables, since).events)
         /\ s.adapter = "hermes" => (Reads(e, s, content, since) <=> e \in ReadHermes(s.sessions, since).events)
         /\ s.adapter = "opencode" => (Reads(e, s, content, since) <=> e \in ReadOpenCode(s.sessions, since).events)
         /\ s.adapter = "git" => (Reads(e, s, content, since) <=> e \in ReadGit(s.repo, s.commits, since).events)
         /\ s.adapter = "chip" => (Reads(e, s, content, since) <=> e \in ReadChip(s.lines, since).events)
         /\ s.adapter = "spindle" => (Reads(e, s, content, since) <=> e \in ReadSpindle(s.receipt, since).events)
         /\ s.adapter = "barnowl-research-outcome" =>
              (Reads(e, s, content, since) <=> e \in ReadBarnowl(s.lines, since).events)
         /\ s.adapter \in MemoryAdapters =>
              (Reads(e, s, content, since)
                <=> e \in ReadMemory(s.adapter, MemorySystem(s.adapter), s.root, s.items, s.log, since).events)
<1>1. CASE s.adapter = "codex"
  <2>1. Readings(s, content, ReceiptsOf(s), since) = {ReadCodex(s.lines, RolloutsOf(content), since)}
    BY <1>1 DEF Readings, MemoryAdapters
  <2> QED BY <1>1, <2>1 DEF Reads, MemoryAdapters
<1>2. CASE s.adapter = "claude-code"
  <2>1. Readings(s, content, ReceiptsOf(s), since) = {ReadClaude(s.lines, since)}
    BY <1>2 DEF Readings, MemoryAdapters
  <2> QED BY <1>2, <2>1 DEF Reads, MemoryAdapters
<1>3. CASE s.adapter = "george"
  <2>1. Readings(s, content, ReceiptsOf(s), since) = {ReadGeorge(s.lines, since)}
    BY <1>3 DEF Readings, MemoryAdapters
  <2> QED BY <1>3, <2>1 DEF Reads, MemoryAdapters
<1>4. CASE s.adapter = "somm"
  <2>1. Readings(s, content, ReceiptsOf(s), since) = {ReadSomm(s.tables, since)}
    BY <1>4 DEF Readings, MemoryAdapters
  <2> QED BY <1>4, <2>1 DEF Reads, MemoryAdapters
<1>5. CASE s.adapter = "hermes"
  <2>1. Readings(s, content, ReceiptsOf(s), since) = {ReadHermes(s.sessions, since)}
    BY <1>5 DEF Readings, MemoryAdapters
  <2> QED BY <1>5, <2>1 DEF Reads, MemoryAdapters
<1>6. CASE s.adapter = "opencode"
  <2>1. Readings(s, content, ReceiptsOf(s), since) = {ReadOpenCode(s.sessions, since)}
    BY <1>6 DEF Readings, MemoryAdapters
  <2> QED BY <1>6, <2>1 DEF Reads, MemoryAdapters
<1>7. CASE s.adapter = "git"
  <2>1. Readings(s, content, ReceiptsOf(s), since) = {ReadGit(s.repo, s.commits, since)}
    BY <1>7 DEF Readings, MemoryAdapters
  <2> QED BY <1>7, <2>1 DEF Reads, MemoryAdapters
<1>8. CASE s.adapter = "chip"
  <2>1. Readings(s, content, ReceiptsOf(s), since) = {ReadChip(s.lines, since)}
    BY <1>8 DEF Readings, MemoryAdapters
  <2> QED BY <1>8, <2>1 DEF Reads, MemoryAdapters
<1>9. CASE s.adapter = "spindle"
  <2>1. Readings(s, content, ReceiptsOf(s), since) = {ReadSpindle(s.receipt, since)}
    BY <1>9 DEF Readings, MemoryAdapters
  <2> QED BY <1>9, <2>1 DEF Reads, MemoryAdapters
<1>10. CASE s.adapter = "barnowl-research-outcome"
  <2>1. Readings(s, content, ReceiptsOf(s), since) = {ReadBarnowl(s.lines, since)}
    BY <1>10 DEF Readings, MemoryAdapters
  <2> QED BY <1>10, <2>1 DEF Reads, MemoryAdapters
<1>11. CASE s.adapter \in MemoryAdapters
  <2>1. Readings(s, content, ReceiptsOf(s), since)
          = {ReadMemory(s.adapter, MemorySystem(s.adapter), s.root, s.items, s.log, since)}
    BY <1>11 DEF Readings, MemoryAdapters
  <2> QED BY <1>11, <2>1 DEF Reads, MemoryAdapters
<1> QED BY <1>1, <1>2, <1>3, <1>4, <1>5, <1>6, <1>7, <1>8, <1>9, <1>10, <1>11

\* A receipt that was missed was there, or what was seen tells the same.
LEMMA CoverageMissed ==
  ASSUME NEW receipts, NEW missed, NEW late, missed \subseteq late, NEW step
  PROVE  \/ step \notin ReceiptCoverage(receipts)
         \/ step \in ReceiptCoverage(receipts \ missed)
         \/ step \in ReceiptCoverage(late)
<1> DEFINE step_(r) == <<r.job, r.kind, IF r.kind = "attempt_finished" THEN r.index ELSE None>>
           covers(r) == r.kind = "attempt_finished" => r.index # None
<1>1. \A rs : ReceiptCoverage(rs) = {step_(r) : r \in {r \in rs : covers(r)}}
  BY DEF ReceiptCoverage
<1> HIDE DEF step_, covers
<1> QED BY <1>1

\* A scan tells what is told of all receipts, but for what the ledger says of steps
\* whose receipts it has missed.
LEMMA ReadOrOvertaken ==
  ASSUME NEW s, s.adapter \in Adapters, NEW content, NEW missed, NEW late, missed \subseteq late, NEW since,
         NEW reading \in Readings(s, content, ReceiptsOf(s) \ missed, since), NEW e \in reading.events
  PROVE  Reads(e, s, content, since) \/ e \in Overtaking(s, late)
<1>1. CASE s.adapter # "fab"
  <2>1. Readings(s, content, ReceiptsOf(s) \ missed, since) = Readings(s, content, ReceiptsOf(s), since)
    BY <1>1 DEF Readings, Adapters, MemoryAdapters
  <2> QED BY <2>1 DEF Reads
<1>2. CASE s.adapter = "fab"
  <2> DEFINE seen == s.receipts \ missed
             ledger == ReadLedger(s, seen, since)
             receipts == {ReadReceipt(r, since) : r \in s.receipts}
             stdouts == {ReadStdout(o, seen, since) : o \in s.stdouts}
  <2>1. Readings(s, content, ReceiptsOf(s) \ missed, since) = {ledger} \cup receipts \cup stdouts
    BY <1>2 DEF Readings, ReceiptsOf, MemoryAdapters
  <2>2. reading \notin stdouts
    <3>1. \A o : ReadStdout(o, seen, since).events = {}
      BY DEF ReadStdout, Nothing, Yield
    <3> QED BY <3>1
  <2>3. CASE reading \in receipts
    <3>1. e \in FabTold(s, since)
      BY <2>3 DEF FabTold
    <3> QED BY <1>2, <3>1, FabReads
  <2>4. CASE reading = ledger
    <3>1. PICK n \in DOMAIN s.ledger :
            /\ s.ledger[n].at >= since
            /\ e \in ReadLedgerLine(s.ledger[n], n, ReceiptCoverage(seen)).events
      BY <2>4, LedgerReads
    <3> DEFINE line == s.ledger[n]
    <3>2. line.at >= since /\ e \in ReadLedgerLine(line, n, ReceiptCoverage(seen)).events
      BY <3>1
    <3>3. LedgerStep(line) \notin ReceiptCoverage(seen)
      BY <3>2, LedgerLineTells DEF LineCase
    <3>4. CASE LedgerStep(line) \notin ReceiptCoverage(s.receipts)
      <4>1. e \in ReadLedgerLine(line, n, ReceiptCoverage(s.receipts)).events
        BY <3>2, <3>4, LedgerLineTold
      <4>2. e \in ReadLedger(s, s.receipts, since).events
        BY <3>2, <4>1, LedgerReads
      <4>3. e \in FabTold(s, since)
        BY <4>2 DEF FabTold
      <4> QED BY <1>2, <4>3, FabReads
    <3>5. CASE LedgerStep(line) \in ReceiptCoverage(s.receipts)
      <4>1. LedgerStep(line) \in ReceiptCoverage(late)
        BY <3>3, <3>5, CoverageMissed
      <4>2. e \in ReadLedgerLine(line, n, {}).events
        BY <3>2, LedgerLineTold
      <4> DEFINE told(i) == ReadLedgerLine(s.ledger[i], i, {}).events
                 overtakes(i) == LedgerStep(s.ledger[i]) \in ReceiptCoverage(late)
      <4>3. Overtaking(s, late) = UNION {told(i) : i \in {i \in DOMAIN s.ledger : overtakes(i)}}
        BY <1>2 DEF Overtaking
      <4>4. e \in told(n) /\ overtakes(n)
        BY <4>1, <4>2
      <4> HIDE DEF told, overtakes
      <4> QED BY <4>3, <4>4
    <3> QED BY <3>4, <3>5
  <2> QED BY <2>1, <2>2, <2>3, <2>4
<1> QED BY <1>1, <1>2

\* Sources that are written as they should be, at one time.
WellKept(content, bounds) ==
  /\ KeptAsWritten(content, bounds)
  /\ \A n \in {n \in DOMAIN content : content[n].adapter = "codex"} :
       RolloutOK(content[n].lines, RolloutsOf(content))

\* What was told of a source, a read of all of it tells at any later time.
LEMMA SourceReadsOn ==
  ASSUME NEW content, NEW later, NEW bounds, bounds \subseteq Nat, WellKept(content, bounds), WellKept(later, bounds),
         GoesOn(content, later), NEW n \in DOMAIN content, NEW since \in bounds, NEW e,
         Reads(e, content[n], content, since)
  PROVE  n \in DOMAIN later /\ Reads(e, later[n], later, 0)
<1> DEFINE s == content[n]
           t == later[n]
<1>1. Reads(e, s, content, since)
  OBVIOUS
<1>2. n \in DOMAIN later /\ t.adapter = s.adapter
  BY DEF GoesOn
<1>3. /\ s.adapter \in Adapters /\ s \in SourcesOf(content, s.adapter)
      /\ CodexKept(SourcesOf(content, "codex")) /\ ClaudeKept(SourcesOf(content, "claude-code"), bounds)
  BY DEF WellKept, KeptAsWritten, SourcesOf
<1>4. /\ t \in SourcesOf(later, s.adapter)
      /\ CodexKept(SourcesOf(later, "codex")) /\ ClaudeKept(SourcesOf(later, "claude-code"), bounds)
      /\ GeorgeKept(SourcesOf(later, "george")) /\ FabKept(SourcesOf(later, "fab"))
      /\ SommKept(SourcesOf(later, "somm"), bounds) /\ HermesKept(SourcesOf(later, "hermes"))
      /\ OpenCodeKept(SourcesOf(later, "opencode")) /\ GitKept(SourcesOf(later, "git"))
      /\ ChipKept(SourcesOf(later, "chip")) /\ SpindleKept(SourcesOf(later, "spindle"))
      /\ BarnowlKept(SourcesOf(later, "barnowl-research-outcome"))
      /\ \A adapter \in MemoryAdapters : MemoryKept(SourcesOf(later, adapter))
  BY <1>2 DEF WellKept, KeptAsWritten, SourcesOf
<1>5. /\ s.adapter = "codex" =>
           RolloutOK(s.lines, RolloutsOf(content)) /\ RolloutOK(t.lines, RolloutsOf(later))
      /\ since \in Nat
  <2>1. s.adapter = "codex" => RolloutOK(s.lines, RolloutsOf(content))
    BY DEF WellKept
  <2>2. t.adapter = "codex" => RolloutOK(t.lines, RolloutsOf(later))
    BY <1>2 DEF WellKept
  <2> QED BY <1>2, <2>1, <2>2
<1>6. (CASE s.adapter = "fab" -> FabGoesOn(s, t)
        [] s.adapter = "somm" -> SommGoesOn(s, t)
        [] s.adapter \in {"hermes", "opencode"} -> SessionsGoOn(s, t)
        [] s.adapter = "git" -> GitGoesOn(s, t)
        [] s.adapter = "spindle" -> SpindleGoesOn(s, t)
        [] s.adapter \in MemoryAdapters -> MemoryGoesOn(s, t)
        [] OTHER -> LinesGoOn(s, t))
  BY DEF GoesOn
<1> HIDE DEF s, t
<1> SUFFICES Reads(e, t, later, 0)
  BY <1>2 DEF t
<1>7. CASE s.adapter = "codex"
  <2>1. e \in ReadCodex(s.lines, RolloutsOf(content), since).events
    BY <1>1, <1>7, AdapterReads
  <2>2. /\ RolloutOK(s.lines, RolloutsOf(content)) /\ RolloutOK(t.lines, RolloutsOf(later))
        /\ RolloutKept(s.lines) /\ RolloutKept(t.lines) /\ since \in Nat
    BY <1>3, <1>4, <1>5, <1>7 DEF CodexKept
  <2>3. Continues(s.lines, t.lines)
    BY <1>6, <1>7 DEF LinesGoOn, MemoryAdapters
  <2>4. e \in ReadCodex(t.lines, RolloutsOf(later), 0).events
    BY <2>1, <2>2, <2>3, CodexReadsOn
  <2> QED BY <1>2, <1>7, <2>4, AdapterReads
<1>8. CASE s.adapter = "claude-code"
  <2>1. e \in ReadClaude(s.lines, since).events
    BY <1>1, <1>8, AdapterReads
  <2>2. TranscriptKept(s.lines, bounds) /\ TranscriptKept(t.lines, bounds)
    BY <1>3, <1>4, <1>8 DEF ClaudeKept
  <2>3. Continues(s.lines, t.lines)
    BY <1>6, <1>8 DEF LinesGoOn, MemoryAdapters
  <2>4. e \in ReadClaude(t.lines, 0).events
    BY <2>1, <2>2, <2>3, ClaudeReadsOn
  <2> QED BY <1>2, <1>8, <2>4, AdapterReads
<1>9. CASE s.adapter = "george"
  <2>1. e \in ReadGeorge(s.lines, since).events
    BY <1>1, <1>9, AdapterReads
  <2>2. t \in SourcesOf(later, "george") /\ GeorgeKept(SourcesOf(later, "george")) /\ LinesGoOn(s, t)
    BY <1>4, <1>6, <1>9 DEF MemoryAdapters
  <2>3. e \in ReadGeorge(t.lines, 0).events
    BY <2>1, <2>2, GeorgeReadsOn
  <2> QED BY <1>2, <1>9, <2>3, AdapterReads
<1>10. CASE s.adapter = "fab"
  <2>1. e \in FabTold(s, since)
    BY <1>1, <1>10, FabReads
  <2>2. t \in SourcesOf(later, "fab") /\ FabKept(SourcesOf(later, "fab")) /\ FabGoesOn(s, t)
    BY <1>4, <1>6, <1>10 DEF MemoryAdapters
  <2>3. e \in FabTold(t, 0)
    BY <2>1, <2>2, FabReadsOn
  <2> QED BY <1>2, <1>10, <2>3, FabReads
<1>11. CASE s.adapter = "somm"
  <2>1. e \in ReadSomm(s.tables, since).events
    BY <1>1, <1>11, AdapterReads
  <2>2. t \in SourcesOf(later, "somm") /\ SommKept(SourcesOf(later, "somm"), bounds) /\ SommGoesOn(s, t)
    BY <1>4, <1>6, <1>11 DEF MemoryAdapters
  <2>3. e \in ReadSomm(t.tables, 0).events
    BY <2>1, <2>2, SommReadsOn
  <2> QED BY <1>2, <1>11, <2>3, AdapterReads
<1>12. CASE s.adapter = "hermes"
  <2>1. e \in ReadHermes(s.sessions, since).events
    BY <1>1, <1>12, AdapterReads
  <2>2. t \in SourcesOf(later, "hermes") /\ HermesKept(SourcesOf(later, "hermes")) /\ SessionsGoOn(s, t)
    BY <1>4, <1>6, <1>12 DEF MemoryAdapters
  <2>3. e \in ReadHermes(t.sessions, 0).events
    BY <2>1, <2>2, HermesReadsOn
  <2> QED BY <1>2, <1>12, <2>3, AdapterReads
<1>13. CASE s.adapter = "opencode"
  <2>1. e \in ReadOpenCode(s.sessions, since).events
    BY <1>1, <1>13, AdapterReads
  <2>2. t \in SourcesOf(later, "opencode") /\ OpenCodeKept(SourcesOf(later, "opencode")) /\ SessionsGoOn(s, t)
    BY <1>4, <1>6, <1>13 DEF MemoryAdapters
  <2>3. e \in ReadOpenCode(t.sessions, 0).events
    BY <2>1, <2>2, OpenCodeReadsOn
  <2> QED BY <1>2, <1>13, <2>3, AdapterReads
<1>14. CASE s.adapter = "git"
  <2>1. e \in ReadGit(s.repo, s.commits, since).events
    BY <1>1, <1>14, AdapterReads
  <2>2. t \in SourcesOf(later, "git") /\ GitKept(SourcesOf(later, "git")) /\ GitGoesOn(s, t)
    BY <1>4, <1>6, <1>14 DEF MemoryAdapters
  <2>3. e \in ReadGit(t.repo, t.commits, 0).events
    BY <2>1, <2>2, GitReadsOn
  <2> QED BY <1>2, <1>14, <2>3, AdapterReads
<1>15. CASE s.adapter = "chip"
  <2>1. e \in ReadChip(s.lines, since).events
    BY <1>1, <1>15, AdapterReads
  <2>2. t \in SourcesOf(later, "chip") /\ ChipKept(SourcesOf(later, "chip")) /\ LinesGoOn(s, t)
    BY <1>4, <1>6, <1>15 DEF MemoryAdapters
  <2>3. e \in ReadChip(t.lines, 0).events
    BY <2>1, <2>2, ChipReadsOn
  <2> QED BY <1>2, <1>15, <2>3, AdapterReads
<1>16. CASE s.adapter = "spindle"
  <2>1. e \in ReadSpindle(s.receipt, since).events
    BY <1>1, <1>16, AdapterReads
  <2>2. t \in SourcesOf(later, "spindle") /\ SpindleKept(SourcesOf(later, "spindle")) /\ SpindleGoesOn(s, t)
    BY <1>4, <1>6, <1>16 DEF MemoryAdapters
  <2>3. e \in ReadSpindle(t.receipt, 0).events
    BY <2>1, <2>2, SpindleReadsOn
  <2> QED BY <1>2, <1>16, <2>3, AdapterReads
<1>17. CASE s.adapter = "barnowl-research-outcome"
  <2>1. e \in ReadBarnowl(s.lines, since).events
    BY <1>1, <1>17, AdapterReads
  <2>2. t \in SourcesOf(later, "barnowl-research-outcome") /\ BarnowlKept(SourcesOf(later, "barnowl-research-outcome")) /\ LinesGoOn(s, t)
    BY <1>4, <1>6, <1>17 DEF MemoryAdapters
  <2>3. e \in ReadBarnowl(t.lines, 0).events
    BY <2>1, <2>2, BarnowlReadsOn
  <2> QED BY <1>2, <1>17, <2>3, AdapterReads
<1>18. CASE s.adapter \in MemoryAdapters
  <2>1. e \in ReadMemory(s.adapter, MemorySystem(s.adapter), s.root, s.items, s.log, since).events
    BY <1>1, <1>18, AdapterReads
  <2>2. t \in SourcesOf(later, s.adapter) /\ MemoryKept(SourcesOf(later, s.adapter)) /\ MemoryGoesOn(s, t)
    BY <1>4, <1>6, <1>18 DEF MemoryAdapters
  <2>3. e \in ReadMemory(s.adapter, MemorySystem(s.adapter), t.root, t.items, t.log, 0).events
    BY <2>1, <2>2, MemoryReadsOn
  <2> QED BY <1>2, <1>18, <2>3, AdapterReads
<1> QED BY <1>3, <1>7, <1>8, <1>9, <1>10, <1>11, <1>12, <1>13, <1>14, <1>15, <1>16, <1>17, <1>18 DEF Adapters

\* An event is told by the adapter of its source.
LEMMA AdapterTold ==
  ASSUME NEW content, NEW bounds, WellKept(content, bounds), NEW n \in DOMAIN content, NEW e,
         Reads(e, content[n], content, 0)
  PROVE  content[n].adapter \in Adapters /\ e.adapter = content[n].adapter
<1> DEFINE s == content[n]
<1>1. /\ s.adapter \in Adapters /\ s \in SourcesOf(content, s.adapter)
      /\ CodexKept(SourcesOf(content, "codex")) /\ ClaudeKept(SourcesOf(content, "claude-code"), bounds)
  BY DEF WellKept, KeptAsWritten, SourcesOf
<1>2. s.adapter = "codex" => RolloutOK(s.lines, RolloutsOf(content))
  BY DEF WellKept
<1>3. Reads(e, s, content, 0)
  OBVIOUS
<1> HIDE DEF s
<1> SUFFICES e.adapter = s.adapter
  BY <1>1 DEF s
<1>4. CASE s.adapter = "codex"
  <2>1. e \in ReadCodex(s.lines, RolloutsOf(content), 0).events
    BY <1>3, <1>4, AdapterReads
  <2>2. RolloutKept(s.lines) /\ RolloutOK(s.lines, RolloutsOf(content))
    BY <1>1, <1>2, <1>4 DEF CodexKept
  <2> QED BY <1>4, <2>1, <2>2, CodexCases
<1>5. CASE s.adapter = "claude-code"
  <2>1. e \in ReadClaude(s.lines, 0).events
    BY <1>3, <1>5, AdapterReads
  <2>2. s \in SourcesOf(content, "claude-code")
    BY <1>1, <1>5
  <2>3. \E o \in DOMAIN s.lines : \E told, used :
          ClaudeName(e, SessionIdentity(s.lines[o]), told, SpokenTill(s.lines, o, Len(s.lines)), used)
    BY <1>1, <2>1, <2>2, ClaudeCases
  <2>4. e.adapter = "claude-code"
    BY <2>3 DEF ClaudeName
  <2> QED BY <1>5, <2>4
<1>6. CASE s.adapter = "george"
  <2>1. e \in ReadGeorge(s.lines, 0).events
    BY <1>3, <1>6, AdapterReads
  <2>2. e.adapter = "george"
    BY <2>1, GeorgeReads, EntryTells DEF FoundAs
  <2> QED BY <1>6, <2>2
<1>7. CASE s.adapter = "fab"
  <2>1. e \in FabTold(s, 0)
    BY <1>3, <1>7, FabReads
  <2>2. e.adapter = "fab"
    BY <2>1, FabCases
  <2> QED BY <1>7, <2>2
<1>8. CASE s.adapter = "somm"
  <2>1. e \in ReadSomm(s.tables, 0).events
    BY <1>3, <1>8, AdapterReads
  <2>2. e.adapter = "somm"
    BY <2>1, SommCases
  <2> QED BY <1>8, <2>2
<1>9. CASE s.adapter = "hermes"
  <2>1. e \in ReadHermes(s.sessions, 0).events
    BY <1>3, <1>9, AdapterReads
  <2>2. PICK x \in s.sessions : e \in HermesTold(x)
    BY <2>1, HermesReads
  <2>3. \A y, c : /\ HermesOpened(x).adapter = "hermes" /\ HermesCost(x).adapter = "hermes"
                  /\ HermesTurn(x, y).adapter = "hermes" /\ HermesCall(x, y).adapter = "hermes"
                  /\ HermesTool(x, y, c).adapter = "hermes"
    BY HermesNames DEF FoundAs
  <2>4. e.adapter = "hermes"
    BY <2>2, <2>3, HermesTells1
  <2> QED BY <1>9, <2>4
<1>10. CASE s.adapter = "opencode"
  <2>1. e \in ReadOpenCode(s.sessions, 0).events
    BY <1>3, <1>10, AdapterReads
  <2>2. PICK x \in s.sessions : e \in OpenCodeTold(x)
    BY <2>1, OpenCodeReads
  <2>3. e.adapter = "opencode"
    BY <2>2, OpenCodeTells1, OpenCodeNames DEF FoundAs
  <2> QED BY <1>10, <2>3
<1>11. CASE s.adapter = "git"
  <2>1. e \in ReadGit(s.repo, s.commits, 0).events
    BY <1>3, <1>11, AdapterReads
  <2>2. e.adapter = "git"
    BY <2>1, GitReads, CommitTells DEF FoundAs
  <2> QED BY <1>11, <2>2
<1>12. CASE s.adapter = "chip"
  <2>1. e \in ReadChip(s.lines, 0).events
    BY <1>3, <1>12, AdapterReads
  <2>2. e.adapter = "chip"
    BY <2>1, ChipReads DEF FoundAs
  <2> QED BY <1>12, <2>2
<1>13. CASE s.adapter = "spindle"
  <2>1. e \in ReadSpindle(s.receipt, 0).events
    BY <1>3, <1>13, AdapterReads
  <2>2. e.adapter = "spindle"
    BY <2>1, SpindleReads DEF FoundAs
  <2> QED BY <1>13, <2>2
<1>14. CASE s.adapter = "barnowl-research-outcome"
  <2>1. e \in ReadBarnowl(s.lines, 0).events
    BY <1>3, <1>14, AdapterReads
  <2>2. e.adapter = "barnowl-research-outcome"
    BY <2>1, BarnowlReads DEF FoundAs
  <2> QED BY <1>14, <2>2
<1>15. CASE s.adapter \in MemoryAdapters
  <2>1. e \in ReadMemory(s.adapter, MemorySystem(s.adapter), s.root, s.items, s.log, 0).events
    BY <1>3, <1>15, AdapterReads
  <2>2. \A i, a : /\ MemoryTold(s.adapter, MemorySystem(s.adapter), s.root, i).adapter = s.adapter
                  /\ AccessTold(s.adapter, MemorySystem(s.adapter), s.root, a, i).adapter = s.adapter
    BY MemoryNames DEF FoundAs
  <2>3. \/ \E i \in s.items : e = MemoryTold(s.adapter, MemorySystem(s.adapter), s.root, i)
        \/ \E i \in s.items, a \in ToSet(s.log) : e = AccessTold(s.adapter, MemorySystem(s.adapter), s.root, a, i)
    BY <2>1, MemoryReads
  <2>4. e.adapter = s.adapter
    BY <2>2, <2>3
  <2> QED BY <1>15, <2>4
<1> QED BY <1>1, <1>4, <1>5, <1>6, <1>7, <1>8, <1>9, <1>10, <1>11, <1>12, <1>13, <1>14, <1>15 DEF Adapters

\* What is told under one name, in all sources that are there, is one event.
LEMMA SourcesTell ==
  ASSUME NEW content, NEW bounds, WellKept(content, bounds), NEW m \in DOMAIN content, NEW n \in DOMAIN content,
         NEW e, Reads(e, content[m], content, 0), NEW f, Reads(f, content[n], content, 0), SameName(e, f)
  PROVE  e = f
<1> DEFINE s == content[m]
           t == content[n]
<1>1. s.adapter \in Adapters /\ t.adapter = s.adapter
  BY AdapterTold DEF SameName
<1>2. /\ s \in SourcesOf(content, s.adapter) /\ t \in SourcesOf(content, s.adapter)
      /\ CodexKept(SourcesOf(content, "codex")) /\ ClaudeKept(SourcesOf(content, "claude-code"), bounds)
      /\ GeorgeKept(SourcesOf(content, "george")) /\ FabKept(SourcesOf(content, "fab"))
      /\ SommKept(SourcesOf(content, "somm"), bounds) /\ HermesKept(SourcesOf(content, "hermes"))
      /\ OpenCodeKept(SourcesOf(content, "opencode")) /\ GitKept(SourcesOf(content, "git"))
      /\ ChipKept(SourcesOf(content, "chip")) /\ SpindleKept(SourcesOf(content, "spindle"))
      /\ BarnowlKept(SourcesOf(content, "barnowl-research-outcome"))
      /\ \A adapter \in MemoryAdapters : MemoryKept(SourcesOf(content, adapter))
  BY <1>1 DEF WellKept, KeptAsWritten, SourcesOf
<1>3. s.adapter = "codex" =>
        RolloutOK(s.lines, RolloutsOf(content)) /\ RolloutOK(t.lines, RolloutsOf(content))
  BY <1>1 DEF WellKept
<1>4. Reads(e, s, content, 0) /\ Reads(f, t, content, 0)
  OBVIOUS
<1> HIDE DEF s, t
<1>5. CASE s.adapter = "codex"
  <2>1. e \in ReadCodex(s.lines, RolloutsOf(content), 0).events
    BY <1>4, <1>5, AdapterReads
  <2>2. f \in ReadCodex(t.lines, RolloutsOf(content), 0).events
    BY <1>1, <1>4, <1>5, AdapterReads
  <2>3. /\ s \in SourcesOf(content, "codex") /\ t \in SourcesOf(content, "codex")
        /\ CodexKept(SourcesOf(content, "codex"))
    BY <1>2, <1>5
  <2> DEFINE rollouts == RolloutsOf(content)
  <2>4. RolloutOK(s.lines, rollouts) /\ RolloutOK(t.lines, rollouts)
    BY <1>3, <1>5
  <2> HIDE DEF rollouts
  <2> QED BY <2>1, <2>2, <2>3, <2>4, CodexTells DEF rollouts
<1>6. CASE s.adapter = "claude-code"
  <2>1. e \in ReadClaude(s.lines, 0).events
    BY <1>4, <1>6, AdapterReads
  <2>2. f \in ReadClaude(t.lines, 0).events
    BY <1>1, <1>4, <1>6, AdapterReads
  <2>3. /\ s \in SourcesOf(content, "claude-code") /\ t \in SourcesOf(content, "claude-code")
        /\ ClaudeKept(SourcesOf(content, "claude-code"), bounds)
    BY <1>2, <1>6
  <2> QED BY <2>1, <2>2, <2>3, ClaudeTells
<1>7. CASE s.adapter = "george"
  <2>1. e \in ReadGeorge(s.lines, 0).events
    BY <1>4, <1>7, AdapterReads
  <2>2. f \in ReadGeorge(t.lines, 0).events
    BY <1>1, <1>4, <1>7, AdapterReads
  <2>3. /\ s \in SourcesOf(content, "george") /\ t \in SourcesOf(content, "george")
        /\ GeorgeKept(SourcesOf(content, "george"))
    BY <1>2, <1>7
  <2> QED BY <2>1, <2>2, <2>3, GeorgeTells
<1>8. CASE s.adapter = "fab"
  <2>1. e \in FabTold(s, 0)
    BY <1>4, <1>8, FabReads
  <2>2. f \in FabTold(t, 0)
    BY <1>1, <1>4, <1>8, FabReads
  <2>3. /\ s \in SourcesOf(content, "fab") /\ t \in SourcesOf(content, "fab")
        /\ FabKept(SourcesOf(content, "fab"))
    BY <1>2, <1>8
  <2> QED BY <2>1, <2>2, <2>3, FabTells
<1>9. CASE s.adapter = "somm"
  <2>1. e \in ReadSomm(s.tables, 0).events
    BY <1>4, <1>9, AdapterReads
  <2>2. f \in ReadSomm(t.tables, 0).events
    BY <1>1, <1>4, <1>9, AdapterReads
  <2>3. /\ s \in SourcesOf(content, "somm") /\ t \in SourcesOf(content, "somm")
        /\ SommKept(SourcesOf(content, "somm"), bounds)
    BY <1>2, <1>9
  <2> QED BY <2>1, <2>2, <2>3, SommTells
<1>10. CASE s.adapter = "hermes"
  <2>1. e \in ReadHermes(s.sessions, 0).events
    BY <1>4, <1>10, AdapterReads
  <2>2. f \in ReadHermes(t.sessions, 0).events
    BY <1>1, <1>4, <1>10, AdapterReads
  <2>3. /\ s \in SourcesOf(content, "hermes") /\ t \in SourcesOf(content, "hermes")
        /\ HermesKept(SourcesOf(content, "hermes"))
    BY <1>2, <1>10
  <2> QED BY <2>1, <2>2, <2>3, HermesTells
<1>11. CASE s.adapter = "opencode"
  <2>1. e \in ReadOpenCode(s.sessions, 0).events
    BY <1>4, <1>11, AdapterReads
  <2>2. f \in ReadOpenCode(t.sessions, 0).events
    BY <1>1, <1>4, <1>11, AdapterReads
  <2>3. /\ s \in SourcesOf(content, "opencode") /\ t \in SourcesOf(content, "opencode")
        /\ OpenCodeKept(SourcesOf(content, "opencode"))
    BY <1>2, <1>11
  <2> QED BY <2>1, <2>2, <2>3, OpenCodeTells
<1>12. CASE s.adapter = "git"
  <2>1. e \in ReadGit(s.repo, s.commits, 0).events
    BY <1>4, <1>12, AdapterReads
  <2>2. f \in ReadGit(t.repo, t.commits, 0).events
    BY <1>1, <1>4, <1>12, AdapterReads
  <2>3. /\ s \in SourcesOf(content, "git") /\ t \in SourcesOf(content, "git")
        /\ GitKept(SourcesOf(content, "git"))
    BY <1>2, <1>12
  <2> QED BY <2>1, <2>2, <2>3, GitTells
<1>13. CASE s.adapter = "chip"
  <2>1. e \in ReadChip(s.lines, 0).events
    BY <1>4, <1>13, AdapterReads
  <2>2. f \in ReadChip(t.lines, 0).events
    BY <1>1, <1>4, <1>13, AdapterReads
  <2>3. /\ s \in SourcesOf(content, "chip") /\ t \in SourcesOf(content, "chip")
        /\ ChipKept(SourcesOf(content, "chip"))
    BY <1>2, <1>13
  <2> QED BY <2>1, <2>2, <2>3, ChipTells
<1>14. CASE s.adapter = "spindle"
  <2>1. e \in ReadSpindle(s.receipt, 0).events
    BY <1>4, <1>14, AdapterReads
  <2>2. f \in ReadSpindle(t.receipt, 0).events
    BY <1>1, <1>4, <1>14, AdapterReads
  <2>3. /\ s \in SourcesOf(content, "spindle") /\ t \in SourcesOf(content, "spindle")
        /\ SpindleKept(SourcesOf(content, "spindle"))
    BY <1>2, <1>14
  <2> QED BY <2>1, <2>2, <2>3, SpindleTells
<1>15. CASE s.adapter = "barnowl-research-outcome"
  <2>1. e \in ReadBarnowl(s.lines, 0).events
    BY <1>4, <1>15, AdapterReads
  <2>2. f \in ReadBarnowl(t.lines, 0).events
    BY <1>1, <1>4, <1>15, AdapterReads
  <2>3. /\ s \in SourcesOf(content, "barnowl-research-outcome") /\ t \in SourcesOf(content, "barnowl-research-outcome")
        /\ BarnowlKept(SourcesOf(content, "barnowl-research-outcome"))
    BY <1>2, <1>15
  <2> QED BY <2>1, <2>2, <2>3, BarnowlTells
<1>16. CASE s.adapter \in MemoryAdapters
  <2>1. e \in ReadMemory(s.adapter, MemorySystem(s.adapter), s.root, s.items, s.log, 0).events
    BY <1>4, <1>16, AdapterReads
  <2>2. f \in ReadMemory(s.adapter, MemorySystem(s.adapter), t.root, t.items, t.log, 0).events
    BY <1>1, <1>4, <1>16, AdapterReads
  <2>3. /\ s \in SourcesOf(content, s.adapter) /\ t \in SourcesOf(content, s.adapter)
        /\ MemoryKept(SourcesOf(content, s.adapter))
    BY <1>2, <1>16
  <2> QED BY <2>1, <2>2, <2>3, MemoryTells
<1> QED BY <1>1, <1>5, <1>6, <1>7, <1>8, <1>9, <1>10, <1>11, <1>12, <1>13, <1>14, <1>15, <1>16 DEF Adapters

-----------------------------------------------------------------------------
(* What an index of these sources has, as they are written to.             *)

LEMMA ToldOf ==
  ASSUME NEW content, NEW e
  PROVE  e \in All(AllReadings(content, 0)).events <=> \E n \in DOMAIN content : Reads(e, content[n], content, 0)
<1>1. e \in All(AllReadings(content, 0)).events <=> \E y \in AllReadings(content, 0) : e \in y.events
  BY InAll
<1> QED BY <1>1 DEF AllReadings, Reads

Window == archive.bounds \cup {0}

LEMMA WindowIs == ASSUME IndexOK PROVE Window \subseteq Nat /\ 0 \in Window /\ archive.bounds \subseteq Window
<1>1. archive \in Archives
  BY DEF IndexOK
<1>2. archive.bounds \subseteq Nat
  BY <1>1, WritingAssumption
<1> QED BY <1>2 DEF Window

LEMMA HistoryIs ==
  ASSUME IndexOK
  PROVE  /\ now \in Nat /\ now \in 1..Len(archive.history) /\ Len(archive.history) \in Nat
         /\ DOMAIN archive.history = 1..Len(archive.history)
         /\ \A i \in DOMAIN archive.history : WellKept(archive.history[i], Window)
         /\ \A i \in DOMAIN archive.history : \A j \in i..Len(archive.history) :
              GoesOn(archive.history[i], archive.history[j])
<1>1. archive \in Archives
  BY DEF IndexOK
<1>2. /\ Len(archive.history) \in Nat /\ DOMAIN archive.history = 1..Len(archive.history)
      /\ now \in DOMAIN archive.history
  BY <1>1, ArchivesAssumption DEF IndexOK
<1>3. \A i \in DOMAIN archive.history :
        /\ KeptAsWritten(archive.history[i], archive.bounds \cup {0})
        /\ \A j \in i..Len(archive.history) : GoesOn(archive.history[i], archive.history[j])
  BY <1>1, WritingAssumption
<1>4. ASSUME NEW i \in DOMAIN archive.history
      PROVE  \A n \in {n \in DOMAIN archive.history[i] : archive.history[i][n].adapter = "codex"} :
               RolloutOK(archive.history[i][n].lines, RolloutsOf(archive.history[i]))
  BY <1>1, RolloutsAssumption
<1>5. \A i \in DOMAIN archive.history : WellKept(archive.history[i], Window)
  BY <1>3, <1>4 DEF WellKept, Window
<1> QED BY <1>2, <1>3, <1>5

\* All that the index has of sources is told of them now, or was overtaken.
UpToDate == archive.events = {} => events \subseteq ToldNow.events \cup overtaken

LEMMA ToldLater ==
  ASSUME IndexOK, NEW j \in DOMAIN archive.history, now <= j, NEW name \in DOMAIN Content, NEW since \in Window,
         NEW e, Reads(e, Content[name], Content, since)
  PROVE  e \in All(AllReadings(archive.history[j], 0)).events
<1> DEFINE later == archive.history[j]
<1>1. WellKept(Content, Window) /\ WellKept(later, Window) /\ GoesOn(Content, later)
  <2>1. now \in DOMAIN archive.history /\ j \in now..Len(archive.history)
    BY HistoryIs
  <2> QED BY <2>1, HistoryIs DEF Content
<1> HIDE DEF later
<1>2. name \in DOMAIN later /\ Reads(e, later[name], later, 0)
  BY <1>1, WindowIs, SourceReadsOn
<1>3. e \in All(AllReadings(later, 0)).events
  BY <1>2, ToldOf
<1> QED BY <1>3 DEF later

LEMMA StaysUpToDate == IndexOK /\ UpToDate /\ [LiveNext]_liveVars => UpToDate'
<1> SUFFICES ASSUME IndexOK, UpToDate, [LiveNext]_liveVars, archive'.events = {}
             PROVE  (events \subseteq ToldNow.events \cup overtaken)'
  BY DEF UpToDate
<1>1. archive' = archive /\ archive.events = {} /\ events \subseteq ToldNow.events \cup overtaken
  BY ArchiveStays DEF UpToDate
<1>2. CASE Next /\ UNCHANGED <<now, overtaken>>
  <2>1. ~AppendEvent
    BY <1>1 DEF AppendEvent
  <2>2. events' = events
    BY <1>2, <2>1 DEF Next, AppendCrosswalk, AppendRelation, Refute
  <2> QED BY <1>1, <1>2, <2>2 DEF ToldNow, Content
<1>3. CASE Grow
  <2>1. /\ now' = now + 1 /\ now' \in DOMAIN archive.history /\ now <= now'
        /\ events' = events /\ overtaken' = overtaken
    BY <1>3, HistoryIs DEF Grow, vars
  <2>2. ASSUME NEW e \in ToldNow.events
        PROVE  e \in All(AllReadings(archive.history[now'], 0)).events
    <3>1. PICK name \in DOMAIN Content : Reads(e, Content[name], Content, 0)
      BY ToldOf DEF ToldNow
    <3> QED BY <2>1, <3>1, WindowIs, ToldLater
  <2> QED BY <1>1, <2>1, <2>2 DEF ToldNow, Content
<1>4. CASE Scan
  <2> DEFINE told(name, part) ==
               /\ events' = events \cup part.events
               /\ overtaken' = overtaken \cup (part.events \cap Overtaking(Content[name], Late(name)))
  <2>1. PICK name \in DOMAIN Content :
          \E reading \in MayRead(name) : \E part \in Appended(reading) : told(name, part)
    BY <1>4 DEF Scan
  <2>2. PICK reading \in MayRead(name) : \E part \in Appended(reading) : told(name, part)
    BY <2>1
  <2>3. PICK part \in Appended(reading) : told(name, part)
    BY <2>2
  <2>4. part.events \subseteq reading.events
    BY DEF Appended
  <2>5. now' = now
    BY <1>4 DEF Scan
  <2>6. PICK missed \in SUBSET Late(name), since \in archive.bounds :
          reading \in Readings(Content[name], Content, ReceiptsOf(Content[name]) \ missed, since)
    BY MayReadIs
  <2>7. Content[name].adapter \in Adapters
    BY HistoryIs DEF IndexOK, Content, WellKept, KeptAsWritten
  <2>8. ASSUME NEW e \in part.events, e \notin Overtaking(Content[name], Late(name))
        PROVE  e \in ToldNow.events
    <3>1. Reads(e, Content[name], Content, since) /\ since \in Window
      BY <2>4, <2>6, <2>7, <2>8, WindowIs, ReadOrOvertaken
    <3>2. now \in DOMAIN archive.history /\ now <= now
      BY HistoryIs
    <3> QED BY <3>1, <3>2, ToldLater DEF ToldNow, Content
  <2>9. events' \subseteq ToldNow.events \cup overtaken'
    BY <1>1, <2>3, <2>8
  <2> QED BY <1>1, <2>5, <2>9 DEF ToldNow, Content
<1>5. CASE UNCHANGED liveVars
  BY <1>1, <1>5 DEF liveVars, vars, ToldNow, Content
<1> QED BY <1>2, <1>3, <1>4, <1>5 DEF LiveNext

LEMMA TellsOnce == ASSUME IndexOK PROVE Consistent(ToldNow.events)
<1>1. WellKept(Content, Window)
  BY HistoryIs DEF IndexOK, Content
<1>2. ASSUME NEW e \in ToldNow.events, NEW f \in ToldNow.events, e.id = f.id
      PROVE  e = f
  <2>1. SameName(e, f)
    BY <1>1, <1>2 DEF WellKept, KeptAsWritten, ToldNow, SameName
  <2>2. PICK m \in DOMAIN Content : Reads(e, Content[m], Content, 0)
    BY <1>2, ToldOf DEF ToldNow
  <2>3. PICK n \in DOMAIN Content : Reads(f, Content[n], Content, 0)
    BY <1>2, ToldOf DEF ToldNow
  <2> QED BY <1>1, <2>1, <2>2, <2>3, SourcesTell
<1> QED BY <1>2 DEF Consistent

\* Whatever was scanned of sources in use, and when, a scan of all of them would
\* tell what the index has, and never another event under one id: a stable event
\* is not mutated by what is written later.  The exception is what a Fab ledger told of
\* a step whose receipt came behind the scan's look for receipts.
THEOREM ScansTellTheSame == LiveSpec => []ScansAgree
<1>1. LiveInit => UpToDate
  BY DEF LiveInit, Init, UpToDate
<1>2. IndexOK /\ UpToDate => ScansAgree
  BY TellsOnce DEF UpToDate, ScansAgree
<1>3. LiveSpec => []UpToDate
  BY <1>1, StaysUpToDate, IndexHolds, PTL DEF LiveSpec
<1> QED BY <1>2, <1>3, IndexHolds, PTL

\* What a ledger is told of has no receipt.
LEMMA AttemptToldOnce ==
  ASSUME NEW content, NEW bounds, WellKept(content, bounds), NEW n \in DOMAIN content, content[n].adapter = "fab",
         NEW line \in ToSet(content[n].ledger), NEW r \in content[n].receipts,
         line.type = "attempt_finished", r.kind = "attempt_finished", line.job = r.job, line.index = r.index,
         NEW m \in DOMAIN content, NEW f, Reads(f, content[m], content, 0), f.adapter = "fab", f.kind = "outcome",
         f.native = <<"attempt", line.job, line.index, line.type>>
  PROVE  FALSE
<1> DEFINE s == content[n]
           t == content[m]
           roots == SourcesOf(content, "fab")
<1>1. t.adapter = "fab"
  BY AdapterTold
<1>2. s \in roots /\ t \in roots /\ FabKept(roots)
  BY <1>1 DEF WellKept, KeptAsWritten, SourcesOf
<1>3. Reads(f, t, content, 0) /\ line \in ToSet(s.ledger) /\ r \in s.receipts
  OBVIOUS
<1> HIDE DEF s, t, roots
<1>4. f \in FabTold(t, 0)
  BY <1>1, <1>3, FabReads
<1>5. LedgerStep(line) \in ReceiptCoverage(s.receipts)
  <2>1. r.index # None
    BY <1>2, <1>3 DEF FabKept
  <2>2. <<r.job, r.kind, r.index>> \in ReceiptCoverage(s.receipts)
    BY <1>3, <2>1 DEF ReceiptCoverage
  <2> QED BY <2>2 DEF LedgerStep
<1>6. ASSUME NEW k \in DOMAIN t.ledger, LineCase(f, t.ledger[k], k, ReceiptCoverage(t.receipts))
      PROVE  FALSE
  <2> DEFINE other == t.ledger[k]
  <2>1. other \in ToSet(t.ledger)
    BY DEF ToSet
  <2> HIDE DEF other
  <2>2. LineCase(f, other, k, ReceiptCoverage(t.receipts))
    BY <1>6 DEF other
  <2>3. f.native # <<"terminal", other.job, k>>
    <3>1. Len(f.native) = 4 /\ Len(<<"terminal", other.job, k>>) = 3
      OBVIOUS
    <3> QED BY <3>1
  <2>4. /\ LedgerStep(other) \notin ReceiptCoverage(t.receipts)
        /\ f.native = <<"attempt", other.job, other.index, other.type>>
    BY <2>2, <2>3 DEF LineCase
  <2>5. other.job = line.job /\ other.index = line.index /\ other.type = line.type
    BY <2>4
  <2>6. line.job \in JobsOf(s) \cap JobsOf(t)
    BY <1>3, <2>1, <2>5 DEF JobsOf
  <2>7. s = t
    BY <1>2, <2>6 DEF FabKept
  <2>8. LedgerStep(other) = LedgerStep(line)
    BY <2>5 DEF LedgerStep
  <2> QED BY <1>5, <2>4, <2>7, <2>8
<1>7. ASSUME NEW q \in t.receipts, ReceiptCase(f, q)
      PROVE  FALSE
  <2>1. f.native = ReceiptName(q)
    BY <1>7 DEF ReceiptCase
  <2>2. ReceiptName(q) \in LedgerNames(s)
    BY <1>3, <2>1 DEF LedgerNames
  <2> QED BY <1>2, <2>2 DEF FabKept
<1> QED BY <1>4, <1>6, <1>7, FabCases

\* However Fab's ledger and receipts are scanned and written, an attempt that is told by
\* both was overtaken: its receipt came within a scan, between its look for receipts and
\* its reading of the ledger.
THEOREM AttemptsAreToldOnce == LiveSpec => []AttemptsOnce
<1>1. ASSUME IndexOK, ScansAgree PROVE AttemptsOnce
  <2>1. WellKept(Content, Window)
    BY <1>1, HistoryIs DEF IndexOK, Content
  <2>2. ASSUME NEW n \in DOMAIN Content PROVE events \ overtaken \subseteq ToldNow.events
    <3>1. archive \in Archives /\ Content # <<>> /\ now \in DOMAIN archive.history
      BY <1>1 DEF IndexOK
    <3>2. archive.events = {}
      BY <3>1, WritingAssumption DEF Content
    <3> QED BY <1>1, <3>2 DEF ScansAgree
  <2>3. SUFFICES ASSUME NEW n \in DOMAIN Content, Content[n].adapter = "fab",
                        NEW line \in Range(Content[n].ledger), NEW r \in Content[n].receipts,
                        line.type = "attempt_finished", r.kind = "attempt_finished",
                        line.job = r.job, line.index = r.index,
                        NEW f \in events \ overtaken, f.adapter = "fab", f.kind = "outcome",
                        f.native = <<"attempt", line.job, line.index, line.type>>
                 PROVE  FALSE
    BY DEF AttemptsOnce, ToldTwice
  <2>4. PICK m \in DOMAIN Content : Reads(f, Content[m], Content, 0)
    BY <2>2, ToldOf DEF ToldNow
  <2>5. line \in ToSet(Content[n].ledger)
    BY DEF ToSet, Range
  <2> QED BY <2>1, <2>3, <2>4, <2>5, AttemptToldOnce
<1> QED BY <1>1, IndexHolds, ScansTellTheSame, PTL
=============================================================================
