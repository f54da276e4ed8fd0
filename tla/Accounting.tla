----------------------------- MODULE Accounting -----------------------------
(***************************************************************************)
(* The accounting projection of src/milton/accounting.py: which monetary   *)
(* observations of the index are selected, and which are suppressed as     *)
(* exact duplicates of a better one.  An event here has the fields that    *)
(* accounting reads; tokens, models and price versions are left out.       *)
(***************************************************************************)
EXTENDS Records

CONSTANT
  Lexical     \* every adapter and authority, in the order of their text

ASSUME LexicalAssumption == Lexical \in Seq(STRING)

\* ACCOUNTING_PRECEDENCE: basis and accuracy, the best first.
AccountingPrecedence ==
  << <<"reported", "actual">>,    <<"computed", "actual">>,    <<"unknown", "actual">>,
     <<"reported", "estimated">>, <<"computed", "estimated">>, <<"unknown", "estimated">>,
     <<"reported", "unknown">>,   <<"computed", "unknown">>,   <<"unknown", "unknown">> >>

AuthorityPrecedence ==
  <<"provider", "somm", "hermes", "opencode", "claude-code", "codex">>

\* The place of x in the sequence s, or the one behind its end.
IndexOf(s, x) == Min({i \in DOMAIN s : s[i] = x} \cup {Len(s) + 1})

\* Cost events that are an amount of their own: rollups summarise others.
Observations(events) ==
  {e \in events : e.kind = "cost" /\ e.role # "rollup" /\ e.amount # None}

\* Mutant: a source-local key is compared across adapters.
BillableUnitAnySource(e) ==
  <<IF e.key # None /\ e.scope # "unknown" THEN <<"key", e.key>> ELSE <<"event", e.id>>,
    e.economic>>

\* What the observation is an amount of: only an exact key makes two
\* observations the same unit, and a source-local one only inside its adapter.
BillableUnit(e) ==
  <<CASE e.key # None /\ e.scope = "shared" -> <<"shared", e.key>>
      [] e.key # None /\ e.scope = "source" -> <<"source", e.adapter, e.key>>
      [] OTHER -> <<"event", e.id>>,
    e.economic>>

\* _precedence_key: a settled amount before an estimate, whatever they rest on.
Precedence(e) ==
  LET authority == IF e.authority = None THEN e.adapter ELSE e.authority
  IN  <<IndexOf(AccountingPrecedence, <<e.basis, e.accuracy>>),
        IndexOf(AuthorityPrecedence, authority),
        IndexOf(Lexical, authority),
        e.id>>

\* Mutant: one pass in order of time that compares with the next one only.
SelectedInOnePass(events) ==
  LET observed == Observations(events)
      later(e) == {f \in observed : BillableUnit(f) = BillableUnit(e) /\ f.at > e.at}
  IN  {e \in observed :
         \A f \in later(e) :
            (\A g \in later(e) : f.at <= g.at) => Before(Precedence(e), Precedence(f))}

\* _select_accounting: the best observation of each billable unit.
Selected(events) ==
  LET observed == Observations(events)
  IN  {e \in observed :
         \A f \in observed \ {e} :
            BillableUnit(f) = BillableUnit(e) => Before(Precedence(e), Precedence(f))}

Suppressed(events) == Observations(events) \ Selected(events)

Amount(observed) == SumFunction([e \in observed |-> e.amount])

EconomicKinds == {"marginal", "notional", "included", "unknown"}

\* build_accounting: the amounts of the projection.
Accounting(events) ==
  [raw        |-> Amount(Observations(events)),
   selected   |-> Amount(Selected(events)),
   suppressed |-> Amount(Observations(events)) - Amount(Selected(events)),
   byKind     |-> [k \in EconomicKinds |->
                     Amount({e \in Selected(events) : e.economic = k})]]

\* build_report: the events of a window and, by adapter, the selected amounts.
Report(events) ==
  [events |-> Cardinality(events),
   cost   |-> [a \in {e.adapter : e \in events} |->
                 Amount({e \in Selected(events) : e.adapter = a})]]
=============================================================================
