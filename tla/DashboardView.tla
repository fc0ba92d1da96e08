---------------------------- MODULE DashboardView ----------------------------
(***************************************************************************)
(* The rows of one run and the views computed from them: sources land one  *)
(* by one, the deferred source at any time, the build settles the run.     *)
(* Reading a view changes nothing, so it is an operator, and the           *)
(* properties speak of what every request would be answered.  A source     *)
(* without rows has failed, is empty or has not landed yet.                *)
(***************************************************************************)
EXTENDS SpendView

CONSTANTS
    Currency,       \* the currency codes of billing rows
    Row,            \* the rows that each source may hold
    MaxRows,        \* bound: rows of a run, over all sources
    Today,          \* the date of the build
    SummaryWindow   \* window_days of the request that created the run

VARIABLES
    data,           \* source -> sequence of rows
    bounds,         \* source bounds, as last stored
    status,         \* running, completed or failed
    stored,         \* finalized metadata, or None
    summary         \* finalized summary, or None

vars == <<data, bounds, status, stored, summary>>

AccountSources == {"service", "warehouse", "user", "storage"}
OrgSources == {"org", "rate"}
BaseSources == AccountSources \cup OrgSources \cup {"capacity"}
Source == BaseSources \cup {"ai"}

\* What the readers of a row convert: dates and numbers; a malformed row raises.
RowOK(s, row) ==
    /\ row.date \in Int
    /\ s = "org" => row.spend \in Int /\ row.currency \in Currency \cup {None}
    /\ s = "rate" => row.rate \in Int
    /\ s \in {"service", "ai"} => row.credits \in Int
    /\ s = "warehouse" => /\ row.credits \in Int /\ row.compute \in Nat
                          /\ row.attributed \in Nat \cup {None}
    /\ s = "user" => row.credits \in Int /\ row.name \in Int /\ row.warehouse \in Int
    /\ s = "storage" => row.bytes \in Int /\ row.name \in Int
    /\ s = "capacity" => row.balance \in Int

StoredMetadata ==
    [mode : {"billed", "estimated"}, mixed : BOOLEAN, currency : Currency \cup {None},
     billing : Int \cup {None}, account : Int \cup {None}]

ASSUME RowAssumption == \A s \in Source : \A row \in Row[s] : RowOK(s, row)
ASSUME NoneAssumption == None \notin Int /\ None \notin StoredMetadata
ASSUME ValueAssumption ==
    /\ {CreditPrice, StoragePrice, Today, OtherUser} \subseteq Int
    /\ {DetailLimit, TopUsers, MaxRows} \subseteq Nat
    /\ SummaryWindow \in Nat \ {0}
    /\ "USD" \in Currency

RowCount(rows) == Cardinality(UNION {{s} \X (DOMAIN rows[s]) : s \in Source})
NewRows(s) ==
    UNION {[1 .. n -> Row[s]] : n \in {k \in 1 .. MaxRows : RowCount(data) + k <= MaxRows}}
Dates(rows, sources) == UNION {{row.date : row \in Rows(rows[s])} : s \in sources}
NoRows == [s \in Source |-> <<>>]

Init ==
    /\ data = NoRows
    /\ bounds = SourceBounds({}, Today)
    /\ status = "running"
    /\ stored = None
    /\ summary = None

\* on_outcome: set_dataset recomputes the bounds from all that has landed.
Land(s) ==
    /\ status = "running"
    /\ data[s] = <<>>
    /\ \E rows \in NewRows(s) :
        /\ data' = [data EXCEPT ![s] = rows]
        /\ bounds' = SourceBounds(Dates(data', Source), Today)
    /\ UNCHANGED <<status, stored, summary>>

\* complete_source of the deferred source, which leaves the bounds alone.
LandDeferred ==
    /\ status \in {"running", "completed"}
    /\ data.ai = <<>>
    /\ \E rows \in NewRows("ai") : data' = [data EXCEPT !.ai = rows]
    /\ UNCHANGED <<bounds, status, stored, summary>>

MayFail(group) == \E s \in group : data[s] = <<>>

\* What the build returns: a group with a failed source is emptied.
FinalRows(orgAvailable, accountAvailable) ==
    [s \in Source |->
        CASE s \in OrgSources /\ ~orgAvailable -> <<>>
          [] s \in AccountSources /\ ~accountAvailable -> <<>>
          [] s = "user" /\ accountAvailable -> BoundUserRows(data.user)
          [] OTHER -> data[s]]
SummaryDate(meta) ==
    1 + IF meta.account # None THEN meta.account
        ELSE IF meta.billing # None THEN meta.billing
        ELSE Today

Finalize(orgAvailable, accountAvailable) ==
    /\ status = "running"
    /\ orgAvailable \/ accountAvailable
    /\ ~orgAvailable => MayFail(OrgSources)
    /\ ~accountAvailable => MayFail(AccountSources)
    /\ data' = FinalRows(orgAvailable, accountAvailable)
    /\ bounds' = SourceBounds(Dates(data', BaseSources), Today)
    /\ stored' = Metadata(data', orgAvailable, accountAvailable)
    /\ summary' = Summary(data', SummaryDate(stored'), SummaryWindow)
    /\ status' = "completed"

\* Neither group is available, or the build raises: only deferred rows are kept.
Fail ==
    /\ status = "running"
    /\ data' = [NoRows EXCEPT !.ai = data.ai]
    /\ bounds' = SourceBounds({}, Today)
    /\ status' = "failed"
    /\ UNCHANGED <<stored, summary>>

Next ==
    \/ \E s \in BaseSources : Land(s)
    \/ LandDeferred
    \/ \E orgAvailable, accountAvailable \in BOOLEAN : Finalize(orgAvailable, accountAvailable)
    \/ Fail

Spec == Init /\ [][Next]_vars

-----------------------------------------------------------------------------
(* GET /view and GET /sources/{id}.                                        *)

Relative(days) == [window |-> days, first |-> None, last |-> None]
Custom(first, last) == [window |-> None, first |-> first, last |-> last]
CurrentMetadata == IF stored = None THEN ReconstructedMetadata(data) ELSE stored

\* Mutant: the window may begin before the first row that has landed.
RunningStartUnclamped(last, days) == WindowStart(last, days)

RunningStart(last, days) == Greatest(WindowStart(last, days), bounds.first)

\* A running run: the window is clamped to what has landed.
RunningView(req) ==
    LET meta    == ReconstructedMetadata(data)
        through == ThroughDate(meta)
        days    == IF req.window = None THEN DefaultWindow ELSE req.window
        last    == Least(through, bounds.last)
    IN  IF through = None
          THEN BuildView(data, meta, bounds, Custom(bounds.first, bounds.last))
        ELSE IF days \notin SupportedWindows THEN [kind |-> "invalid"]
        ELSE BuildView(data, meta, bounds, Custom(RunningStart(last, days), last))

ReadView(req) ==
    IF status = "running" THEN RunningView(req)
                          ELSE BuildView(data, CurrentMetadata, bounds, req)
ReadSource(req) == AiDetailView(data, CurrentMetadata, bounds, req)

WindowRequests == {Relative(days) : days \in SupportedWindows \cup {None}}
Requests == WindowRequests \cup {Custom(bounds.first, bounds.last)}

-----------------------------------------------------------------------------
(* Properties.                                                             *)

\* A poll of a running run is never refused, however few rows have landed, in
\* whatever order, and whichever basis the landed rows imply (the comment of
\* the running branch: "so we never 409 on narrow data").
RunningViewAnswers ==
    status = "running" =>
        \A req \in WindowRequests : RunningView(req).kind \notin {"conflict", "invalid"}

Percent == 0 .. 100
SpendOf(ranked) == Total(ranked, LAMBDA row : row.spend)
SectionAgrees(section) ==
    /\ SpendOf(section.ranked) = SeriesTotal(section.series)
    /\ \A i \in DOMAIN section.ranked : BarWidths(section.ranked)[i] \in Percent

ViewAgrees(view) ==
    view.kind = "view" =>
        /\ view.total = SpendOf(view.services.ranked)
        /\ SectionAgrees(view.services)
        /\ SectionAgrees(view.warehouses)
        /\ SpendOf(view.storage.ranked) = SeriesTotal(view.storage.series)
        /\ SpendOf(view.storage.ranked) = Total(view.databases, LAMBDA row : row.period)
        /\ \A i \in DOMAIN view.users : BarWidths(view.users)[i] \in Percent
        /\ \A name \in DOMAIN view.idle : view.idle[name] \in Percent \cup {None}
AiAgrees(ai) == ai.kind = "view" => SectionAgrees(ai.section)
SummaryAgrees(view) ==
    status = "completed" /\ stored.mode = "estimated" /\ view.kind = "view" =>
        summary.credits = Total(view.services.ranked, LAMBDA row : row.credits)

\* Every way of adding up one section gives the same dollars: the KPI, the
\* stacked series, the ranking and its bars, and for storage the databases
\* ("so the KPI total, the overall line, and the stacked chart can never
\* disagree"), and the summary stored with the run, half-open before the day
\* after; idle shares are shares.
SectionsAgree ==
    /\ \A req \in Requests : ViewAgrees(ReadView(req)) /\ AiAgrees(ReadSource(req))
    /\ SummaryAgrees(ReadView(Relative(SummaryWindow)))

BestRate(rows) == CHOOSE r \in {row.rate : row \in rows} : \A row \in rows : r >= row.rate

\* The rate sheet prices by its rows, not by their order: the rate of a rating
\* is the best of its rows, the rate without a rating the best COMPUTE rate if
\* there is one and the best of all otherwise.
RatesAreOrderFree ==
    LET index == RateIndex(data.rate)
        Sheet(key, rating(_)) == {row \in Rows(data.rate) :
                                     <<row.date, row.service>> = key /\ rating(row.rating)}
    IN  \A key \in DOMAIN index :
            LET place == <<key[1], key[2]>>
                rated == Sheet(place, LAMBDA r : r = key[3])
                compute == Sheet(place, LAMBDA r : r = "COMPUTE")
            IN  index[key].rate =
                    IF key[3] # None THEN BestRate(rated)
                    ELSE IF compute # {} THEN BestRate(compute)
                    ELSE BestRate(Sheet(place, LAMBDA r : TRUE))

LineRunsOut(line, balance) ==
    /\ line[1] = [date |-> balance.date, balance |-> balance.balance * balance.days]
    /\ \A i \in DOMAIN line : (line[i].balance = 0) = (i = Len(line))
    /\ \A i \in 2 .. Len(line) : /\ line[i].balance < line[i - 1].balance
                                 /\ line[i].date = line[i - 1].date + 1
    /\ \A i \in 2 .. Len(line) - 1 :
           line[i - 1].balance - line[i].balance = line[1].balance - line[2].balance
    /\ Len(line) <= MaxForecastDays + 1
BalanceRunsOut(view) ==
    view.kind = "view" /\ view.balance.forecast # <<>> =>
        LineRunsOut(view.balance.forecast, view.balance)

\* A forecast starts at the balance it continues, falls by the day's spend and
\* touches zero on its last day and on no earlier one.
ForecastRunsOut == \A req \in Requests : BalanceRunsOut(ReadView(req))

Money(view) ==
    [first |-> view.first, last |-> view.last, total |-> view.total,
     services |-> view.services, warehouses |-> view.warehouses, storage |-> view.storage,
     databases |-> view.databases, users |-> SpendOf(view.users),
     balance |-> view.balance, ai |-> view.ai]

SameMoney(before, after) ==
    before.kind = "view" /\ after.kind = "view" => Money(after) = Money(before)

\* The numbers a client polled do not move when the run settles, if no group
\* collapsed and the account is billed or has no billing source: the
\* reconstructed metadata, the clamped range and the bounded users agree with
\* the finalized ones wherever the settled view is not refused.
SettlingKeepsTheNumbers ==
    [][/\ status = "running" /\ status' = "completed"
       /\ (stored'.mode = "billed") = (data.org # <<>>)
       /\ \A s \in Source : (data'[s] = <<>>) = (data[s] = <<>>)
       => \A req \in WindowRequests :
              SameMoney(RunningView(req), BuildView(data', stored', bounds', req))]_vars
=============================================================================
