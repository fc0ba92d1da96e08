------------------------------ MODULE SpendView ------------------------------
(***************************************************************************)
(* The arithmetic behind the dashboard: services/dashboard_view_builder.py,*)
(* services/cost_metrics.py and services/dataset_bounds.py, as operators   *)
(* on rows.  The rows of a source are a function from their places, in the *)
(* order of the list: a filter leaves some of the places.  Dates, amounts  *)
(* and names are integers; a name stands for its place in alphabetical     *)
(* order.  Prices are per credit and                                       *)
(* per unit of storage and month, and storage dollars are counted in       *)
(* thirtieths, so that a day's share is an integer.  Left out: floating    *)
(* point, labels, the monthly projection and the daily average, the line of*)
(* billed storage, demo mode and the errors of malformed rows.             *)
(***************************************************************************)
EXTENDS Integers, Sequences, FiniteSetsExt

CONSTANTS
    None,               \* an absent field or date
    SupportedWindows,   \* SUPPORTED_VIEW_WINDOW_DAYS
    DefaultWindow,      \* DEFAULT_VIEW_WINDOW_DAYS
    CreditPrice,        \* estimated_credit_price_usd
    StoragePrice,       \* storage_price_usd_per_tb_month
    ForecastWindow,     \* FORECAST_AVERAGE_WINDOW_DAYS
    MaxForecastDays,
    DetailLimit,        \* DASHBOARD_DETAIL_ROW_LIMIT
    TopUsers,           \* TOP_USER_COUNT
    OtherUser,          \* OTHER_USER_NAME
    AiServices          \* AI_KPI_SERVICE_TYPES

ASSUME WindowAssumption ==
    /\ SupportedWindows \subseteq Nat \ {0}
    /\ DefaultWindow \in SupportedWindows
    /\ ForecastWindow \in Nat \ {0}
    /\ MaxForecastDays \in Nat

DaysPerMonth == 30

Rows(rows) == {rows[i] : i \in DOMAIN rows}
SumOf(f) == MapThenSumSet(LAMBDA x : f[x], DOMAIN f)
Total(rows, Value(_)) == SumOf([i \in DOMAIN rows |-> Value(rows[i])])
Least(a, b) == IF a <= b THEN a ELSE b
Greatest(a, b) == IF a >= b THEN a ELSE b
Latest(dates) == IF dates = {} THEN None ELSE Max(dates)
LatestDate(rows) == Latest({row.date : row \in Rows(rows)})

\* A sort: `ahead' maps every element to the elements that come before it.
Arranged(ahead) ==
    [i \in 1 .. Cardinality(DOMAIN ahead) |->
        CHOOSE x \in DOMAIN ahead : Cardinality(ahead[x]) = i - 1]

\* Mutant: the last day of a range is left out.
InWindowHalfOpen(rows, range) ==
    RestrictValues(rows, LAMBDA row : range.first <= row.date /\ row.date < range.last)

InWindow(rows, range) ==
    RestrictValues(rows, LAMBDA row : row.date \in range.first .. range.last)

-----------------------------------------------------------------------------
(* Ranges.  A request names a window, or a first and last date, or neither.*)

WindowStart(through, days) == through - (days - 1)
ProjectionRange(through) ==
    [first |-> WindowStart(through, DefaultWindow), last |-> through]

InvalidRequest(req, through) ==
    \/ req.window # None /\ ~(req.first = None /\ req.last = None)
    \/ (req.first = None) # (req.last = None)
    \/ req.window # None /\ req.window \notin SupportedWindows
    \/ /\ req.window = None /\ req.first # None /\ req.last # None
       /\ req.first > req.last \/ req.first > through

RequestedRange(req, through) ==
    IF req.first # None
      THEN [first |-> req.first, last |-> Least(req.last, through)]
      ELSE LET days == IF req.window = None THEN DefaultWindow ELSE req.window
           IN  [first |-> WindowStart(through, days), last |-> through]

\* resolve_dashboard_view_range: the range, or the 422 or 409 it ends in.
ResolveRange(req, through, bounds) ==
    IF InvalidRequest(req, through) THEN [kind |-> "invalid"]
    ELSE LET range == RequestedRange(req, through) IN
         IF \/ range.first < bounds.first \/ range.last > bounds.last
            \/ range.first > range.last
           THEN [kind |-> "conflict"]
           ELSE [kind |-> "range", first |-> range.first, last |-> range.last]

SourceBounds(dates, today) ==
    IF dates = {} THEN [first |-> today, last |-> today]
                  ELSE [first |-> Min(dates), last |-> Max(dates)]

-----------------------------------------------------------------------------
(* Metadata: its mode, its currency and its two through dates.             *)

AccountRows(data) ==
    Rows(data.warehouse) \cup Rows(data.service) \cup Rows(data.user) \cup Rows(data.storage)
Metadata(data, orgAvailable, accountAvailable) ==
    LET currencies == {row.currency : row \in Rows(data.org)} \ {None}
        mode == IF orgAvailable THEN "billed" ELSE "estimated"
    IN  [mode |-> mode,
         mixed |-> Cardinality(currencies) > 1,
         currency |-> CASE Cardinality(currencies) > 1 -> None
                        [] mode = "billed" /\ Cardinality(currencies) = 1
                             -> CHOOSE c \in currencies : TRUE
                        [] OTHER -> "USD",
         billing |-> IF orgAvailable THEN LatestDate(data.org) ELSE None,
         account |-> IF accountAvailable THEN Latest({row.date : row \in AccountRows(data)})
                                         ELSE None]

\* What a running run, which has no metadata yet, is shown with.
ReconstructedMetadata(data) ==
    Metadata(data, Rows(data.org) # {}, AccountRows(data) # {})

ThroughDate(meta) ==
    IF meta.mode = "estimated" \/ meta.billing = None THEN meta.account ELSE meta.billing

UsdOrUnspecified(currency) == currency \in {None, "USD"}
ViewCurrency(meta) == IF meta.currency = None THEN "USD" ELSE meta.currency
UnsupportedMetadata(meta) ==
    meta.mixed \/ (meta.mode = "estimated" /\ ~UsdOrUnspecified(meta.currency))
UnsupportedConversion(meta, rates) ==
    /\ meta.mode = "estimated"
    /\ ~UsdOrUnspecified(meta.currency)
       \/ \E key \in DOMAIN rates : ~UsdOrUnspecified(rates[key].currency)

-----------------------------------------------------------------------------
(* Prices.                                                                 *)

Put(index, key, entry) ==
    [k \in DOMAIN index \cup {key} |-> IF k = key THEN entry ELSE index[k]]
MaxRateEntry(index, key, entry) ==
    IF key \in DOMAIN index /\ entry.rate <= index[key].rate THEN index[key] ELSE entry

\* Mutant: the best rate wins, whatever its rating.
PreferredByRate(index, key, entry) == MaxRateEntry(index, key, entry)

\* A COMPUTE rate supersedes the others under the key without a rating.
PreferredEntry(index, key, entry) ==
    IF key \in DOMAIN index /\ entry.compute # index[key].compute
      THEN IF entry.compute THEN entry ELSE index[key]
      ELSE MaxRateEntry(index, key, entry)

PutRate(index, row) ==
    LET entry == [rate |-> row.rate, currency |-> row.currency,
                  compute |-> row.rating = "COMPUTE"]
        rated == <<row.date, row.service, row.rating>>
        bare  == <<row.date, row.service, None>>
        withRated == IF row.rating = None THEN index
                     ELSE Put(index, rated, MaxRateEntry(index, rated, entry))
    IN  Put(withRated, bare, PreferredEntry(index, bare, entry))
RateIndex(rows) ==
    LET index[n \in 0 .. Len(rows)] ==
            IF n = 0 THEN <<>> ELSE PutRate(index[n - 1], rows[n])
    IN  index[Len(rows)]

\* _credits_to_dollars per credit; what cannot be converted counts as zero.
PricePerCredit(rates, currency, date, service, rating) ==
    LET keys == {<<date, service, rating>>, <<date, service, None>>} \cap DOMAIN rates
        key  == IF <<date, service, rating>> \in keys THEN <<date, service, rating>>
                                                      ELSE <<date, service, None>>
    IN  CASE keys = {} -> IF UsdOrUnspecified(currency) THEN CreditPrice ELSE 0
          [] OTHER -> IF UsdOrUnspecified(rates[key].currency) THEN rates[key].rate ELSE 0

PutStorageRate(index, row) ==
    IF row.usage # "storage" THEN index
    ELSE Put(index, row.date, MaxRateEntry(index, row.date,
                                  [rate |-> row.rate, currency |-> row.currency]))
StorageRates(rows) ==
    LET index[n \in 0 .. Len(rows)] ==
            IF n = 0 THEN <<>> ELSE PutStorageRate(index[n - 1], rows[n])
    IN  index[Len(rows)]

\* _storage_price_for, with the "or 0.0" of its callers.
StoragePriceFor(index, currency, date) ==
    IF date \in DOMAIN index
      THEN IF UsdOrUnspecified(index[date].currency) THEN index[date].rate ELSE 0
      ELSE IF UsdOrUnspecified(currency) THEN StoragePrice ELSE 0

-----------------------------------------------------------------------------
(* Sections.  Each reduces its rows to amounts, then draws a stacked series*)
(* and a ranking from them.                                                *)

Names(amounts) == {a.name : a \in Rows(amounts)}
SpentBy(amounts, name) == Total(amounts, LAMBDA a : IF a.name = name THEN a.spend ELSE 0)
StackedSeries(amounts, range) ==
    [date \in range.first .. range.last |->
        [name \in Names(amounts) |->
            Total(amounts, LAMBDA a : IF a.date = date /\ a.name = name THEN a.spend ELSE 0)]]
SeriesTotal(series) == SumOf([date \in DOMAIN series |-> SumOf(series[date])])

FirstRow(amounts, name) == Min({i \in DOMAIN amounts : amounts[i].name = name})

\* _rank_named_amounts: by spend, ties in the order of the rows.
BySpend(amounts) ==
    [name \in Names(amounts) |->
        {n \in Names(amounts) :
            \/ SpentBy(amounts, n) > SpentBy(amounts, name)
            \/ /\ SpentBy(amounts, n) = SpentBy(amounts, name)
               /\ FirstRow(amounts, n) < FirstRow(amounts, name)}]
Ranked(amounts) ==
    LET order == Arranged(BySpend(amounts))
    IN  [i \in DOMAIN order |->
            [name |-> order[i], spend |-> SpentBy(amounts, order[i]),
             credits |-> Total(amounts, LAMBDA a : IF a.name = order[i] THEN a.credits ELSE 0)]]

\* _build_ranked_bar_rows: widths in percent of the first row's spend.
BarWidths(ranked) ==
    [i \in DOMAIN ranked |->
        IF ranked[1].spend > 0 THEN Greatest(0, (100 * ranked[i].spend) \div ranked[1].spend)
                               ELSE 0]

Section(amounts, range) ==
    [series |-> StackedSeries(amounts, range), ranked |-> Ranked(amounts)]

-----------------------------------------------------------------------------
ConsumptionRows(org) == RestrictValues(org, LAMBDA row : row.billing = "CONSUMPTION")

\* _service_spend: billed dollars as they are, estimated ones by the rate sheet.
ServiceAmounts(data, meta, rates, range) ==
    LET billed == meta.mode = "billed"
        rows == InWindow(IF billed THEN ConsumptionRows(data.org) ELSE data.service, range)
    IN  [i \in DOMAIN rows |->
            [date |-> rows[i].date, name |-> rows[i].service,
             credits |-> IF billed THEN 0 ELSE rows[i].credits,
             spend |-> IF billed THEN rows[i].spend
                       ELSE rows[i].credits * PricePerCredit(rates, meta.currency,
                                                  rows[i].date, rows[i].service, None)]]

\* _daily_billed_totals and _daily_estimated_totals.
DailyTotals(data, meta, rates, range) ==
    [date \in range.first .. range.last |->
        IF meta.mode = "billed"
          THEN Total(ConsumptionRows(data.org),
                     LAMBDA row : IF row.date = date THEN row.spend ELSE 0)
          ELSE Total(data.service, LAMBDA row : IF row.date # date THEN 0
                     ELSE row.credits * PricePerCredit(rates, meta.currency,
                                                       date, row.service, None))]
DailySum(daily) == SumOf(daily)

\* Compute credits by their rate, the rest as cloud services.
WarehouseRowDollars(row, meta, rates) ==
      row.compute * PricePerCredit(rates, meta.currency, row.date, "WAREHOUSE_METERING", "COMPUTE")
    + Greatest(row.credits - row.compute, 0)
        * PricePerCredit(rates, meta.currency, row.date, "CLOUD_SERVICES", None)
WarehouseAmounts(data, meta, rates, range) ==
    LET rows == InWindow(data.warehouse, range) IN
    [i \in DOMAIN rows |->
        [date |-> rows[i].date, name |-> rows[i].name, credits |-> rows[i].credits,
         spend |-> WarehouseRowDollars(rows[i], meta, rates)]]

\* _build_warehouse_details: the table prices the compute credits only.
WarehouseDetails(data, meta, rates, range) ==
    LET rows == InWindow(data.warehouse, range)
        ranked == Ranked([i \in DOMAIN rows |->
            [date |-> rows[i].date, name |-> rows[i].name, credits |-> rows[i].compute,
             spend |-> rows[i].compute * PricePerCredit(rates, meta.currency,
                                 rows[i].date, "WAREHOUSE_METERING", "COMPUTE")]])
    IN  SubSeq(ranked, 1, Least(Len(ranked), DetailLimit))

\* Idle percent of a warehouse, None where Snowflake attributes nothing.
IdlePct(rows, name) ==
    LET own == RestrictValues(rows, LAMBDA row : row.name = name)
        compute == Total(own, LAMBDA row : row.compute)
    IN  IF compute = 0 \/ \E row \in Rows(own) : row.attributed = None THEN None
        ELSE (100 * Greatest(compute - Total(own, LAMBDA row : row.attributed), 0)) \div compute

UserAmounts(data, meta, rates, range) ==
    LET rows == InWindow(data.user, range) IN
    [i \in DOMAIN rows |->
        [date |-> rows[i].date, name |-> rows[i].name, credits |-> rows[i].credits,
         spend |-> rows[i].credits * PricePerCredit(rates, meta.currency, rows[i].date,
                                                    "WAREHOUSE_METERING", "COMPUTE")]]

StorageAmounts(data, meta, range) ==
    LET rows == InWindow(data.storage, range) IN
    [i \in DOMAIN rows |->
        [date |-> rows[i].date, name |-> rows[i].name, credits |-> 0,
         spend |-> rows[i].bytes * StoragePriceFor(StorageRates(data.rate), meta.currency,
                                                   rows[i].date)]]

\* _rank_storage_rows: a database has the size and the price of its own latest
\* row; a price of zero there is replaced by the latest price of all.
StorageRow(name, rows, rates, meta, period) ==
    LET own    == RestrictValues(rows, LAMBDA row : row.name = name)
        latest == LatestDate(own)
        last   == Max({i \in DOMAIN own : own[i].date = latest})
        price  == StoragePriceFor(rates, meta.currency, latest)
        shown  == IF price # 0 THEN price
                  ELSE StoragePriceFor(rates, meta.currency, LatestDate(rows))
    IN  [name |-> name, latest |-> latest, price |-> shown, period |-> period,
         monthly |-> DaysPerMonth * own[last].bytes * shown]
ByPeriodSpend(amounts) ==
    [name \in Names(amounts) |->
        {n \in Names(amounts) :
            \/ SpentBy(amounts, n) > SpentBy(amounts, name)
            \/ SpentBy(amounts, n) = SpentBy(amounts, name) /\ n < name}]
Databases(data, meta, range) ==
    LET amounts == StorageAmounts(data, meta, range)
        order   == Arranged(ByPeriodSpend(amounts))
    IN  [i \in DOMAIN order |->
            StorageRow(order[i], InWindow(data.storage, range), StorageRates(data.rate), meta,
                       SpentBy(amounts, order[i]))]
DatabaseBars(databases) ==
    BarWidths([i \in DOMAIN databases |-> [spend |-> databases[i].monthly]])

AiSummary(data, meta, rates, range) ==
    Total(InWindow(data.service, range), LAMBDA row :
        IF row.service \notin AiServices THEN 0
        ELSE row.credits * PricePerCredit(rates, meta.currency, row.date, row.service, "AI_COMPUTE"))
AiAmounts(data, meta, rates, range) ==
    LET rows == InWindow(data.ai, range) IN
    [i \in DOMAIN rows |->
        [date |-> rows[i].date, name |-> rows[i].name, credits |-> rows[i].credits,
         spend |-> rows[i].credits * PricePerCredit(rates, ViewCurrency(meta), rows[i].date,
                                                    rows[i].service, "AI_COMPUTE")]]

-----------------------------------------------------------------------------
(* Capacity.  The rate of spend is a sum over a number of days.            *)

TrailingSpend(daily, last) ==
    LET days == {date \in DOMAIN daily : date > last - ForecastWindow}
    IN  [sum |-> SumOf([date \in days |-> daily[date]]), days |-> Cardinality(days)]

\* Mutant: a balance that divides evenly takes one day more.
DaysPastZero(scaled, sum) == scaled \div sum + 1

DaysToZero(scaled, sum) == (scaled + sum - 1) \div sum

\* _build_forecast_series: from the balance to zero, balances times spend.days.
Forecast(balance, date, spend) ==
    LET scaled == balance * spend.days
        toZero == DaysToZero(scaled, spend.sum)
    IN  IF spend.sum <= 0 \/ balance <= 0 THEN <<>>
        ELSE IF toZero > MaxForecastDays THEN <<>>
        ELSE [i \in 1 .. toZero + 1 |->
                [date |-> date + i - 1,
                 balance |-> IF i = toZero + 1 THEN 0
                             ELSE Greatest(scaled - spend.sum * (i - 1), 0)]]

CapacityBalance(data, meta, range, spend) ==
    LET rows == RestrictValues(InWindow(data.capacity, range),
                               LAMBDA row : row.currency = ViewCurrency(meta))
        latest  == LatestDate(rows)
        balance == Total(rows, LAMBDA row : IF row.date = latest THEN row.balance ELSE 0)
    IN  IF Rows(rows) = {} THEN [date |-> None, balance |-> 0, days |-> 1, forecast |-> <<>>]
        ELSE [date |-> latest, balance |-> balance, days |-> spend.days,
              forecast |-> Forecast(balance, latest, spend)]

-----------------------------------------------------------------------------
(* The view.                                                               *)

EmptyView(kind, range) == [kind |-> kind, first |-> range.first, last |-> range.last]

ViewForRange(data, meta, rates, range) ==
    LET projection == ProjectionRange(ThroughDate(meta))
        projected  == DailyTotals(data, meta, rates, projection)
        daily      == DailyTotals(data, meta, rates, range)
        anchored   == meta.mode = "billed" /\ range.last = projection.last
        spend      == IF anchored THEN TrailingSpend(projected, projection.last)
                                  ELSE [sum |-> 0, days |-> 1]
    IN  [kind |-> "view", first |-> range.first, last |-> range.last,
         total |-> DailySum(daily), daily |-> daily,
         services |-> Section(ServiceAmounts(data, meta, rates, range), range),
         warehouses |-> Section(WarehouseAmounts(data, meta, rates, range), range),
         details |-> WarehouseDetails(data, meta, rates, range),
         idle |-> [name \in {row.name : row \in Rows(InWindow(data.warehouse, range))} |->
                       IdlePct(InWindow(data.warehouse, range), name)],
         users |-> Ranked(UserAmounts(data, meta, rates, range)),
         storage |-> Section(StorageAmounts(data, meta, range), range),
         databases |-> Databases(data, meta, range),
         balance |-> CapacityBalance(data, meta, range, spend),
         ai |-> AiSummary(data, meta, rates, range)]

\* build_dashboard_view: unsupported data is answered without regard to bounds.
BuildView(data, meta, bounds, req) ==
    LET through == ThroughDate(meta)
        rates   == RateIndex(data.rate)
        blocked == UnsupportedMetadata(meta) \/ UnsupportedConversion(meta, rates)
        range   == ResolveRange(req, through,
                                IF blocked THEN RequestedRange(req, through) ELSE bounds)
    IN  IF through = None
          THEN EmptyView("empty", [first |-> bounds.last, last |-> bounds.last])
        ELSE IF range.kind # "range" THEN range
        ELSE IF blocked THEN EmptyView("unsupported", range)
        ELSE ViewForRange(data, meta, rates, range)

\* build_ai_detail_view, for the range that a deferred source's request resolves to.
AiDetailView(data, meta, bounds, req) ==
    LET through == IF ThroughDate(meta) = None THEN bounds.last ELSE ThroughDate(meta)
        range   == ResolveRange(req, through, bounds)
    IN  IF range.kind # "range" THEN range
        ELSE [kind |-> "view", first |-> range.first, last |-> range.last,
              section |-> Section(AiAmounts(data, meta, RateIndex(data.rate), range), range)]

-----------------------------------------------------------------------------
(* What the build adds before it finalizes a run.                          *)

UserTotals(rows) ==
    [name \in {row.name : row \in Rows(rows)} |->
        Total(rows, LAMBDA row : IF row.name = name THEN row.credits ELSE 0)]

ByCredits(totals) ==
    [name \in DOMAIN totals |->
        {n \in DOMAIN totals :
            totals[n] > totals[name] \/ (totals[n] = totals[name] /\ n < name)}]
TopUserNames(rows) ==
    LET order == Arranged(ByCredits(UserTotals(rows)))
    IN  {order[i] : i \in 1 .. Least(TopUsers, Len(order))}
ByDateAndWarehouse(places) ==
    [place \in places |->
        {p \in places : p[1] < place[1] \/ (p[1] = place[1] /\ p[2] < place[2])}]

\* Mutant: the users below the top are dropped.
TopUserRows(rows) ==
    LET top == TopUserNames(rows) IN RestrictValues(rows, LAMBDA row : row.name \in top)

\* bound_user_compute_rows: the top users, and one Other row per date and warehouse.
BoundUserRows(rows) ==
    LET top    == TopUserNames(rows)
        kept   == RestrictValues(rows, LAMBDA row : row.name \in top)
        rest   == RestrictValues(rows, LAMBDA row : row.name \notin top)
        places == {<<row.date, row.warehouse>> : row \in Rows(rest)}
        order  == Arranged(ByDateAndWarehouse(places))
        Other(place) ==
            [date |-> place[1], warehouse |-> place[2], name |-> OtherUser,
             credits |-> Total(rest, LAMBDA row :
                 IF <<row.date, row.warehouse>> = place THEN row.credits ELSE 0)]
    IN  [i \in DOMAIN kept \cup (Len(rows) + 1 .. Len(rows) + Len(order)) |->
            IF i \in DOMAIN kept THEN rows[i] ELSE Other(order[i - Len(rows)])]

\* build_dashboard_summary: a half-open window that ends before the current day.
CompleteWindow(rows, current, days) ==
    RestrictValues(rows, LAMBDA row : current - days <= row.date /\ row.date < current)
WarehouseCredits(rows) ==
    [name \in {row.name : row \in Rows(rows)} |->
        Total(rows, LAMBDA row : IF row.name = name THEN row.credits ELSE 0)]
TopWarehouse(credits) ==
    IF DOMAIN credits = {} THEN None
    ELSE CHOOSE n \in DOMAIN credits : \A m \in DOMAIN credits :
             credits[n] > credits[m] \/ (credits[n] = credits[m] /\ n >= m)
LatestBytes(rows) ==
    Total(rows, LAMBDA row : IF row.date = LatestDate(rows) THEN row.bytes ELSE 0)
Summary(data, current, days) ==
    LET credits == WarehouseCredits(CompleteWindow(data.warehouse, current, days))
    IN  [credits |-> Total(CompleteWindow(data.service, current, days), LAMBDA row : row.credits),
         warehouses |-> Cardinality(DOMAIN credits),
         top |-> TopWarehouse(credits),
         bytes |-> LatestBytes(CompleteWindow(data.storage, current, days))]
=============================================================================
