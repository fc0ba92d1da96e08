--------------------------- MODULE MC_DashboardView ---------------------------
(* Rows for TLC: two or three dates, two names, and the rates, currencies and  *)
(* gaps that the definitions tell apart.                                       *)
EXTENDS DashboardView

Usage(date, service, credits) == [date |-> date, service |-> service, credits |-> credits]
Spend(date, spend, currency, billing) ==
    [date |-> date, service |-> "QUERY", spend |-> spend, currency |-> currency,
     billing |-> billing]
Rate(date, rating, usage, rate, currency) ==
    [date |-> date, service |-> "QUERY", rating |-> rating, usage |-> usage,
     rate |-> rate, currency |-> currency]
Metered(name, compute, attributed) ==
    [date |-> 2, name |-> name, credits |-> 2, compute |-> compute, attributed |-> attributed]
Query(date, name, credits) ==
    [date |-> date, name |-> name, warehouse |-> 1, credits |-> credits]
Stored(date, name, bytes) == [date |-> date, name |-> name, bytes |-> bytes]

SampleRows ==
    [s \in Source |->
        CASE s = "org" -> {Spend(2, 1, "USD", "CONSUMPTION"), Spend(3, 2, "USD", "CONSUMPTION"),
                           Spend(3, 1, "EUR", "CONSUMPTION"), Spend(3, 4, "USD", "REBATE")}
          [] s = "rate" -> {Rate(2, "COMPUTE", "compute", 2, "USD"),
                            Rate(2, "COMPUTE", "storage", 3, "USD"),
                            Rate(2, "OTHER", "compute", 4, "USD"),
                            Rate(2, None, "storage", 0, "USD"),
                            Rate(3, "COMPUTE", "compute", 2, "EUR")}
          [] s = "service" -> {Usage(1, "QUERY", 1), Usage(2, "QUERY", 2), Usage(3, "QUERY", 1),
                               Usage(2, "CORTEX_SEARCH", 3)}
          [] s = "warehouse" -> {Metered(1, 1, 1), Metered(2, 2, 1), Metered(1, 2, None)}
          [] s = "user" -> {Query(2, 1, 1), Query(2, 2, 2), Query(3, 1, 1), Query(3, 2, 1)}
          [] s = "storage" -> {Stored(2, 1, 2), Stored(2, 2, 3), Stored(3, 1, 2), Stored(3, 2, 3)}
          [] s = "capacity" -> [date : {3}, balance : {3, 4}, currency : {"USD"}]
          [] s = "ai" -> [date : {2, 4}, name : {1}, service : {"CORTEX_SEARCH"}, credits : {1}]]
=============================================================================
