--------------------------- MODULE MC_SpanMetrics ---------------------------
(* Spans of two services, of which one is tracked by name; the limit on    *)
(* operations is one as well.                                               *)
EXTENDS SpanMetrics, TLC

Plain(service, name) ==
    [service |-> service, name |-> name, kind |-> "server", status |-> "ok",
     bucket |-> 1, attrs |-> NoFn, resource |-> NoFn, stale |-> FALSE]

MCArrivals ==
    {Plain("s1", "o1"), Plain("s2", "o1"), Plain("s1", "o2"),
     Plain("", "o1"),
     [Plain("s1", "o1") EXCEPT !.bucket = 2, !.kind = "client",
          !.attrs = ("db.system" :> "pg" @@ "peer" :> "db1" @@ "tier" :> "x")],
     [Plain("s2", "o1") EXCEPT !.kind = "client",
          !.attrs = ("http.url" :> "u" @@ "http.response.status_code" :> "500"),
          !.resource = "tier" :> "y"],
     [Plain("s1", "o1") EXCEPT !.stale = TRUE],
     [Plain("s1", "o1") EXCEPT !.attrs = ("tier" :> "internal")]}
MCDimensions == <<"tier">>
MCDefaults == "tier" :> "none"
MCExcludePatterns == {[key |-> "tier", value |-> "internal"],
                      [key |-> "span.kind", value |-> "producer"]}

=============================================================================
