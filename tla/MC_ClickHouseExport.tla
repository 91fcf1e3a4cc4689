------------------------ MODULE MC_ClickHouseExport ------------------------
(* The instance: a batch with a metric of each type.  The gauge has a point   *)
(* from before the rule, one whose labels the rule shortens, one that has only *)
(* kept labels, and one that is NaN; of the histogram's two points only the   *)
(* second has a maximum.                                                      *)
EXTENDS ClickHouseExport

Point(labels, hour, nan) ==
    [labels |-> labels, hour |-> hour, nan |-> nan, has |-> {"max"}]

Short == Point({"svc"}, 2, FALSE)
Long == Point({"svc", "host"}, 2, FALSE)

MCMetrics ==
    {[typ |-> "gauge", name |-> "g",
      points |-> <<Point({"svc"}, 1, FALSE), Long, Short, Point({"svc"}, 3, TRUE)>>],
     [typ |-> "sum", name |-> "c", points |-> <<Short>>],
     [typ |-> "histogram", name |-> "h",
      points |-> <<[Long EXCEPT !.has = {}], Long>>],
     [typ |-> "summary", name |-> "s", points |-> <<Short>>],
     [typ |-> "exphist", name |-> "e", points |-> <<Long>>]}

MCRuled == {"", "max", "bucket", "quantile"}

=============================================================================
