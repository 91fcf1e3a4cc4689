--------------------------- MODULE MigrationLists ---------------------------
(***************************************************************************)
(* The migrations of the repository: the lists that "sync up", "async up"   *)
(* and the manager's MigrateDown go through, with their statements in order. *)
(* A definition <Database><a>To<b> holds the migrations a to b of its list, *)
(* a definition <Database><a>Up part of the statements of one migration.    *)
(***************************************************************************)
EXTENDS Statements

-----------------------------------------------------------------------------
(* Squashed migrations: what the legacy migrations of traces amount to *)

SignozIndexV2Columns ==
    {"boolTagMap", "dbName", "dbOperation", "dbSystem", "durationNano", "events",
     "externalHttpMethod", "externalHttpUrl", "hasError", "httpHost", "httpMethod", "httpRoute",
     "httpUrl", "isRemote", "kind", "msgOperation", "msgSystem", "name", "numberTagMap",
     "parentSpanID", "peerService", "resourceTagsMap", "responseStatusCode", "rpcMethod",
     "rpcService", "rpcSystem", "serviceName", "spanID", "spanKind", "statusCode",
     "statusCodeString", "statusMessage", "stringTagMap", "timestamp", "traceID"}

DurationSortColumns ==
    {"boolTagMap", "durationNano", "hasError", "httpHost", "httpMethod", "httpRoute", "httpUrl",
     "isRemote", "kind", "name", "numberTagMap", "parentSpanID", "responseStatusCode",
     "rpcMethod", "rpcService", "rpcSystem", "serviceName", "spanID", "spanKind", "statusCode",
     "statusCodeString", "statusMessage", "stringTagMap", "timestamp", "traceID"}

SignozErrorIndexV2Columns ==
    {"errorID", "exceptionEscaped", "exceptionMessage", "exceptionStacktrace", "exceptionType",
     "groupID", "resourceTagsMap", "serviceName", "spanID", "timestamp", "traceID"}

DependencyGraphMinutesV2Columns ==
    {"deployment_environment", "dest", "duration_quantiles_state", "error_count",
     "k8s_cluster_name", "k8s_namespace_name", "src", "timestamp", "total_count"}

DependencyGraphMinutesDbCallsMvV2Reads ==
    {"dbSystem", "durationNano", "kind", "resourceTagsMap", "serviceName", "statusCode",
     "timestamp"}

DependencyGraphMinutesMessagingCallsMvV2Reads ==
    {"durationNano", "kind", "msgSystem", "resourceTagsMap", "serviceName", "statusCode",
     "timestamp"}

DependencyGraphMinutesServiceCallsMvV2Reads ==
    {"durationNano", "parentSpanID", "resourceTagsMap", "serviceName", "spanID", "statusCode",
     "timestamp"}

RootOperationsWrites == {"name", "serviceName"}

SubRootOperationsReads == {"name", "parentSpanID", "serviceName", "spanID"}

SpanAttributesColumns ==
    {"dataType", "float64TagValue", "isColumn", "stringTagValue", "tagKey", "tagType",
     "timestamp"}

SpanAttributesKeysColumns == {"dataType", "isColumn", "tagKey", "tagType"}

UsageColumns == {"collector_id", "data", "exporter_id", "tenant", "timestamp"}

SquashedTraces1To2 ==
    <<M(1, CreateTable(Traces("signoz_index_v2"), SignozIndexV2Columns),
         DropTable(Traces("signoz_index_v2"))),
      M(2, CreateDistributed(Traces("distributed_signoz_index_v2"), Traces("signoz_index_v2"),
         SignozIndexV2Columns), DropTable(Traces("distributed_signoz_index_v2")))>>

SquashedTraces3To4 ==
    <<M(3, CreateTable(Traces("durationSort"), DurationSortColumns),
         DropTable(Traces("durationSort"))),
      M(4, CreateView(Traces("durationSortMV"), Traces("durationSort"),
         Traces("signoz_index_v2"), DurationSortColumns, DurationSortColumns),
         DropTable(Traces("durationSortMV")))>>

SquashedTraces5To7 ==
    <<M(5, CreateDistributed(Traces("distributed_durationSort"), Traces("durationSort"),
         DurationSortColumns), DropTable(Traces("distributed_durationSort"))),
      M(6, CreateTable(Traces("signoz_error_index_v2"), SignozErrorIndexV2Columns),
         DropTable(Traces("signoz_error_index_v2"))),
      M(7, CreateDistributed(Traces("distributed_signoz_error_index_v2"),
         Traces("signoz_error_index_v2"), SignozErrorIndexV2Columns),
         DropTable(Traces("distributed_signoz_error_index_v2")))>>

SquashedTraces8To11 ==
    <<M(8, CreateTable(Traces("signoz_spans"), {"model", "timestamp", "traceID"}),
         DropTable(Traces("signoz_spans"))),
      M(9, CreateDistributed(Traces("distributed_signoz_spans"), Traces("signoz_spans"),
         {"model", "timestamp", "traceID"}), DropTable(Traces("distributed_signoz_spans"))),
      M(10, CreateTable(Traces("dependency_graph_minutes_v2"), DependencyGraphMinutesV2Columns),
         DropTable(Traces("dependency_graph_minutes_v2"))),
      M(11, CreateView(Traces("dependency_graph_minutes_db_calls_mv_v2"),
         Traces("dependency_graph_minutes_v2"), Traces("signoz_index_v2"),
         DependencyGraphMinutesDbCallsMvV2Reads, DependencyGraphMinutesV2Columns),
         DropTable(Traces("dependency_graph_minutes_db_calls_mv_v2")))>>

SquashedTraces12To14 ==
    <<M(12, CreateView(Traces("dependency_graph_minutes_messaging_calls_mv_v2"),
         Traces("dependency_graph_minutes_v2"), Traces("signoz_index_v2"),
         DependencyGraphMinutesMessagingCallsMvV2Reads, DependencyGraphMinutesV2Columns),
         DropTable(Traces("dependency_graph_minutes_messaging_calls_mv_v2"))),
      M(13, CreateView(Traces("dependency_graph_minutes_service_calls_mv_v2"),
         Traces("dependency_graph_minutes_v2"), Traces("signoz_index_v2"),
         DependencyGraphMinutesServiceCallsMvV2Reads, DependencyGraphMinutesV2Columns),
         DropTable(Traces("dependency_graph_minutes_service_calls_mv_v2"))),
      M(14, CreateDistributed(Traces("distributed_dependency_graph_minutes_v2"),
         Traces("dependency_graph_minutes_v2"), DependencyGraphMinutesV2Columns),
         DropTable(Traces("distributed_dependency_graph_minutes_v2")))>>

SquashedTraces15To19 ==
    <<M(15, CreateTable(Traces("usage_explorer"), {"count", "service_name", "timestamp"}),
         DropTable(Traces("usage_explorer"))),
      M(16, CreateView(Traces("usage_explorer_mv"), Traces("usage_explorer"),
         Traces("signoz_index_v2"), {"serviceName", "timestamp"}, {"count", "service_name",
         "timestamp"}), DropTable(Traces("usage_explorer_mv"))),
      M(17, CreateDistributed(Traces("distributed_usage_explorer"), Traces("usage_explorer"),
         {"count", "service_name", "timestamp"}),
         DropTable(Traces("distributed_usage_explorer"))),
      M(18, CreateTable(Traces("top_level_operations"), {"name", "serviceName", "time"}),
         DropTable(Traces("top_level_operations"))),
      M(19, CreateDistributed(Traces("distributed_top_level_operations"),
         Traces("top_level_operations"), {"name", "serviceName", "time"}),
         DropTable(Traces("distributed_top_level_operations")))>>

SquashedTraces20To24 ==
    <<M(20, CreateView(Traces("root_operations"), Traces("top_level_operations"),
         Traces("signoz_index_v2"), {"name", "parentSpanID", "serviceName"},
         RootOperationsWrites), DropTable(Traces("root_operations"))),
      M(21, CreateView(Traces("sub_root_operations"), Traces("top_level_operations"),
         Traces("signoz_index_v2"), SubRootOperationsReads, RootOperationsWrites),
         DropTable(Traces("sub_root_operations"))),
      M(22, CreateTable(Traces("span_attributes"), SpanAttributesColumns),
         DropTable(Traces("span_attributes"))),
      M(23, CreateDistributed(Traces("distributed_span_attributes"), Traces("span_attributes"),
         SpanAttributesColumns), DropTable(Traces("distributed_span_attributes"))),
      M(24, CreateTable(Traces("span_attributes_keys"), SpanAttributesKeysColumns),
         DropTable(Traces("span_attributes_keys")))>>

SquashedTraces25To27 ==
    <<M(25, CreateDistributed(Traces("distributed_span_attributes_keys"),
         Traces("span_attributes_keys"), SpanAttributesKeysColumns),
         DropTable(Traces("distributed_span_attributes_keys"))),
      M(26, CreateTable(Traces("usage"), UsageColumns), DropTable(Traces("usage"))),
      M(27, CreateDistributed(Traces("distributed_usage"), Traces("usage"), UsageColumns), <<>>)>>

SquashedTracesMigrations ==
       SquashedTraces1To2
    \o SquashedTraces3To4
    \o SquashedTraces5To7
    \o SquashedTraces8To11
    \o SquashedTraces12To14
    \o SquashedTraces15To19
    \o SquashedTraces20To24
    \o SquashedTraces25To27

-----------------------------------------------------------------------------
(* ... of metrics *)

SamplesV2Columns == {"fingerprint", "metric_name", "timestamp_ms", "value"}

TimeSeriesV2Columns ==
    {"description", "fingerprint", "is_monotonic", "labels", "metric_name", "temporality",
     "timestamp_ms", "type", "unit"}

ExpHistColumns ==
    {"count", "env", "fingerprint", "max", "metric_name", "min", "sketch", "sum", "temporality",
     "unix_milli"}

SamplesV4Columns ==
    {"env", "fingerprint", "metric_name", "temporality", "unix_milli", "value"}

TimeSeriesV4Columns ==
    {"description", "env", "fingerprint", "is_monotonic", "labels", "metric_name",
     "temporality", "type", "unit", "unix_milli"}

SamplesV4Agg5mColumns ==
    {"count", "env", "fingerprint", "last", "max", "metric_name", "min", "sum", "temporality",
     "unix_milli"}

TimeSeriesV41weekColumns == {"description", "env", "metric_name", "temporality"}

SquashedMetrics1To4 ==
    <<M(1, CreateTable(Metrics("samples_v2"), SamplesV2Columns),
         DropTable(Metrics("samples_v2"))),
      M(2, CreateDistributed(Metrics("distributed_samples_v2"), Metrics("samples_v2"),
         SamplesV2Columns), DropTable(Metrics("distributed_samples_v2"))),
      M(3, CreateTable(Metrics("time_series_v2"), TimeSeriesV2Columns), <<>>),
      M(4, CreateDistributed(Metrics("distributed_time_series_v2"), Metrics("time_series_v2"),
         TimeSeriesV2Columns), <<>>)>>

SquashedMetrics5To8 ==
    <<M(5, CreateTable(Metrics("exp_hist"), ExpHistColumns), DropTable(Metrics("exp_hist"))),
      M(6, CreateDistributed(Metrics("distributed_exp_hist"), Metrics("exp_hist"),
         ExpHistColumns), DropTable(Metrics("distributed_exp_hist"))),
      M(7, CreateTable(Metrics("samples_v4"), SamplesV4Columns),
         DropTable(Metrics("samples_v4"))),
      M(8, CreateDistributed(Metrics("distributed_samples_v4"), Metrics("samples_v4"),
         SamplesV4Columns), DropTable(Metrics("distributed_samples_v4")))>>

SquashedMetrics9To12 ==
    <<M(9, CreateTable(Metrics("time_series_v4"), TimeSeriesV4Columns),
         DropTable(Metrics("time_series_v4"))),
      M(10, CreateDistributed(Metrics("distributed_time_series_v4"), Metrics("time_series_v4"),
         TimeSeriesV4Columns), DropTable(Metrics("distributed_time_series_v4"))),
      M(11, CreateTable(Metrics("time_series_v4_6hrs"), TimeSeriesV4Columns),
         DropTable(Metrics("time_series_v4_6hrs"))),
      M(12, CreateDistributed(Metrics("distributed_time_series_v4_6hrs"),
         Metrics("time_series_v4_6hrs"), TimeSeriesV4Columns),
         DropTable(Metrics("distributed_time_series_v4_6hrs")))>>

SquashedMetrics13To16 ==
    <<M(13, CreateTable(Metrics("time_series_v4_1day"), TimeSeriesV4Columns),
         DropTable(Metrics("time_series_v4_1day"))),
      M(14, CreateDistributed(Metrics("distributed_time_series_v4_1day"),
         Metrics("time_series_v4_1day"), TimeSeriesV4Columns),
         DropTable(Metrics("distributed_time_series_v4_1day"))),
      M(15, CreateTable(Metrics("time_series_v4_1week"), TimeSeriesV4Columns),
         DropTable(Metrics("time_series_v4_1week"))),
      M(16, CreateDistributed(Metrics("distributed_time_series_v4_1week"),
         Metrics("time_series_v4_1week"), TimeSeriesV4Columns),
         DropTable(Metrics("distributed_time_series_v4_1week")))>>

SquashedMetrics17To19 ==
    <<M(17, CreateView(Metrics("time_series_v4_6hrs_mv"), Metrics("time_series_v4_6hrs"),
         Metrics("time_series_v4"), TimeSeriesV4Columns, TimeSeriesV4Columns),
         DropTable(Metrics("time_series_v4_6hrs_mv"))),
      M(18, CreateView(Metrics("time_series_v4_1day_mv"), Metrics("time_series_v4_1day"),
         Metrics("time_series_v4"), TimeSeriesV4Columns, TimeSeriesV4Columns),
         DropTable(Metrics("time_series_v4_1day_mv"))),
      M(19, CreateView(Metrics("time_series_v4_1week_mv"), Metrics("time_series_v4_1week"),
         Metrics("time_series_v4_1day"), TimeSeriesV4Columns, TimeSeriesV4Columns),
         DropTable(Metrics("time_series_v4_1week_mv")))>>

SquashedMetrics20To23 ==
    <<M(20, CreateTable(Metrics("samples_v4_agg_5m"), SamplesV4Agg5mColumns),
         DropTable(Metrics("samples_v4_agg_5m"))),
      M(21, CreateTable(Metrics("samples_v4_agg_30m"), SamplesV4Agg5mColumns),
         DropTable(Metrics("samples_v4_agg_30m"))),
      M(22, CreateView(Metrics("samples_v4_agg_5m_mv"), Metrics("samples_v4_agg_5m"),
         Metrics("samples_v4"), SamplesV4Columns, SamplesV4Agg5mColumns),
         DropTable(Metrics("samples_v4_agg_5m_mv"))),
      M(23, CreateView(Metrics("samples_v4_agg_30m_mv"), Metrics("samples_v4_agg_30m"),
         Metrics("samples_v4_agg_5m"), SamplesV4Agg5mColumns, SamplesV4Agg5mColumns),
         DropTable(Metrics("samples_v4_agg_30m_mv")))>>

SquashedMetrics24To27 ==
    <<M(24, CreateDistributed(Metrics("distributed_samples_v4_agg_5m"),
         Metrics("samples_v4_agg_5m"), SamplesV4Agg5mColumns),
         DropTable(Metrics("distributed_samples_v4_agg_5m"))),
      M(25, CreateDistributed(Metrics("distributed_samples_v4_agg_30m"),
         Metrics("samples_v4_agg_30m"), SamplesV4Agg5mColumns),
         DropTable(Metrics("distributed_samples_v4_agg_30m"))),
      M(26, CreateTable(Metrics("usage"), UsageColumns), DropTable(Metrics("usage"))),
      M(27, CreateDistributed(Metrics("distributed_usage"), Metrics("usage"), UsageColumns),
         DropTable(Metrics("distributed_usage")))>>

SquashedMetrics28UpA ==
       CreateTable(Metrics("samples_v4_agg_5m"), SamplesV4Agg5mColumns)
    \o CreateTable(Metrics("samples_v4_agg_30m"), SamplesV4Agg5mColumns)
    \o CreateView(Metrics("samples_v4_agg_5m_mv"), Metrics("samples_v4_agg_5m"),
           Metrics("samples_v4"), SamplesV4Columns, SamplesV4Agg5mColumns)
    \o CreateView(Metrics("samples_v4_agg_30m_mv"), Metrics("samples_v4_agg_30m"),
           Metrics("samples_v4_agg_5m"), SamplesV4Agg5mColumns, SamplesV4Agg5mColumns)
    \o CreateDistributed(Metrics("distributed_samples_v4_agg_5m"), Metrics("samples_v4_agg_5m"),
           SamplesV4Agg5mColumns)

SquashedMetrics28UpB ==
       CreateDistributed(Metrics("distributed_samples_v4_agg_30m"),
           Metrics("samples_v4_agg_30m"), SamplesV4Agg5mColumns)
    \o CreateTable(Metrics("time_series_v4_1week"), TimeSeriesV4Columns)
    \o CreateView(Metrics("time_series_v4_1week_mv"), Metrics("time_series_v4_1week"),
           Metrics("time_series_v4_1day"), TimeSeriesV4Columns, TimeSeriesV4Columns)
    \o CreateDistributed(Metrics("distributed_time_series_v4_1week"),
           Metrics("time_series_v4_1week"), TimeSeriesV41weekColumns)

SquashedMetrics28 ==
    <<M(28, SquashedMetrics28UpA \o SquashedMetrics28UpB, DropTables("signoz_metrics",
         <<"samples_v4_agg_5m", "samples_v4_agg_5m_mv", "samples_v4_agg_30m",
         "samples_v4_agg_30m_mv", "distributed_samples_v4_agg_5m",
         "distributed_samples_v4_agg_30m", "time_series_v4_1week",
         "distributed_time_series_v4_1week", "time_series_v4_1week_mv">>))>>

SquashedMetricsMigrations ==
       SquashedMetrics1To4
    \o SquashedMetrics5To8
    \o SquashedMetrics9To12
    \o SquashedMetrics13To16
    \o SquashedMetrics17To19
    \o SquashedMetrics20To23
    \o SquashedMetrics24To27
    \o SquashedMetrics28

-----------------------------------------------------------------------------
(* ... of logs, since the custom retention *)

LogsAttributeKeysColumns == {"datatype", "name"}

LogsV2Columns ==
    {"_retention_days", "_retention_days_cold", "attributes_bool", "attributes_number",
     "attributes_string", "body", "id", "observed_timestamp", "resource_fingerprint",
     "resources_string", "scope_name", "scope_string", "scope_version", "severity_number",
     "severity_text", "span_id", "timestamp", "trace_flags", "trace_id", "ts_bucket_start"}

LogsV2ResourceColumns ==
    {"_retention_days", "_retention_days_cold", "fingerprint", "labels",
     "seen_at_ts_bucket_start"}

CustomRetentionLogs1To5 ==
    <<M(1, CreateTable(Logs("logs_attribute_keys"), LogsAttributeKeysColumns),
         DropTable(Logs("logs_attribute_keys"))),
      M(2, CreateDistributed(Logs("distributed_logs_attribute_keys"),
         Logs("logs_attribute_keys"), LogsAttributeKeysColumns),
         DropTable(Logs("distributed_logs_attribute_keys"))),
      M(3, CreateTable(Logs("logs_resource_keys"), LogsAttributeKeysColumns),
         DropTable(Logs("logs_resource_keys"))),
      M(4, CreateDistributed(Logs("distributed_logs_resource_keys"), Logs("logs_resource_keys"),
         LogsAttributeKeysColumns), <<>>),
      M(5, CreateTable(Logs("usage"), UsageColumns), DropTable(Logs("usage")))>>

CustomRetentionLogs6To8 ==
    <<M(6, CreateDistributed(Logs("distributed_usage"), Logs("usage"), UsageColumns),
         DropTable(Logs("distributed_usage"))),
      M(7, CreateTable(Logs("logs_v2"), LogsV2Columns), DropTable(Logs("logs_v2"))),
      M(8, CreateDistributed(Logs("distributed_logs_v2"), Logs("logs_v2"), LogsV2Columns),
         DropTable(Logs("distributed_logs_v2")))>>

CustomRetentionLogs9 ==
    <<M(9,
           CreateTable(Logs("logs_v2_resource"), LogsV2ResourceColumns)
        \o CreateDistributed(Logs("distributed_logs_v2_resource"), Logs("logs_v2_resource"),
               LogsV2ResourceColumns),
         DropTables("signoz_logs", <<"logs_v2_resource", "distributed_logs_v2_resource">>))>>

CustomRetentionLogsMigrations ==
    CustomRetentionLogs1To5 \o CustomRetentionLogs6To8 \o CustomRetentionLogs9

-----------------------------------------------------------------------------
(* ... of logs, before it: the state of a legacy installation *)

LogsColumns ==
    {"attributes_bool_key", "attributes_bool_value", "attributes_float64_key",
     "attributes_float64_value", "attributes_int64_key", "attributes_int64_value",
     "attributes_string_key", "attributes_string_value", "body", "id", "observed_timestamp",
     "resources_string_key", "resources_string_value", "scope_name", "scope_string_key",
     "scope_string_value", "scope_version", "severity_number", "severity_text", "span_id",
     "timestamp", "trace_flags", "trace_id"}

TagAttributesColumns ==
    {"float64TagValue", "int64TagValue", "stringTagValue", "tagDataType", "tagKey", "tagType",
     "timestamp"}

LogsV2Columns16 ==
    {"attributes_bool", "attributes_number", "attributes_string", "body", "id",
     "observed_timestamp", "resource_fingerprint", "resources_string", "scope_name",
     "scope_string", "scope_version", "severity_number", "severity_text", "span_id",
     "timestamp", "trace_flags", "trace_id", "ts_bucket_start"}

SquashedLogs1To3 ==
    <<M(1, CreateTable(Logs("logs"), LogsColumns), DropTable(Logs("logs"))),
      M(2, CreateDistributed(Logs("distributed_logs"), Logs("logs"), LogsColumns),
         DropTable(Logs("distributed_logs"))),
      M(3, CreateTable(Logs("logs_attribute_keys"), LogsAttributeKeysColumns),
         DropTable(Logs("logs_attribute_keys")))>>

SquashedLogs4To8 ==
    <<M(4, CreateDistributed(Logs("distributed_logs_attribute_keys"),
         Logs("logs_attribute_keys"), LogsAttributeKeysColumns),
         DropTable(Logs("distributed_logs_attribute_keys"))),
      M(5, CreateView(Logs("attribute_keys_bool_final_mv"), Logs("logs_attribute_keys"),
         Logs("logs"), {"attributes_bool_key"}, LogsAttributeKeysColumns),
         DropTable(Logs("attribute_keys_bool_final_mv"))),
      M(6, CreateView(Logs("attribute_keys_float64_final_mv"), Logs("logs_attribute_keys"),
         Logs("logs"), {"attributes_float64_key"}, LogsAttributeKeysColumns),
         DropTable(Logs("attribute_keys_float64_final_mv"))),
      M(7, CreateView(Logs("attribute_keys_int64_final_mv"), Logs("logs_attribute_keys"),
         Logs("logs"), {"attributes_int64_key"}, LogsAttributeKeysColumns),
         DropTable(Logs("attribute_keys_int64_final_mv"))),
      M(8, CreateView(Logs("attribute_keys_string_final_mv"), Logs("logs_attribute_keys"),
         Logs("logs"), {"attributes_string_key"}, LogsAttributeKeysColumns),
         DropTable(Logs("attribute_keys_string_final_mv")))>>

SquashedLogs9To13 ==
    <<M(9, CreateTable(Logs("logs_resource_keys"), LogsAttributeKeysColumns),
         DropTable(Logs("logs_resource_keys"))),
      M(10, CreateDistributed(Logs("distributed_logs_resource_keys"),
         Logs("logs_resource_keys"), LogsAttributeKeysColumns), <<>>),
      M(11, CreateView(Logs("resource_keys_string_final_mv"), Logs("logs_resource_keys"),
         Logs("logs"), {"resources_string_key"}, LogsAttributeKeysColumns),
         DropTable(Logs("resource_keys_string_final_mv"))),
      M(12, CreateTable(Logs("tag_attributes"), TagAttributesColumns),
         DropTable(Logs("tag_attributes"))),
      M(13, CreateDistributed(Logs("distributed_tag_attributes"), Logs("tag_attributes"),
         TagAttributesColumns), DropTable(Logs("distributed_tag_attributes")))>>

SquashedLogs14To16 ==
    <<M(14, CreateTable(Logs("usage"), UsageColumns), DropTable(Logs("usage"))),
      M(15, CreateDistributed(Logs("distributed_usage"), Logs("usage"), UsageColumns),
         DropTable(Logs("distributed_usage"))),
      M(16, CreateTable(Logs("logs_v2"), LogsV2Columns16), DropTable(Logs("logs_v2")))>>

SquashedLogs17To19 ==
    <<M(17, CreateDistributed(Logs("distributed_logs_v2"), Logs("logs_v2"), LogsV2Columns16),
         DropTable(Logs("distributed_logs_v2"))),
      M(18, DropTables("signoz_logs", <<"resource_keys_string_final_mv",
         "attribute_keys_float64_final_mv", "attribute_keys_int64_final_mv",
         "attribute_keys_string_final_mv", "attribute_keys_bool_final_mv">>), <<>>),
      M(19,
           CreateView(Logs("attribute_keys_string_final_mv"), Logs("logs_attribute_keys"),
               Logs("logs_v2"), {"attributes_string"}, LogsAttributeKeysColumns)
        \o CreateView(Logs("attribute_keys_float64_final_mv"), Logs("logs_attribute_keys"),
               Logs("logs_v2"), {"attributes_number"}, LogsAttributeKeysColumns)
        \o CreateView(Logs("attribute_keys_bool_final_mv"), Logs("logs_attribute_keys"),
               Logs("logs_v2"), {"attributes_bool"}, LogsAttributeKeysColumns)
        \o CreateView(Logs("resource_keys_string_final_mv"), Logs("logs_resource_keys"),
               Logs("logs_v2"), {"resources_string"}, LogsAttributeKeysColumns),
         <<>>)>>

SquashedLogs20 ==
    <<M(20,
           CreateTable(Logs("logs_v2_resource"), {"fingerprint", "labels",
               "seen_at_ts_bucket_start"})
        \o CreateDistributed(Logs("distributed_logs_v2_resource"), Logs("logs_v2_resource"),
               {"fingerprint", "labels", "seen_at_ts_bucket_start"}),
         DropTables("signoz_logs", <<"logs_v2_resource", "distributed_logs_v2_resource">>))>>

SquashedLogsMigrations ==
       SquashedLogs1To3
    \o SquashedLogs4To8
    \o SquashedLogs9To13
    \o SquashedLogs14To16
    \o SquashedLogs17To19
    \o SquashedLogs20

-----------------------------------------------------------------------------
(* traces *)

SignozIndexV3Columns ==
    {"attribute_string_db$$system", "attribute_string_http$$route",
     "attribute_string_messaging$$operation", "attribute_string_messaging$$system",
     "attribute_string_peer$$service", "attribute_string_rpc$$method",
     "attribute_string_rpc$$service", "attribute_string_rpc$$system", "attributes_bool",
     "attributes_number", "attributes_string", "dbName", "dbOperation", "dbSystem", "db_name",
     "db_operation", "durationNano", "duration_nano", "events", "externalHttpMethod",
     "externalHttpUrl", "external_http_method", "external_http_url", "flags", "hasError",
     "has_error", "httpHost", "httpMethod", "httpRoute", "httpUrl", "http_host", "http_method",
     "http_url", "isRemote", "is_remote", "kind", "kind_string", "links", "msgOperation",
     "msgSystem", "name", "parentSpanID", "parent_span_id", "peerService", "references",
     "resource_fingerprint", "resource_string_service$$name", "resources_string",
     "responseStatusCode", "response_status_code", "rpcMethod", "rpcService", "rpcSystem",
     "serviceName", "spanID", "spanKind", "span_id", "statusCode", "statusCodeString",
     "statusMessage", "status_code", "status_code_string", "status_message", "timestamp",
     "traceID", "trace_id", "trace_state", "ts_bucket_start"}

TraceSummaryColumns == {"end", "num_spans", "start", "trace_id"}

SubRootOperationsReads1000 ==
    {"name", "parent_span_id", "resource_string_service$$name", "span_id"}

DependencyGraphMinutesDbCallsMvV2Reads1002 ==
    {"attribute_string_db$$system", "duration_nano", "kind", "resource_string_service$$name",
     "resources_string", "status_code", "timestamp"}

DependencyGraphMinutesMessagingCallsMvV2Reads1002 ==
    {"attribute_string_messaging$$system", "duration_nano", "kind",
     "resource_string_service$$name", "resources_string", "status_code", "timestamp"}

DependencyGraphMinutesServiceCallsMvV2Reads1002 ==
    {"duration_nano", "parent_span_id", "resource_string_service$$name", "resources_string",
     "span_id", "status_code", "timestamp"}

TagAttributesV2Columns ==
    {"number_value", "string_value", "tag_data_type", "tag_key", "tag_type", "unix_milli"}

Traces1000UpA ==
       CreateTable(Traces("signoz_index_v3"), SignozIndexV3Columns)

Traces1000UpB ==
       CreateDistributed(Traces("distributed_signoz_index_v3"), Traces("signoz_index_v3"),
           SignozIndexV3Columns)
    \o CreateTable(Traces("traces_v3_resource"), {"fingerprint", "labels",
           "seen_at_ts_bucket_start"})
    \o CreateDistributed(Traces("distributed_traces_v3_resource"), Traces("traces_v3_resource"),
           {"fingerprint", "labels", "seen_at_ts_bucket_start"})

Traces1000UpC ==
       CreateTable(Traces("trace_summary"), TraceSummaryColumns)
    \o CreateDistributed(Traces("distributed_trace_summary"), Traces("trace_summary"),
           TraceSummaryColumns)
    \o CreateView(Traces("trace_summary_mv"), Traces("trace_summary"),
           Traces("signoz_index_v3"), {"timestamp", "trace_id"}, TraceSummaryColumns)
    \o ModifyQuery(Traces("root_operations"), Traces("signoz_index_v3"), {"name",
           "parent_span_id", "resource_string_service$$name"}, RootOperationsWrites)
    \o ModifyQuery(Traces("sub_root_operations"), Traces("signoz_index_v3"),
           SubRootOperationsReads1000, RootOperationsWrites)

Traces1000Down ==
       DropTables("signoz_traces", <<"signoz_index_v3", "distributed_signoz_index_v3",
           "traces_v3_resource", "distributed_traces_v3_resource", "trace_summary",
           "distributed_trace_summary", "trace_summary_mv">>)
    \o ModifyQuery(Traces("root_operations"), Traces("signoz_index_v2"), {"name",
           "parentSpanID", "serviceName"}, RootOperationsWrites)
    \o ModifyQuery(Traces("sub_root_operations"), Traces("signoz_index_v2"),
           SubRootOperationsReads, RootOperationsWrites)

Traces1000 ==
    <<M(1000, Traces1000UpA \o Traces1000UpB \o Traces1000UpC, Traces1000Down)>>

Traces1001To1003 ==
    <<M(1001, DropTables("signoz_traces", <<"durationSortMV", "distributed_durationSort">>), <<>>),
      M(1002,
           ModifyQuery(Traces("dependency_graph_minutes_db_calls_mv_v2"),
               Traces("signoz_index_v3"), DependencyGraphMinutesDbCallsMvV2Reads1002,
               DependencyGraphMinutesV2Columns)
        \o ModifyQuery(Traces("dependency_graph_minutes_messaging_calls_mv_v2"),
               Traces("signoz_index_v3"), DependencyGraphMinutesMessagingCallsMvV2Reads1002,
               DependencyGraphMinutesV2Columns)
        \o ModifyQuery(Traces("dependency_graph_minutes_service_calls_mv_v2"),
               Traces("signoz_index_v3"), DependencyGraphMinutesServiceCallsMvV2Reads1002,
               DependencyGraphMinutesV2Columns),
         <<>>),
      M(1003, DropTables("signoz_traces", <<"dependency_graph_minutes_db_calls_mv",
         "dependency_graph_minutes_messaging_calls_mv",
         "dependency_graph_minutes_service_calls_mv", "distributed_dependency_graph_minutes">>),
         <<>>)>>

Traces1004 ==
    <<M(1004,
           CreateTable(Traces("tag_attributes_v2"), TagAttributesV2Columns)
        \o CreateDistributed(Traces("distributed_tag_attributes_v2"),
               Traces("tag_attributes_v2"), TagAttributesV2Columns),
         <<>>)>>

Traces1005UpA ==
       AddColumnsFrom(Traces("signoz_index_v3"), <<"resource_string_service$$name_exists">>,
           {"resources_string"})
    \o AddColumnsFrom(Traces("signoz_index_v3"), <<"attribute_string_http$$route_exists",
           "attribute_string_messaging$$system_exists",
           "attribute_string_messaging$$operation_exists", "attribute_string_db$$system_exists",
           "attribute_string_rpc$$system_exists", "attribute_string_rpc$$service_exists",
           "attribute_string_rpc$$method_exists", "attribute_string_peer$$service_exists">>,
           {"attributes_string"})
    \o AddColumnsFrom(Traces("distributed_signoz_index_v3"),
           <<"resource_string_service$$name_exists">>, {"resources_string"})

Traces1005UpB ==
       AddColumnsFrom(Traces("distributed_signoz_index_v3"),
           <<"attribute_string_http$$route_exists", "attribute_string_messaging$$system_exists",
           "attribute_string_messaging$$operation_exists", "attribute_string_db$$system_exists",
           "attribute_string_rpc$$system_exists", "attribute_string_rpc$$service_exists",
           "attribute_string_rpc$$method_exists", "attribute_string_peer$$service_exists">>,
           {"attributes_string"})

Traces1005Down ==
       DropColumns(Traces("distributed_signoz_index_v3"),
           <<"resource_string_service$$name_exists", "attribute_string_http$$route_exists",
           "attribute_string_messaging$$system_exists",
           "attribute_string_messaging$$operation_exists", "attribute_string_db$$system_exists",
           "attribute_string_rpc$$system_exists", "attribute_string_rpc$$service_exists",
           "attribute_string_rpc$$method_exists", "attribute_string_peer$$service_exists">>)
    \o DropColumns(Traces("signoz_index_v3"), <<"resource_string_service$$name_exists",
           "attribute_string_http$$route_exists", "attribute_string_messaging$$system_exists",
           "attribute_string_messaging$$operation_exists", "attribute_string_db$$system_exists",
           "attribute_string_rpc$$system_exists", "attribute_string_rpc$$service_exists",
           "attribute_string_rpc$$method_exists", "attribute_string_peer$$service_exists">>)

Traces1005 ==
    <<M(1005, Traces1005UpA \o Traces1005UpB, Traces1005Down)>>

\* Mutant: the TTL comes before the column it names.
Traces1006To1008_TTLFirst ==
    <<M(1008,
           ModifyTTL(Traces("span_attributes_keys"), {"timestamp"})
        \o AddColumns(Traces("span_attributes_keys"), <<"timestamp">>),
         <<>>)>>

Traces1006To1008 ==
    <<M(1006,
           AddColumns(Traces("signoz_index_v3"), <<"resource">>)
        \o AddColumns(Traces("distributed_signoz_index_v3"), <<"resource">>),
           DropColumns(Traces("distributed_signoz_index_v3"), <<"resource">>)
        \o DropColumns(Traces("signoz_index_v3"), <<"resource">>)),
      M(1007,
           ModifyQuery(Traces("dependency_graph_minutes_service_calls_mv_v2"),
               Traces("signoz_index_v3"), DependencyGraphMinutesServiceCallsMvV2Reads1002,
               DependencyGraphMinutesV2Columns)
        \o ModifyQuery(Traces("sub_root_operations"), Traces("signoz_index_v3"),
               SubRootOperationsReads1000, RootOperationsWrites),
           ModifyQuery(Traces("dependency_graph_minutes_service_calls_mv_v2"),
               Traces("signoz_index_v3"), DependencyGraphMinutesServiceCallsMvV2Reads1002,
               DependencyGraphMinutesV2Columns)
        \o ModifyQuery(Traces("sub_root_operations"), Traces("signoz_index_v3"),
               SubRootOperationsReads1000, RootOperationsWrites)),
      M(1008,
           AddColumns(Traces("span_attributes_keys"), <<"timestamp">>)
        \o ModifyTTL(Traces("span_attributes_keys"), {"timestamp"}),
           DropColumns(Traces("span_attributes_keys"), <<"timestamp">>)
        \o RemoveTTL(Traces("span_attributes_keys")))>>

Traces1009To1011 ==
    <<M(1009,
           AddColumns(Traces("signoz_index_v3"), <<"scope">>)
        \o AddColumns(Traces("distributed_signoz_index_v3"), <<"scope">>),
           DropColumns(Traces("distributed_signoz_index_v3"), <<"scope">>)
        \o DropColumns(Traces("signoz_index_v3"), <<"scope">>)),
      M(1010,
           ModifyColumn(Traces("span_attributes_keys"), "tagType")
        \o ModifyColumn(Traces("distributed_span_attributes_keys"), "tagType"),
           ModifyColumn(Traces("distributed_span_attributes_keys"), "tagType")
        \o ModifyColumn(Traces("span_attributes_keys"), "tagType")),
      M(1011, ModifySettings(Traces("signoz_index_v3")), <<>>)>>

Traces1012To1014 ==
    <<M(1012,
           AddColumnsFrom(Traces("signoz_index_v3"), <<"attributes">>, {"attributes_bool"})
        \o AddColumnsFrom(Traces("distributed_signoz_index_v3"), <<"attributes">>,
               {"attributes_bool"}),
           DropColumns(Traces("distributed_signoz_index_v3"), <<"attributes">>)
        \o DropColumns(Traces("signoz_index_v3"), <<"attributes">>)),
      M(1013, AddIndex(Traces("signoz_index_v3"), {"attributes"}),
         DropIndex(Traces("signoz_index_v3"))),
      M(1014,
           AddColumns(Traces("signoz_index_v3"), <<"inserted_at">>)
        \o AddColumns(Traces("distributed_signoz_index_v3"), <<"inserted_at">>)
        \o AddColumns(Traces("signoz_index_v3"), <<"created_at">>)
        \o AddColumns(Traces("distributed_signoz_index_v3"), <<"created_at">>),
           DropColumns(Traces("distributed_signoz_index_v3"), <<"inserted_at">>)
        \o DropColumns(Traces("signoz_index_v3"), <<"inserted_at">>)
        \o DropColumns(Traces("distributed_signoz_index_v3"), <<"created_at">>)
        \o DropColumns(Traces("signoz_index_v3"), <<"created_at">>))>>

Traces1015To1016 ==
    <<M(1015,
           AddColumnsFrom(Traces("signoz_index_v3"), <<"attributes_promoted">>, {"attributes"})
        \o AddColumnsFrom(Traces("distributed_signoz_index_v3"), <<"attributes_promoted">>,
               {"attributes"}),
           DropColumns(Traces("distributed_signoz_index_v3"), <<"attributes_promoted">>)
        \o DropColumns(Traces("signoz_index_v3"), <<"attributes_promoted">>)),
      M(1016, AddIndex(Traces("signoz_index_v3"), {"attributes_promoted"}),
         DropIndex(Traces("signoz_index_v3")))>>

Traces1017UpA ==
       AddColumnsFrom(Traces("signoz_index_v3"), <<"attribute_string_gen_ai$$request$$model",
           "attribute_string_gen_ai$$request$$model_exists">>, {"attributes_string"})
    \o AddColumnsFrom(Traces("distributed_signoz_index_v3"),
           <<"attribute_string_gen_ai$$request$$model",
           "attribute_string_gen_ai$$request$$model_exists">>, {"attributes_string"})
    \o AddColumnsFrom(Traces("signoz_index_v3"), <<"attribute_string_gen_ai$$provider$$name",
           "attribute_string_gen_ai$$provider$$name_exists">>, {"attributes_string"})
    \o AddColumnsFrom(Traces("distributed_signoz_index_v3"),
           <<"attribute_string_gen_ai$$provider$$name",
           "attribute_string_gen_ai$$provider$$name_exists">>, {"attributes_string"})
    \o AddColumnsFrom(Traces("signoz_index_v3"), <<"attribute_string_gen_ai$$tool$$name",
           "attribute_string_gen_ai$$tool$$name_exists">>, {"attributes_string"})
    \o AddColumnsFrom(Traces("distributed_signoz_index_v3"),
           <<"attribute_string_gen_ai$$tool$$name",
           "attribute_string_gen_ai$$tool$$name_exists">>, {"attributes_string"})
    \o AddColumnsFrom(Traces("signoz_index_v3"), <<"attribute_string_gen_ai$$agent$$name",
           "attribute_string_gen_ai$$agent$$name_exists">>, {"attributes_string"})

Traces1017UpB ==
       AddColumnsFrom(Traces("distributed_signoz_index_v3"),
           <<"attribute_string_gen_ai$$agent$$name",
           "attribute_string_gen_ai$$agent$$name_exists">>, {"attributes_string"})
    \o AddColumnsFrom(Traces("signoz_index_v3"),
           <<"attribute_number_signoz$$gen_ai$$usage$$tokens$$cost",
           "attribute_number_signoz$$gen_ai$$usage$$tokens$$cost_exists">>,
           {"attributes_number"})
    \o AddColumnsFrom(Traces("distributed_signoz_index_v3"),
           <<"attribute_number_signoz$$gen_ai$$usage$$tokens$$cost",
           "attribute_number_signoz$$gen_ai$$usage$$tokens$$cost_exists">>,
           {"attributes_number"})
    \o AddColumnsFrom(Traces("signoz_index_v3"),
           <<"attribute_number_gen_ai$$usage$$input_tokens",
           "attribute_number_gen_ai$$usage$$input_tokens_exists">>, {"attributes_number"})
    \o AddColumnsFrom(Traces("distributed_signoz_index_v3"),
           <<"attribute_number_gen_ai$$usage$$input_tokens",
           "attribute_number_gen_ai$$usage$$input_tokens_exists">>, {"attributes_number"})
    \o AddColumnsFrom(Traces("signoz_index_v3"),
           <<"attribute_number_gen_ai$$usage$$output_tokens",
           "attribute_number_gen_ai$$usage$$output_tokens_exists">>, {"attributes_number"})
    \o AddColumnsFrom(Traces("distributed_signoz_index_v3"),
           <<"attribute_number_gen_ai$$usage$$output_tokens",
           "attribute_number_gen_ai$$usage$$output_tokens_exists">>, {"attributes_number"})

Traces1017UpC ==
       AddColumnsFrom(Traces("signoz_index_v3"),
           <<"attribute_number_gen_ai$$usage$$cache_read$$input_tokens",
           "attribute_number_gen_ai$$usage$$cache_read$$input_tokens_exists">>,
           {"attributes_number"})
    \o AddColumnsFrom(Traces("distributed_signoz_index_v3"),
           <<"attribute_number_gen_ai$$usage$$cache_read$$input_tokens",
           "attribute_number_gen_ai$$usage$$cache_read$$input_tokens_exists">>,
           {"attributes_number"})
    \o AddColumnsFrom(Traces("signoz_index_v3"),
           <<"attribute_number_gen_ai$$usage$$cache_creation$$input_tokens",
           "attribute_number_gen_ai$$usage$$cache_creation$$input_tokens_exists">>,
           {"attributes_number"})
    \o AddColumnsFrom(Traces("distributed_signoz_index_v3"),
           <<"attribute_number_gen_ai$$usage$$cache_creation$$input_tokens",
           "attribute_number_gen_ai$$usage$$cache_creation$$input_tokens_exists">>,
           {"attributes_number"})
    \o AddColumnsFrom(Traces("signoz_index_v3"),
           <<"attribute_number_signoz$$gen_ai$$usage$$input_tokens$$cost",
           "attribute_number_signoz$$gen_ai$$usage$$input_tokens$$cost_exists">>,
           {"attributes_number"})
    \o AddColumnsFrom(Traces("distributed_signoz_index_v3"),
           <<"attribute_number_signoz$$gen_ai$$usage$$input_tokens$$cost",
           "attribute_number_signoz$$gen_ai$$usage$$input_tokens$$cost_exists">>,
           {"attributes_number"})
    \o AddColumnsFrom(Traces("signoz_index_v3"),
           <<"attribute_number_signoz$$gen_ai$$usage$$output_tokens$$cost",
           "attribute_number_signoz$$gen_ai$$usage$$output_tokens$$cost_exists">>,
           {"attributes_number"})

Traces1017UpD ==
       AddColumnsFrom(Traces("distributed_signoz_index_v3"),
           <<"attribute_number_signoz$$gen_ai$$usage$$output_tokens$$cost",
           "attribute_number_signoz$$gen_ai$$usage$$output_tokens$$cost_exists">>,
           {"attributes_number"})
    \o AddColumnsFrom(Traces("signoz_index_v3"),
           <<"attribute_number_signoz$$gen_ai$$usage$$cache_read$$input_tokens$$cost",
           "attribute_number_signoz$$gen_ai$$usage$$cache_read$$input_tokens$$cost_exists">>,
           {"attributes_number"})
    \o AddColumnsFrom(Traces("distributed_signoz_index_v3"),
           <<"attribute_number_signoz$$gen_ai$$usage$$cache_read$$input_tokens$$cost",
           "attribute_number_signoz$$gen_ai$$usage$$cache_read$$input_tokens$$cost_exists">>,
           {"attributes_number"})
    \o AddColumnsFrom(Traces("signoz_index_v3"),
           <<"attribute_number_signoz$$gen_ai$$usage$$cache_write$$input_tokens$$cost",
           "attribute_number_signoz$$gen_ai$$usage$$cache_write$$input_tokens$$cost_exists">>,
           {"attributes_number"})
    \o AddColumnsFrom(Traces("distributed_signoz_index_v3"),
           <<"attribute_number_signoz$$gen_ai$$usage$$cache_write$$input_tokens$$cost",
           "attribute_number_signoz$$gen_ai$$usage$$cache_write$$input_tokens$$cost_exists">>,
           {"attributes_number"})
    \o AddIndex(Traces("signoz_index_v3"), {"attribute_string_gen_ai$$request$$model"})
    \o AddIndex(Traces("signoz_index_v3"), {"attribute_string_gen_ai$$provider$$name"})
    \o AddIndex(Traces("signoz_index_v3"), {"attribute_string_gen_ai$$agent$$name_exists",
           "attribute_string_gen_ai$$request$$model_exists",
           "attribute_string_gen_ai$$tool$$name_exists"})

Traces1017DownA ==
       DropIndex(Traces("signoz_index_v3"))
    \o DropIndex(Traces("signoz_index_v3"))
    \o DropIndex(Traces("signoz_index_v3"))
    \o DropColumns(Traces("distributed_signoz_index_v3"),
           <<"attribute_string_gen_ai$$request$$model",
           "attribute_string_gen_ai$$request$$model_exists",
           "attribute_string_gen_ai$$provider$$name",
           "attribute_string_gen_ai$$provider$$name_exists",
           "attribute_string_gen_ai$$tool$$name", "attribute_string_gen_ai$$tool$$name_exists",
           "attribute_string_gen_ai$$agent$$name",
           "attribute_string_gen_ai$$agent$$name_exists",
           "attribute_number_signoz$$gen_ai$$usage$$tokens$$cost",
           "attribute_number_signoz$$gen_ai$$usage$$tokens$$cost_exists",
           "attribute_number_gen_ai$$usage$$input_tokens",
           "attribute_number_gen_ai$$usage$$input_tokens_exists",
           "attribute_number_gen_ai$$usage$$output_tokens",
           "attribute_number_gen_ai$$usage$$output_tokens_exists",
           "attribute_number_gen_ai$$usage$$cache_read$$input_tokens",
           "attribute_number_gen_ai$$usage$$cache_read$$input_tokens_exists",
           "attribute_number_gen_ai$$usage$$cache_creation$$input_tokens",
           "attribute_number_gen_ai$$usage$$cache_creation$$input_tokens_exists",
           "attribute_number_signoz$$gen_ai$$usage$$input_tokens$$cost",
           "attribute_number_signoz$$gen_ai$$usage$$input_tokens$$cost_exists",
           "attribute_number_signoz$$gen_ai$$usage$$output_tokens$$cost",
           "attribute_number_signoz$$gen_ai$$usage$$output_tokens$$cost_exists",
           "attribute_number_signoz$$gen_ai$$usage$$cache_read$$input_tokens$$cost",
           "attribute_number_signoz$$gen_ai$$usage$$cache_read$$input_tokens$$cost_exists",
           "attribute_number_signoz$$gen_ai$$usage$$cache_write$$input_tokens$$cost",
           "attribute_number_signoz$$gen_ai$$usage$$cache_write$$input_tokens$$cost_exists">>)

Traces1017DownB ==
       DropColumns(Traces("signoz_index_v3"), <<"attribute_string_gen_ai$$request$$model",
           "attribute_string_gen_ai$$request$$model_exists",
           "attribute_string_gen_ai$$provider$$name",
           "attribute_string_gen_ai$$provider$$name_exists",
           "attribute_string_gen_ai$$tool$$name", "attribute_string_gen_ai$$tool$$name_exists",
           "attribute_string_gen_ai$$agent$$name",
           "attribute_string_gen_ai$$agent$$name_exists",
           "attribute_number_signoz$$gen_ai$$usage$$tokens$$cost",
           "attribute_number_signoz$$gen_ai$$usage$$tokens$$cost_exists",
           "attribute_number_gen_ai$$usage$$input_tokens",
           "attribute_number_gen_ai$$usage$$input_tokens_exists",
           "attribute_number_gen_ai$$usage$$output_tokens",
           "attribute_number_gen_ai$$usage$$output_tokens_exists",
           "attribute_number_gen_ai$$usage$$cache_read$$input_tokens",
           "attribute_number_gen_ai$$usage$$cache_read$$input_tokens_exists",
           "attribute_number_gen_ai$$usage$$cache_creation$$input_tokens",
           "attribute_number_gen_ai$$usage$$cache_creation$$input_tokens_exists",
           "attribute_number_signoz$$gen_ai$$usage$$input_tokens$$cost",
           "attribute_number_signoz$$gen_ai$$usage$$input_tokens$$cost_exists",
           "attribute_number_signoz$$gen_ai$$usage$$output_tokens$$cost",
           "attribute_number_signoz$$gen_ai$$usage$$output_tokens$$cost_exists",
           "attribute_number_signoz$$gen_ai$$usage$$cache_read$$input_tokens$$cost",
           "attribute_number_signoz$$gen_ai$$usage$$cache_read$$input_tokens$$cost_exists",
           "attribute_number_signoz$$gen_ai$$usage$$cache_write$$input_tokens$$cost",
           "attribute_number_signoz$$gen_ai$$usage$$cache_write$$input_tokens$$cost_exists">>)

Traces1017 ==
    <<M(1017, Traces1017UpA \o Traces1017UpB \o Traces1017UpC \o Traces1017UpD,
         Traces1017DownA \o Traces1017DownB)>>

Traces1018 ==
    <<M(1018,
           AddIndexes(Traces("signoz_index_v3"), 3, {"attributes"})
        \o AddIndex(Traces("signoz_index_v3"), {"attributes", "name"}),
           DropIndex(Traces("signoz_index_v3"))
        \o DropIndex(Traces("signoz_index_v3"))
        \o DropIndex(Traces("signoz_index_v3"))
        \o DropIndex(Traces("signoz_index_v3")))>>

TracesMigrations ==
       Traces1000
    \o Traces1001To1003
    \o Traces1004
    \o Traces1005
    \o Traces1006To1008
    \o Traces1009To1011
    \o Traces1012To1014
    \o Traces1015To1016
    \o Traces1017
    \o Traces1018

-----------------------------------------------------------------------------
(* logs *)

FieldKeysColumns == {"field_context", "field_data_type", "field_name", "last_seen", "signal"}

Logs1000To1001 ==
    <<M(1000,
         DropTables("signoz_logs",
             <<"attribute_keys_bool_final_mv", "attribute_keys_float64_final_mv",
             "attribute_keys_string_final_mv", "resource_keys_string_final_mv">>),
           CreateView(Logs("attribute_keys_bool_final_mv"), Logs("logs_attribute_keys"),
               Logs("logs_v2"), {"attributes_bool"}, LogsAttributeKeysColumns)
        \o CreateView(Logs("attribute_keys_float64_final_mv"), Logs("logs_attribute_keys"),
               Logs("logs_v2"), {"attributes_number"}, LogsAttributeKeysColumns)
        \o CreateView(Logs("attribute_keys_string_final_mv"), Logs("logs_attribute_keys"),
               Logs("logs_v2"), {"attributes_string"}, LogsAttributeKeysColumns)
        \o CreateView(Logs("resource_keys_string_final_mv"), Logs("logs_resource_keys"),
               Logs("logs_v2"), {"resources_string"}, LogsAttributeKeysColumns)),
      M(1001,
           CreateTable(Logs("tag_attributes_v2"), TagAttributesV2Columns)
        \o CreateDistributed(Logs("distributed_tag_attributes_v2"), Logs("tag_attributes_v2"),
               TagAttributesV2Columns),
         <<>>)>>

Logs1002To1005 ==
    <<M(1002,
           AddColumns(Logs("logs_attribute_keys"), <<"timestamp">>)
        \o AddColumns(Logs("logs_resource_keys"), <<"timestamp">>)
        \o ModifyTTL(Logs("logs_attribute_keys"), {"timestamp"})
        \o ModifyTTL(Logs("logs_resource_keys"), {"timestamp"}),
         <<>>),
      M(1003,
           MaterializeColumn(Logs("logs_attribute_keys"), "timestamp")
        \o MaterializeColumn(Logs("logs_resource_keys"), "timestamp"),
         <<>>),
      M(1004,
           AddColumns(Logs("logs_v2"), <<"resource">>)
        \o AddColumns(Logs("distributed_logs_v2"), <<"resource">>),
           DropColumns(Logs("distributed_logs_v2"), <<"resource">>)
        \o DropColumns(Logs("logs_v2"), <<"resource">>)),
      M(1005,
           AddIndex(Logs("logs_v2"), {"trace_id"})
        \o AddIndex(Logs("logs_v2"), {"span_id"}),
           DropIndex(Logs("logs_v2"))
        \o DropIndex(Logs("logs_v2")))>>

Logs2001Up ==
       CreateTable(Metadata("field_keys"), FieldKeysColumns)
    \o CreateDistributed(Metadata("distributed_field_keys"), Metadata("field_keys"),
           FieldKeysColumns)
    \o ModifySettings(Logs("logs_v2"))
    \o AddColumnsFrom(Logs("logs_v2"), <<"body_v2">>, {"body"})
    \o AddColumnsFrom(Logs("distributed_logs_v2"), <<"body_v2">>, {"body"})
    \o AddColumnsFrom(Logs("logs_v2"), <<"body_promoted">>, {"body_v2"})
    \o AddColumnsFrom(Logs("distributed_logs_v2"), <<"body_promoted">>, {"body_v2"})
    \o AddIndexes(Logs("logs_v2"), 4, {"body_v2"})

Logs2001Down ==
       DropIndex(Logs("logs_v2"))
    \o DropIndex(Logs("logs_v2"))
    \o DropIndex(Logs("logs_v2"))
    \o DropIndex(Logs("logs_v2"))
    \o DropColumns(Logs("distributed_logs_v2"), <<"body_promoted", "body_v2">>)
    \o DropColumns(Logs("logs_v2"), <<"body_promoted", "body_v2">>)
    \o DropTables("signoz_metadata", <<"distributed_field_keys", "field_keys">>)

Logs2001 ==
    <<M(2001, Logs2001Up, Logs2001Down)>>

\* Mutant: the distributed table is changed first.
Logs2002_DistributedFirst ==
    <<M(2002,
           AddColumns(Logs("distributed_logs_v2"), <<"inserted_at">>)
        \o AddColumns(Logs("logs_v2"), <<"inserted_at">>),
         <<>>)>>

\* Mutant: the distributed table is forgotten.
Logs2002_LocalOnly ==
    <<M(2002, AddColumns(Logs("logs_v2"), <<"inserted_at", "created_at">>), <<>>)>>

Logs2002 ==
    <<M(2002,
           AddColumns(Logs("logs_v2"), <<"inserted_at">>)
        \o AddColumns(Logs("distributed_logs_v2"), <<"inserted_at">>)
        \o AddColumns(Logs("logs_v2"), <<"created_at">>)
        \o AddColumns(Logs("distributed_logs_v2"), <<"created_at">>),
           DropColumns(Logs("distributed_logs_v2"), <<"inserted_at">>)
        \o DropColumns(Logs("logs_v2"), <<"inserted_at">>)
        \o DropColumns(Logs("distributed_logs_v2"), <<"created_at">>)
        \o DropColumns(Logs("logs_v2"), <<"created_at">>))>>

LogsMigrations ==
       Logs1000To1001
    \o Logs1002To1005
    \o Logs2001
    \o Logs2002

-----------------------------------------------------------------------------
(* metrics *)

MetadataColumns ==
    {"attr_datatype", "attr_name", "attr_string_value", "attr_type", "description",
     "first_reported_unix_milli", "is_monotonic", "last_reported_unix_milli", "metric_name",
     "temporality", "type", "unit"}

TimeSeriesV46hrsMvSeparateAttrsReads ==
    {"attrs", "description", "env", "fingerprint", "is_monotonic", "labels", "metric_name",
     "resource_attrs", "scope_attrs", "temporality", "type", "unit", "unix_milli"}

TimeSeriesV46hrsMvReads ==
    {"__normalized", "description", "env", "fingerprint", "is_monotonic", "labels",
     "metric_name", "temporality", "type", "unit", "unix_milli"}

TimeSeriesV46hrsMvSeparateAttrsReads1001 ==
    {"__normalized", "attrs", "description", "env", "fingerprint", "is_monotonic", "labels",
     "metric_name", "resource_attrs", "scope_attrs", "temporality", "type", "unit",
     "unix_milli"}

UpdatedMetadataColumns ==
    {"created_at", "description", "is_monotonic", "metric_name", "temporality", "type", "unit"}

SamplesV4Agg5mMvReads ==
    {"env", "fingerprint", "flags", "metric_name", "temporality", "unix_milli", "value"}

SamplesV4BufferColumns ==
    {"env", "fingerprint", "flags", "inserted_at_unix_milli", "is_monotonic", "metric_name",
     "reduced_fingerprint", "temporality", "unix_milli", "value"}

TimeSeriesV4BufferColumns ==
    {"__normalized", "attrs", "description", "env", "fingerprint", "inserted_at_unix_milli",
     "is_monotonic", "is_reduced", "labels", "metric_name", "reduced_fingerprint",
     "resource_attrs", "scope_attrs", "temporality", "type", "unit", "unix_milli"}

TimeSeriesV4ReducedColumns ==
    {"__normalized", "attrs", "description", "env", "fingerprint", "inserted_at_unix_milli",
     "is_monotonic", "labels", "metric_name", "resource_attrs", "scope_attrs", "temporality",
     "type", "unit", "unix_milli"}

SamplesV4ReducedLast60sColumns ==
    {"computed_at", "count_samples", "count_series", "env", "max", "metric_name", "min",
     "reduced_fingerprint", "sum_last", "sum_values", "temporality", "unix_milli"}

SamplesV4ReducedSum60sColumns ==
    {"computed_at", "count_samples", "count_series", "env", "metric_name",
     "reduced_fingerprint", "sum", "temporality", "unix_milli"}

MetricReductionRulesColumns ==
    {"deleted", "effective_from_unix_milli", "labels", "match_type", "metric_name",
     "updated_at"}

SamplesV4MvReads ==
    {"env", "fingerprint", "flags", "inserted_at_unix_milli", "metric_name",
     "reduced_fingerprint", "temporality", "unix_milli", "value"}

SamplesV4MvWrites ==
    {"env", "fingerprint", "flags", "inserted_at_unix_milli", "metric_name", "temporality",
     "unix_milli", "value"}

TimeSeriesV4ReducedMvReads ==
    {"__normalized", "attrs", "description", "env", "fingerprint", "inserted_at_unix_milli",
     "is_monotonic", "is_reduced", "labels", "metric_name", "resource_attrs", "scope_attrs",
     "temporality", "type", "unit", "unix_milli"}

SamplesV4ReducedLast60sMvReads ==
    {"env", "fingerprint", "flags", "is_monotonic", "metric_name", "reduced_fingerprint",
     "temporality", "unix_milli", "value"}

SamplesV4ReducedSum60sDeltaMvReads ==
    {"env", "fingerprint", "flags", "metric_name", "reduced_fingerprint", "temporality",
     "unix_milli", "value"}

SamplesV4ReducedLast5mColumns ==
    {"computed_at", "count", "count_samples", "env", "last", "max", "metric_name", "min",
     "reduced_fingerprint", "sum", "sum_count_series", "sum_values", "temporality",
     "unix_milli"}

SamplesV4ReducedSum5mColumns ==
    {"computed_at", "count", "count_samples", "env", "metric_name", "reduced_fingerprint",
     "sum", "sum_count_series", "temporality", "unix_milli"}

SamplesV4ReducedLast5mMvReads ==
    {"count_samples", "count_series", "env", "max", "metric_name", "min", "reduced_fingerprint",
     "sum_last", "sum_values", "temporality", "unix_milli"}

SamplesV4ReducedSum5mMvReads ==
    {"count_samples", "count_series", "env", "metric_name", "reduced_fingerprint", "sum",
     "temporality", "unix_milli"}

SamplesV4ReducedLast30mMvReads ==
    {"count", "count_samples", "env", "last", "max", "metric_name", "min",
     "reduced_fingerprint", "sum", "sum_count_series", "sum_values", "temporality",
     "unix_milli"}

SamplesV4ReducedSum30mMvReads ==
    {"count", "count_samples", "env", "metric_name", "reduced_fingerprint", "sum",
     "sum_count_series", "temporality", "unix_milli"}

Metrics1000UpA ==
       AddColumns(Metrics("time_series_v4"), <<"attrs", "scope_attrs", "resource_attrs">>)
    \o AddColumns(Metrics("distributed_time_series_v4"), <<"attrs", "scope_attrs",
           "resource_attrs">>)
    \o AddColumns(Metrics("time_series_v4_6hrs"), <<"attrs", "scope_attrs", "resource_attrs">>)

Metrics1000UpB ==
       AddColumns(Metrics("distributed_time_series_v4_6hrs"), <<"attrs", "scope_attrs",
           "resource_attrs">>)
    \o AddColumns(Metrics("time_series_v4_1day"), <<"attrs", "scope_attrs", "resource_attrs">>)
    \o AddColumns(Metrics("distributed_time_series_v4_1day"), <<"attrs", "scope_attrs",
           "resource_attrs">>)

Metrics1000UpC ==
       AddColumns(Metrics("time_series_v4_1week"), <<"attrs", "scope_attrs", "resource_attrs">>)
    \o AddColumns(Metrics("distributed_time_series_v4_1week"), <<"attrs", "scope_attrs",
           "resource_attrs">>)
    \o CreateTable(Metrics("metadata"), MetadataColumns)
    \o CreateDistributed(Metrics("distributed_metadata"), Metrics("metadata"), MetadataColumns)

Metrics1000UpD ==
       CreateView(Metrics("time_series_v4_6hrs_mv_separate_attrs"),
           Metrics("time_series_v4_6hrs"), Metrics("time_series_v4"),
           TimeSeriesV46hrsMvSeparateAttrsReads, TimeSeriesV46hrsMvSeparateAttrsReads)
    \o CreateView(Metrics("time_series_v4_1day_mv_separate_attrs"),
           Metrics("time_series_v4_1day"), Metrics("time_series_v4_6hrs"),
           TimeSeriesV46hrsMvSeparateAttrsReads, TimeSeriesV46hrsMvSeparateAttrsReads)
    \o CreateView(Metrics("time_series_v4_1week_mv_separate_attrs"),
           Metrics("time_series_v4_1week"), Metrics("time_series_v4_1day"),
           TimeSeriesV46hrsMvSeparateAttrsReads, TimeSeriesV46hrsMvSeparateAttrsReads)

Metrics1000 ==
    <<M(1000, Metrics1000UpA \o Metrics1000UpB \o Metrics1000UpC \o Metrics1000UpD, <<>>)>>

Metrics1001UpA ==
       AddColumns(Metrics("time_series_v4"), <<"__normalized">>)
    \o AddColumns(Metrics("distributed_time_series_v4"), <<"__normalized">>)
    \o AddColumns(Metrics("time_series_v4_6hrs"), <<"__normalized">>)
    \o AddColumns(Metrics("distributed_time_series_v4_6hrs"), <<"__normalized">>)
    \o AddColumns(Metrics("time_series_v4_1day"), <<"__normalized">>)
    \o AddColumns(Metrics("distributed_time_series_v4_1day"), <<"__normalized">>)
    \o AddColumns(Metrics("time_series_v4_1week"), <<"__normalized">>)
    \o AddColumns(Metrics("distributed_time_series_v4_1week"), <<"__normalized">>)
    \o ModifyQuery(Metrics("time_series_v4_6hrs_mv"), Metrics("time_series_v4"),
           TimeSeriesV46hrsMvReads, TimeSeriesV46hrsMvReads)
    \o ModifyQuery(Metrics("time_series_v4_1day_mv"), Metrics("time_series_v4_6hrs"),
           TimeSeriesV46hrsMvReads, TimeSeriesV46hrsMvReads)
    \o ModifyQuery(Metrics("time_series_v4_1week_mv"), Metrics("time_series_v4_1day"),
           TimeSeriesV46hrsMvReads, TimeSeriesV46hrsMvReads)

Metrics1001UpB ==
       ModifyQuery(Metrics("time_series_v4_6hrs_mv_separate_attrs"), Metrics("time_series_v4"),
           TimeSeriesV46hrsMvSeparateAttrsReads1001, TimeSeriesV46hrsMvSeparateAttrsReads1001)
    \o ModifyQuery(Metrics("time_series_v4_1day_mv_separate_attrs"),
           Metrics("time_series_v4_6hrs"), TimeSeriesV46hrsMvSeparateAttrsReads1001,
           TimeSeriesV46hrsMvSeparateAttrsReads1001)
    \o ModifyQuery(Metrics("time_series_v4_1week_mv_separate_attrs"),
           Metrics("time_series_v4_1day"), TimeSeriesV46hrsMvSeparateAttrsReads1001,
           TimeSeriesV46hrsMvSeparateAttrsReads1001)

Metrics1001 ==
    <<M(1001, Metrics1001UpA \o Metrics1001UpB, <<>>)>>

Metrics1002To1003 ==
    <<M(1002,
           CreateTable(Metrics("updated_metadata"), UpdatedMetadataColumns)
        \o CreateDistributed(Metrics("distributed_updated_metadata"),
               Metrics("updated_metadata"), UpdatedMetadataColumns),
         <<>>),
      M(1003,
           AddColumns(Metrics("samples_v4"), <<"flags">>)
        \o AddColumns(Metrics("distributed_samples_v4"), <<"flags">>)
        \o AddColumns(Metrics("exp_hist"), <<"flags">>)
        \o AddColumns(Metrics("distributed_exp_hist"), <<"flags">>)
        \o ModifyQuery(Metrics("samples_v4_agg_5m_mv"), Metrics("samples_v4"),
               SamplesV4Agg5mMvReads, SamplesV4Agg5mColumns)
        \o ModifyQuery(Metrics("samples_v4_agg_30m_mv"), Metrics("samples_v4_agg_5m"),
               SamplesV4Agg5mColumns, SamplesV4Agg5mColumns),
         <<>>)>>

Metrics1004To1006 ==
    <<M(1004,
           ModifyQuery(Metrics("time_series_v4_6hrs_mv"), Metrics("time_series_v4"),
               TimeSeriesV46hrsMvSeparateAttrsReads1001,
               TimeSeriesV46hrsMvSeparateAttrsReads1001)
        \o ModifyQuery(Metrics("time_series_v4_1day_mv"), Metrics("time_series_v4_6hrs"),
               TimeSeriesV46hrsMvSeparateAttrsReads1001,
               TimeSeriesV46hrsMvSeparateAttrsReads1001)
        \o ModifyQuery(Metrics("time_series_v4_1week_mv"), Metrics("time_series_v4_1day"),
               TimeSeriesV46hrsMvSeparateAttrsReads1001,
               TimeSeriesV46hrsMvSeparateAttrsReads1001),
         <<>>),
      M(1005, DropTables("signoz_metrics", <<"time_series_v4_6hrs_mv_separate_attrs",
         "time_series_v4_1day_mv_separate_attrs", "time_series_v4_1week_mv_separate_attrs">>),
         <<>>),
      M(1006,
           DropIndex(Metrics("time_series_v4"))
        \o DropIndex(Metrics("time_series_v4_6hrs"))
        \o DropIndex(Metrics("time_series_v4_1day"))
        \o DropIndex(Metrics("time_series_v4_1week")),
         <<>>)>>

Metrics1007 ==
    <<M(1007,
           AddColumns(Metrics("samples_v4"), <<"inserted_at_unix_milli">>)
        \o AddColumns(Metrics("distributed_samples_v4"), <<"inserted_at_unix_milli">>)
        \o AddColumns(Metrics("time_series_v4"), <<"inserted_at_unix_milli">>)
        \o AddColumns(Metrics("distributed_time_series_v4"), <<"inserted_at_unix_milli">>)
        \o AddColumns(Metrics("exp_hist"), <<"inserted_at_unix_milli">>)
        \o AddColumns(Metrics("distributed_exp_hist"), <<"inserted_at_unix_milli">>),
         <<>>)>>

Metrics1008UpA ==
       CreateTable(Metrics("samples_v4_buffer"), SamplesV4BufferColumns)
    \o CreateDistributed(Metrics("distributed_samples_v4_buffer"), Metrics("samples_v4_buffer"),
           SamplesV4BufferColumns)
    \o CreateTable(Metrics("time_series_v4_buffer"), TimeSeriesV4BufferColumns)
    \o CreateDistributed(Metrics("distributed_time_series_v4_buffer"),
           Metrics("time_series_v4_buffer"), TimeSeriesV4BufferColumns)

Metrics1008UpB ==
       CreateTable(Metrics("time_series_v4_reduced"), TimeSeriesV4ReducedColumns)
    \o CreateDistributed(Metrics("distributed_time_series_v4_reduced"),
           Metrics("time_series_v4_reduced"), TimeSeriesV4ReducedColumns)
    \o CreateTable(Metrics("samples_v4_reduced_last_60s"), SamplesV4ReducedLast60sColumns)
    \o CreateDistributed(Metrics("distributed_samples_v4_reduced_last_60s"),
           Metrics("samples_v4_reduced_last_60s"), SamplesV4ReducedLast60sColumns)
    \o CreateTable(Metrics("samples_v4_reduced_sum_60s"), SamplesV4ReducedSum60sColumns)

Metrics1008UpC ==
       CreateDistributed(Metrics("distributed_samples_v4_reduced_sum_60s"),
           Metrics("samples_v4_reduced_sum_60s"), SamplesV4ReducedSum60sColumns)
    \o CreateTable(Metrics("metric_reduction_rules"), MetricReductionRulesColumns)
    \o CreateDistributed(Metrics("distributed_metric_reduction_rules"),
           Metrics("metric_reduction_rules"), MetricReductionRulesColumns)
    \o CreateView(Metrics("samples_v4_mv"), Metrics("samples_v4"), Metrics("samples_v4_buffer"),
           SamplesV4MvReads, SamplesV4MvWrites)
    \o CreateView(Metrics("time_series_v4_mv"), Metrics("time_series_v4"),
           Metrics("time_series_v4_buffer"), TimeSeriesV4BufferColumns,
           TimeSeriesV4ReducedColumns)

Metrics1008UpD ==
       CreateView(Metrics("time_series_v4_reduced_mv"), Metrics("time_series_v4_reduced"),
           Metrics("time_series_v4_buffer"), TimeSeriesV4ReducedMvReads,
           TimeSeriesV4ReducedColumns)
    \o CreateRefreshableView(Metrics("samples_v4_reduced_last_60s_mv"),
           Metrics("samples_v4_reduced_last_60s"), Metrics("samples_v4_buffer"),
           SamplesV4ReducedLast60sMvReads, SamplesV4ReducedLast60sColumns)

Metrics1008UpE ==
       CreateRefreshableView(Metrics("samples_v4_reduced_sum_60s_delta_mv"),
           Metrics("samples_v4_reduced_sum_60s"), Metrics("samples_v4_buffer"),
           SamplesV4ReducedSum60sDeltaMvReads, SamplesV4ReducedSum60sColumns)

Metrics1008UpF ==
       CreateRefreshableView(Metrics("samples_v4_reduced_sum_60s_cumulative_mv"),
           Metrics("samples_v4_reduced_sum_60s"), Metrics("samples_v4_buffer"),
           SamplesV4ReducedLast60sMvReads, SamplesV4ReducedSum60sColumns)

Metrics1008 ==
    <<M(1008,
         Metrics1008UpA \o Metrics1008UpB \o Metrics1008UpC \o Metrics1008UpD
         \o Metrics1008UpE \o Metrics1008UpF,
         DropTables("signoz_metrics", <<"samples_v4_reduced_sum_60s_cumulative_mv",
         "samples_v4_reduced_sum_60s_delta_mv", "samples_v4_reduced_last_60s_mv",
         "time_series_v4_reduced_mv", "time_series_v4_mv", "samples_v4_mv",
         "distributed_metric_reduction_rules", "metric_reduction_rules",
         "distributed_samples_v4_reduced_sum_60s", "samples_v4_reduced_sum_60s",
         "distributed_samples_v4_reduced_last_60s", "samples_v4_reduced_last_60s",
         "distributed_time_series_v4_reduced", "time_series_v4_reduced",
         "distributed_time_series_v4_buffer", "time_series_v4_buffer",
         "distributed_samples_v4_buffer", "samples_v4_buffer">>))>>

Metrics1009UpA ==
       CreateTable(Metrics("samples_v4_reduced_last_5m"), SamplesV4ReducedLast5mColumns)
    \o CreateDistributed(Metrics("distributed_samples_v4_reduced_last_5m"),
           Metrics("samples_v4_reduced_last_5m"), SamplesV4ReducedLast5mColumns)
    \o CreateTable(Metrics("samples_v4_reduced_sum_5m"), SamplesV4ReducedSum5mColumns)
    \o CreateDistributed(Metrics("distributed_samples_v4_reduced_sum_5m"),
           Metrics("samples_v4_reduced_sum_5m"), SamplesV4ReducedSum5mColumns)
    \o CreateTable(Metrics("samples_v4_reduced_last_30m"), SamplesV4ReducedLast5mColumns)

Metrics1009UpB ==
       CreateDistributed(Metrics("distributed_samples_v4_reduced_last_30m"),
           Metrics("samples_v4_reduced_last_30m"), SamplesV4ReducedLast5mColumns)
    \o CreateTable(Metrics("samples_v4_reduced_sum_30m"), SamplesV4ReducedSum5mColumns)
    \o CreateDistributed(Metrics("distributed_samples_v4_reduced_sum_30m"),
           Metrics("samples_v4_reduced_sum_30m"), SamplesV4ReducedSum5mColumns)
    \o CreateTable(Metrics("time_series_v4_reduced_1day"), TimeSeriesV4ReducedColumns)
    \o CreateDistributed(Metrics("distributed_time_series_v4_reduced_1day"),
           Metrics("time_series_v4_reduced_1day"), TimeSeriesV4ReducedColumns)

Metrics1009 ==
    <<M(1009, Metrics1009UpA \o Metrics1009UpB, DropTables("signoz_metrics",
         <<"distributed_time_series_v4_reduced_1day", "time_series_v4_reduced_1day",
         "distributed_samples_v4_reduced_sum_30m", "samples_v4_reduced_sum_30m",
         "distributed_samples_v4_reduced_last_30m", "samples_v4_reduced_last_30m",
         "distributed_samples_v4_reduced_sum_5m", "samples_v4_reduced_sum_5m",
         "distributed_samples_v4_reduced_last_5m", "samples_v4_reduced_last_5m">>))>>

Metrics1010 ==
    <<M(1010,
           ModifySettings(Metrics("samples_v4_reduced_last_60s"))
        \o ModifySettings(Metrics("samples_v4_reduced_sum_60s"))
        \o ModifySettings(Metrics("time_series_v4_reduced")),
         <<>>)>>

Metrics1011UpA ==
       CreateRefreshableView(Metrics("samples_v4_reduced_last_5m_mv"),
           Metrics("samples_v4_reduced_last_5m"), Metrics("samples_v4_reduced_last_60s"),
           SamplesV4ReducedLast5mMvReads, SamplesV4ReducedLast5mColumns)
    \o CreateRefreshableView(Metrics("samples_v4_reduced_sum_5m_mv"),
           Metrics("samples_v4_reduced_sum_5m"), Metrics("samples_v4_reduced_sum_60s"),
           SamplesV4ReducedSum5mMvReads, SamplesV4ReducedSum5mColumns)

Metrics1011UpB ==
       CreateRefreshableView(Metrics("samples_v4_reduced_last_30m_mv"),
           Metrics("samples_v4_reduced_last_30m"), Metrics("samples_v4_reduced_last_5m"),
           SamplesV4ReducedLast30mMvReads, SamplesV4ReducedLast5mColumns)
    \o CreateRefreshableView(Metrics("samples_v4_reduced_sum_30m_mv"),
           Metrics("samples_v4_reduced_sum_30m"), Metrics("samples_v4_reduced_sum_5m"),
           SamplesV4ReducedSum30mMvReads, SamplesV4ReducedSum5mColumns)

Metrics1011UpC ==
       CreateView(Metrics("time_series_v4_reduced_1day_mv"),
           Metrics("time_series_v4_reduced_1day"), Metrics("time_series_v4_reduced"),
           TimeSeriesV4ReducedColumns, TimeSeriesV4ReducedColumns)

Metrics1011 ==
    <<M(1011, Metrics1011UpA \o Metrics1011UpB \o Metrics1011UpC, DropTables("signoz_metrics",
         <<"time_series_v4_reduced_1day_mv", "samples_v4_reduced_sum_30m_mv",
         "samples_v4_reduced_last_30m_mv", "samples_v4_reduced_sum_5m_mv",
         "samples_v4_reduced_last_5m_mv">>))>>

MetricsMigrations ==
       Metrics1000
    \o Metrics1001
    \o Metrics1002To1003
    \o Metrics1004To1006
    \o Metrics1007
    \o Metrics1008
    \o Metrics1009
    \o Metrics1010
    \o Metrics1011

-----------------------------------------------------------------------------
(* metadata *)

AttributesMetadataColumns ==
    {"attributes", "attrs_fingerprint", "data_source", "resource_attributes",
     "resource_fingerprint", "unix_milli"}

ColumnEvolutionMetadataColumns ==
    {"column_name", "column_type", "field_context", "field_name", "release_time", "signal",
     "version"}

Metadata1000To1001 ==
    <<M(1000,
           CreateTable(Metadata("attributes_metadata"), AttributesMetadataColumns)
        \o CreateDistributed(Metadata("distributed_attributes_metadata"),
               Metadata("attributes_metadata"), AttributesMetadataColumns),
         DropTables("signoz_metadata",
             <<"distributed_attributes_metadata", "attributes_metadata">>)),
      M(1001,
           CreateTable(Metadata("column_evolution_metadata"), ColumnEvolutionMetadataColumns)
        \o CreateDistributed(Metadata("distributed_column_evolution_metadata"),
               Metadata("column_evolution_metadata"), ColumnEvolutionMetadataColumns)
        \o InsertInto(Metadata("distributed_column_evolution_metadata"),
               ColumnEvolutionMetadataColumns)
        \o InsertInto(Metadata("distributed_column_evolution_metadata"),
               ColumnEvolutionMetadataColumns)
        \o InsertInto(Metadata("distributed_column_evolution_metadata"),
               ColumnEvolutionMetadataColumns)
        \o InsertInto(Metadata("distributed_column_evolution_metadata"),
               ColumnEvolutionMetadataColumns),
         DropTables("signoz_metadata", <<"distributed_column_evolution_metadata",
             "column_evolution_metadata">>))>>

Metadata1002 ==
    <<M(1002, InsertInto(Metadata("distributed_column_evolution_metadata"),
         ColumnEvolutionMetadataColumns), <<>>)>>

MetadataMigrations ==
    Metadata1000To1001 \o Metadata1002

-----------------------------------------------------------------------------
(* analytics *)

RuleStateHistoryV0Columns ==
    {"_retention_days", "fingerprint", "labels", "overall_state", "overall_state_changed",
     "rule_id", "rule_name", "state", "state_changed", "unix_milli", "value"}

DistributedRuleStateHistoryV0Columns1 ==
    {"fingerprint", "labels", "overall_state", "overall_state_changed", "rule_id", "rule_name",
     "state", "state_changed", "unix_milli", "value"}

Analytics1 ==
    <<M(1,
           CreateTable(Analytics("rule_state_history_v0"), RuleStateHistoryV0Columns)
        \o CreateDistributed(Analytics("distributed_rule_state_history_v0"),
               Analytics("rule_state_history_v0"), DistributedRuleStateHistoryV0Columns1),
         DropTables("signoz_analytics",
             <<"distributed_rule_state_history_v0", "rule_state_history_v0">>))>>

AnalyticsMigrations ==
    Analytics1

-----------------------------------------------------------------------------
(* meter *)

SamplesColumns ==
    {"description", "fingerprint", "is_monotonic", "labels", "metric_name", "temporality",
     "type", "unit", "unix_milli", "value"}

SamplesAgg1dColumns ==
    {"count", "description", "fingerprint", "is_monotonic", "labels", "last", "max",
     "metric_name", "min", "sum", "temporality", "type", "unit", "unix_milli"}

Meter1To4 ==
    <<M(1, CreateTable(Meter("samples"), SamplesColumns), DropTable(Meter("samples"))),
      M(2, CreateDistributed(Meter("distributed_samples"), Meter("samples"), SamplesColumns),
         DropTable(Meter("distributed_samples"))),
      M(3, CreateTable(Meter("samples_agg_1d"), SamplesAgg1dColumns),
         DropTable(Meter("samples_agg_1d"))),
      M(4, CreateDistributed(Meter("distributed_samples_agg_1d"), Meter("samples_agg_1d"),
         SamplesAgg1dColumns), DropTable(Meter("distributed_samples_agg_1d")))>>

Meter5 ==
    <<M(5, CreateView(Meter("samples_agg_1d_mv"), Meter("samples_agg_1d"), Meter("samples"),
         SamplesColumns, SamplesAgg1dColumns), DropTable(Meter("samples_agg_1d_mv")))>>

MeterMigrations ==
    Meter1To4 \o Meter5

=============================================================================
