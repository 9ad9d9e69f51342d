---------------------------- MODULE MetricsEngines ----------------------------
(***************************************************************************)
(* The metrics engines (metrics/core.go, influx.go, prometheus.go and      *)
(* preload.go): which engines the configuration creates, the series each   *)
(* registers, and the series each of the 25 Record methods adds to.        *)
(*                                                                         *)
(* A series is a pair: for InfluxDB the two parts of its name, for         *)
(* Prometheus the metric and the value of its one label ("-" without one). *)
(* Of a duration or a size the model keeps that it was observed.           *)
(***************************************************************************)
EXTENDS Integers, Sequences

\* CreateMetrics with an "else if".
EngineListOfOne(metrics) ==
    IF metrics.influx THEN <<"InfluxDB">>
    ELSE IF metrics.prometheus THEN <<"Prometheus">> ELSE <<>>

\* CreateMetrics
EngineList(metrics) ==
    (IF metrics.influx THEN <<"InfluxDB">> ELSE <<>>)
    \o (IF metrics.prometheus THEN <<"Prometheus">> ELSE <<>>)

\* Metrics.GetEngineRegistry: the engine of that name, or nil.
GetEngineRegistry(engines, name) ==
    IF \E i \in DOMAIN engines : engines[i] = name THEN name ELSE "nil"

InfluxEntryGet == {"request_duration", "error_count", "bad_request_count", "request_count"}

\* CreateInfluxMetrics: the registry.
InfluxRegistered ==
    ({"puts.current_url"} \X (InfluxEntryGet \cup {"updated_key_count"}))
    \cup ({"gets.current_url", "gets.backend"} \X InfluxEntryGet)
    \cup ({"puts.backend"} \X {"request_duration", "error_count", "bad_request_count",
                               "json_request_count", "xml_request_count",
                               "unknown_request_count", "request_size_bytes",
                               "request_ttl_seconds"})
    \cup ({"gets.backend_error"} \X {"key_not_found", "missing_key"})
    \cup ({"connections"} \X {"active_incoming", "accept_errors", "close_errors"})

\* InfluxMetrics.Record*
InfluxSeries ==
    [PutError             |-> <<"puts.current_url", "error_count">>,
     PutBadRequest        |-> <<"puts.current_url", "bad_request_count">>,
     PutTotal             |-> <<"puts.current_url", "request_count">>,
     PutDuration          |-> <<"puts.current_url", "request_duration">>,
     PutKeyProvided       |-> <<"puts.current_url", "updated_key_count">>,
     GetError             |-> <<"gets.current_url", "error_count">>,
     GetBadRequest        |-> <<"gets.current_url", "bad_request_count">>,
     GetTotal             |-> <<"gets.current_url", "request_count">>,
     GetDuration          |-> <<"gets.current_url", "request_duration">>,
     PutBackendXml        |-> <<"puts.backend", "xml_request_count">>,
     PutBackendJson       |-> <<"puts.backend", "json_request_count">>,
     PutBackendInvalid    |-> <<"puts.backend", "unknown_request_count">>,
     PutBackendDuration   |-> <<"puts.backend", "request_duration">>,
     PutBackendTTLSeconds |-> <<"puts.backend", "request_ttl_seconds">>,
     PutBackendError      |-> <<"puts.backend", "error_count">>,
     PutBackendSize       |-> <<"puts.backend", "request_size_bytes">>,
     GetBackendTotal      |-> <<"gets.backend", "request_count">>,
     GetBackendDuration   |-> <<"gets.backend", "request_duration">>,
     GetBackendError      |-> <<"gets.backend", "error_count">>,
     KeyNotFoundError     |-> <<"gets.backend_error", "key_not_found">>,
     MissingKeyError      |-> <<"gets.backend_error", "missing_key">>,
     ConnectionOpen       |-> <<"connections", "active_incoming">>,
     ConnectionClosed     |-> <<"connections", "active_incoming">>,
     CloseConnectionErrors  |-> <<"connections", "close_errors">>,
     AcceptConnectionErrors |-> <<"connections", "accept_errors">>]

Event == DOMAIN InfluxSeries

\* The metrics of CreatePrometheusMetrics that have no label.
PrometheusUnlabelled ==
    {"puts_request_duration", "gets_request_duration", "puts_backend_duration",
     "puts_backend_request_size_bytes", "puts_backend_request_ttl", "gets_backend_duration",
     "connection_opened", "connection_closed"} \X {"-"}

\* preloadLabelValues without the custom keys.
PreloadedWithoutKeys ==
    ({"puts_request"} \X {"error", "bad_request", "total"})
    \cup ({"gets_request", "gets_backend"} \X {"error", "bad_request", "total"})
    \cup ({"puts_backend"} \X {"xml", "json", "invalid_format", "error"})
    \cup ({"gets_backend_error"} \X {"key_not_found", "missing_key"})
    \cup ({"connection_error"} \X {"close", "accept"})

\* preloadLabelValues
Preloaded ==
    ({"puts_request"} \X {"error", "bad_request", "total", "custom_key"})
    \cup ({"gets_request", "gets_backend"} \X {"error", "bad_request", "total"})
    \cup ({"puts_backend"} \X {"xml", "json", "invalid_format", "error"})
    \cup ({"gets_backend_error"} \X {"key_not_found", "missing_key"})
    \cup ({"connection_error"} \X {"close", "accept"})

\* PrometheusMetrics.Record*
PrometheusSeries ==
    [PutError             |-> <<"puts_request", "error">>,
     PutBadRequest        |-> <<"puts_request", "bad_request">>,
     PutTotal             |-> <<"puts_request", "total">>,
     PutDuration          |-> <<"puts_request_duration", "-">>,
     PutKeyProvided       |-> <<"puts_request", "custom_key">>,
     GetError             |-> <<"gets_request", "error">>,
     GetBadRequest        |-> <<"gets_request", "bad_request">>,
     GetTotal             |-> <<"gets_request", "total">>,
     GetDuration          |-> <<"gets_request_duration", "-">>,
     PutBackendXml        |-> <<"puts_backend", "xml">>,
     PutBackendJson       |-> <<"puts_backend", "json">>,
     PutBackendInvalid    |-> <<"puts_backend", "invalid_format">>,
     PutBackendDuration   |-> <<"puts_backend_duration", "-">>,
     PutBackendTTLSeconds |-> <<"puts_backend_request_ttl", "-">>,
     PutBackendError      |-> <<"puts_backend", "error">>,
     PutBackendSize       |-> <<"puts_backend_request_size_bytes", "-">>,
     GetBackendTotal      |-> <<"gets_backend", "total">>,
     GetBackendDuration   |-> <<"gets_backend_duration", "-">>,
     GetBackendError      |-> <<"gets_backend", "error">>,
     KeyNotFoundError     |-> <<"gets_backend_error", "key_not_found">>,
     MissingKeyError      |-> <<"gets_backend_error", "missing_key">>,
     ConnectionOpen       |-> <<"connection_opened", "-">>,
     ConnectionClosed     |-> <<"connection_closed", "-">>,
     CloseConnectionErrors  |-> <<"connection_error", "close">>,
     AcceptConnectionErrors |-> <<"connection_error", "accept">>]

\* What an engine publishes when it has been created.
Registered(engine) ==
    [s \in IF engine = "InfluxDB" THEN InfluxRegistered ELSE PrometheusUnlabelled \cup Preloaded
       |-> 0]

\* A gauge of connections that nothing takes from.
StepUp(engine, event) == 1

\* Counters of Prometheus that go down as well, which its Counters cannot.
StepDown(engine, event) == IF event = "ConnectionClosed" THEN -1 ELSE 1

\* ActiveConnections is the one counter that goes down.
Step(engine, event) ==
    IF engine = "InfluxDB" /\ event = "ConnectionClosed" THEN -1 ELSE 1

\* The series an engine's Record method adds to.
SeriesOf(engine, event) ==
    IF engine = "InfluxDB" THEN InfluxSeries[event] ELSE PrometheusSeries[event]

\* One engine's Record method: a label value that is new makes a new series.
Recorded(engine, series, event) ==
    LET known == [s \in DOMAIN series \cup {SeriesOf(engine, event)} |->
                    IF s \in DOMAIN series THEN series[s] ELSE 0] IN
    [known EXCEPT ![SeriesOf(engine, event)] = @ + Step(engine, event)]

\* What the series of an engine say of the number of times an event occurred.
Reading(engine, series, event) == series[SeriesOf(engine, event)]
=============================================================================
