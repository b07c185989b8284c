--------------------------- MODULE PrometheusSink ---------------------------
(***************************************************************************)
(* Metrics: their registry in the frontend (core/MetricManager.h) and the  *)
(* sink that exports them (sinks/metrics/PrometheusSink.h).  The sink      *)
(* keeps three tables that have to agree, families, metrics and keys,      *)
(* beside what the Prometheus library keeps, its registry of families and  *)
(* the time series in them.  Every operation holds the sink's lock.        *)
(*                                                                         *)
(* A metric is its key, name and labels, a sequence of pairs.  A result    *)
(* says whether the call threw, and what it left.                          *)
(***************************************************************************)
EXTENDS TransitEvent

-----------------------------------------------------------------------------
(***************************************************************************)
(* MetricManager: a function from keys to metrics.                         *)
(***************************************************************************)

ValidMetric(m) == m.key # "" /\ m.name # ""

InsertMetric(metrics, m) == [k \in DOMAIN metrics \cup {m.key} |-> IF k = m.key THEN m ELSE metrics[k]]

\* create_metric throws for a key that exists.
CreateMetric(metrics, m) ==
  IF ValidMetric(m) /\ m.key \notin DOMAIN metrics THEN InsertMetric(metrics, m) ELSE metrics

\* create_or_get_metric ignores name and labels of a key that exists.
CreateOrGetMetric(metrics, m) ==
  IF ValidMetric(m) /\ m.key \notin DOMAIN metrics THEN InsertMetric(metrics, m) ELSE metrics

-----------------------------------------------------------------------------
(***************************************************************************)
(* PrometheusSink.                                                         *)
(***************************************************************************)

\* families: family key -> help and count; metrics: metric -> registration;
\* keys: key -> metric; endpoint: where to scrape, empty if not known.  Of the
\* library: registry, the families it was given, and series, the samples of
\* each family and labels.
EmptyPrometheusSink ==
  [families |-> <<>>, metrics |-> <<>>, keys |-> <<>>, endpoint |-> <<>>, registry |-> {}, series |-> <<>>]

-----------------------------------------------------------------------------
(***************************************************************************)
(* The exposer: a configuration gives the address to bind, or the options  *)
(* of the server (name, value, name, value ...), and the uri; ports are    *)
(* those that the server of the library listens on with it.                *)
(***************************************************************************)

Http == <<104, 116, 116, 112, Colon, Slash, Slash>>

LastColon(address) == LastOccurrence(address, <<Colon>>)
PortText(address) == SubSeq(address, LastColon(address) + 1, Len(address))

\* _can_form_scrape_endpoint: a host and a port.
CanFormScrapeEndpoint(address) ==
  /\ LastColon(address) > 1 /\ PortText(address) # <<>>
  /\ ToSet(PortText(address)) \subseteq 48..57

\* _bind_address_uses_ephemeral_port: the port is zero, the system chooses one.
UsesEphemeralPort(address) ==
  LastColon(address) # 0 /\ PortText(address) # <<>> /\ ToSet(PortText(address)) = {48}

ReplacePort(address, port) == SubSeq(address, 1, LastColon(address)) \o DecimalCodes(port)

\* _extract_listening_ports_option: the first of that name, without a comma.
ListeningPortsOption(options) ==
  LET at == {i \in 1..(Len(options) - 1) : i % 2 = 1 /\ options[i] = "listening_ports"}
      candidate == options[Min(at) + 1]
  IN  IF at = {} \/ 44 \in ToSet(candidate) \/ ~CanFormScrapeEndpoint(candidate) THEN Null ELSE candidate

ResolveScrapeBindAddress(config) ==
  CASE config.options # <<>> -> ListeningPortsOption(config.options)
    [] config.options = <<>> /\ CanFormScrapeEndpoint(config.address) -> config.address
    [] OTHER -> Null

ScrapeEndpoint(config, ports) ==
  LET address == ResolveScrapeBindAddress(config)
      chosen == IF UsesEphemeralPort(address) /\ ports # <<>> /\ Head(ports) > 0
                THEN ReplacePort(address, Head(ports)) ELSE address
  IN  IF address = Null THEN <<>> ELSE Http \o chosen \o config.uri

\* The constructor, with no configuration or with one, which it may refuse: the
\* program then makes the sink without.
RefusesExposer(config) == config.uri = <<>> \/ (config.options = <<>> /\ config.address = <<>>)
NewPrometheusSink(config) ==
  IF config = Null \/ RefusesExposer(config) THEN EmptyPrometheusSink
  ELSE [EmptyPrometheusSink EXCEPT !.endpoint = ScrapeEndpoint(config, config.ports)]

-----------------------------------------------------------------------------
(***************************************************************************)
(* Its metrics.                                                            *)
(***************************************************************************)

Without(f, x) == [y \in DOMAIN f \ {x} |-> f[y]]
With(f, x, v) == [y \in DOMAIN f \cup {x} |-> IF y = x THEN v ELSE f[y]]

LinearBuckets(start, width, count) == [i \in 1..count |-> start + (i - 1) * width]
ExponentialBuckets(start, factor, count) == [i \in 1..count |-> start * factor^(i - 1)]

HasMetric(p, key) == key \in DOMAIN p.keys

\* _make_metric_labels throws for a label that occurs twice.
LabelNames(labels) == {labels[i][1] : i \in DOMAIN labels}
UniqueLabels(labels) == Cardinality(LabelNames(labels)) = Len(labels)

\* _validate_prometheus_metadata; the library checks the names themselves.
CheckName(name) == name \notin {"", "not valid"}
ValidMetadata(m, constant) ==
  /\ CheckName(m.name)
  /\ \A l \in LabelNames(constant) \cup LabelNames(m.labels) : CheckName(l)
  /\ LabelNames(constant) \cap LabelNames(m.labels) = {}

FamilyKey(type, m, constant) == [type |-> type, name |-> m.name, constant |-> ToSet(constant)]

\* The library: a name has one type; unsorted boundaries of a histogram throw.
CanRegisterFamily(p, family) ==
  \A f \in p.registry : f.name = family.name => f.type = family.type
StrictlySorted(buckets) == \A i, j \in DOMAIN buckets : i < j => buckets[i] < buckets[j]

\* _get_or_create_family throws for another help text.
GetOrCreateFamily(p, family, help) ==
  IF family \in DOMAIN p.families THEN p
  ELSE [p EXCEPT !.families = With(@, family, [help |-> help, count |-> 0]),
                 !.registry = @ \cup {family}]

\* _register_metric.  A throwing adder leaves the family that was made for it.
RegisterMetric(p, m, type, help, constant, mode, buckets) ==
  LET family == FamilyKey(type, m, constant)
      labels == ToSet(m.labels)
      made == GetOrCreateFamily(p, family, help)
      refused == \/ ~UniqueLabels(m.labels) \/ ~ValidMetadata(m, constant)
                 \/ HasMetric(p, m.key)
                 \/ family \in DOMAIN p.families
                    /\ (<<family, labels>> \in DOMAIN p.series \/ p.families[family].help # help)
                 \/ ~CanRegisterFamily(p, family)
  IN  IF refused THEN p
      ELSE IF ~StrictlySorted(buckets) THEN made
      ELSE [made EXCEPT !.families[family].count = @ + 1,
                        !.metrics = With(@, m, [family |-> family, mode |-> mode]),
                        !.keys = With(@, m.key, m),
                        !.series = With(@, <<family, labels>>, <<>>)]

RegisterCounter(p, m, help, constant) == RegisterMetric(p, m, "counter", help, constant, "Add", <<>>)
RegisterGauge(p, m, help, mode, constant) == RegisterMetric(p, m, "gauge", help, constant, mode, <<>>)
RegisterHistogram(p, m, help, buckets, constant) ==
  RegisterMetric(p, m, "histogram", help, constant, "Observe", buckets)
RegisterSummary(p, m, help, constant) == RegisterMetric(p, m, "summary", help, constant, "Observe", <<>>)

\* _remove_metric_from_family
RemoveFromFamily(series, family, m) == Without(series, <<family, ToSet(m.labels)>>)

\* Mutant: the family is erased with any of its metrics.
EraseMetricAndFamily(p, m) ==
  LET family == p.metrics[m].family
  IN  [p EXCEPT !.series = RemoveFromFamily(@, family, m), !.families = Without(@, family),
                !.keys = Without(@, m.key), !.metrics = Without(@, m)]

\* _erase_metric: the family goes with its last metric, the library keeps it.
EraseMetric(p, m) ==
  LET family == p.metrics[m].family
      left == p.families[family].count - 1
  IN  [p EXCEPT !.series = RemoveFromFamily(@, family, m),
                !.families = IF left = 0 THEN Without(@, family) ELSE [@ EXCEPT ![family].count = left],
                !.keys = Without(@, m.key), !.metrics = Without(@, m)]

\* unregister_metric, by metric or by key.
UnregisterMetric(p, m) == IF m \in DOMAIN p.metrics THEN EraseMetric(p, m) ELSE p
UnregisterKey(p, key) == IF HasMetric(p, key) THEN EraseMetric(p, p.keys[key]) ELSE p

\* _apply_sample; the library adds up, sets or observes.
ApplySample(registered, samples, value) ==
  CASE registered.mode = "Set" -> <<value>>
    [] registered.mode = "Sub" -> Append(samples, -value)
    [] OTHER -> Append(samples, value)

\* write_metric: a late sample of a metric that is not registered is ignored.
WriteMetric(p, m, value) ==
  IF m \notin DOMAIN p.metrics THEN p
  ELSE [p EXCEPT !.series[<<p.metrics[m].family, ToSet(m.labels)>>] = ApplySample(p.metrics[m], @, value)]

-----------------------------------------------------------------------------

\* An endpoint that is shown has the only port that the server listens on.
EndpointServed(p, config) ==
  LET address == SubSeq(p.endpoint, Len(Http) + 1, Len(p.endpoint) - Len(config.uri))
      number == FoldLeft(LAMBDA n, c : 10 * n + c - 48, 0, PortText(address))
  IN  p.endpoint # <<>> => config.ports \in {<<>>, <<number>>}

\* The tables agree: every registered metric has its key, its family and a time
\* series of its own, and a family counts its metrics.
TablesAgree(p) ==
  /\ \A k \in DOMAIN p.keys : p.keys[k].key = k
  /\ {p.keys[k] : k \in DOMAIN p.keys} = DOMAIN p.metrics
  /\ \A m \in DOMAIN p.metrics :
       /\ p.metrics[m].family \in DOMAIN p.families
       /\ <<p.metrics[m].family, ToSet(m.labels)>> \in DOMAIN p.series
  /\ \A f \in DOMAIN p.families :
       p.families[f].count = Cardinality({m \in DOMAIN p.metrics : p.metrics[m].family = f})
  /\ Cardinality(DOMAIN p.series) = Cardinality(DOMAIN p.metrics)
=============================================================================
