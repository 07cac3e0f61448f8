------------------------------ MODULE WireTypes ------------------------------
(***************************************************************************)
(* The types of the SCM v1 wire contract as the generated Rust bindings    *)
(* declare them (rust/src/scm-contracts/src/generated): one definition per *)
(* declaration, a function from its members to their types.                *)
(*                                                                         *)
(* A type names what one value is (`of`: a scalar or a declaration),       *)
(* whether a member holds one of them or a list (`shape`), whether it may  *)
(* be null, whether it must be present, and the bounds on the length of a  *)
(* list.  The records whose members have no fixed names are declared with  *)
(* one member, `entry`, that stands for each of them.                      *)
(***************************************************************************)
EXTENDS Naturals

(* The bound that stands for "no maxItems"; longer than any list in use.   *)
Unbounded == 1000000

Of(what)       == [of |-> what, shape |-> "one", null |-> FALSE, required |-> TRUE,
                   min |-> 0, max |-> Unbounded]
ListOf(what)   == [Of(what) EXCEPT !.shape = "list"]
OrNull(type)   == [type EXCEPT !.null = TRUE]
Optional(type) == [type EXCEPT !.required = FALSE]
Between(low, high, type) == [type EXCEPT !.min = low, !.max = high]

AllOf(what, members) == [m \in members |-> Of(what)]

(* The members of both: the operator of module TLC, which the provers do   *)
(* not know.                                                               *)
f @@ g == [m \in DOMAIN f \cup DOMAIN g |-> IF m \in DOMAIN f THEN f[m] ELSE g[m]]

----------------------------------------------------------------------------
(* The values of a document, one of each sort the readers tell apart.  A   *)
(* number is named by its literal: 2^64 is written as an integer, 2^64.0   *)
(* is the same number with a fraction or an exponent.  A wide time has the *)
(* form of a timestamp in digits that are not ASCII, an ended one is a     *)
(* timestamp and a line feed.                                              *)
Words    == {"ok", "partial", "not_found", "provider_error", "a text",
             "a time", "a wide time", "an ended time"}
Flags    == {"true", "false"}
Integers == {"0", "-0", "1", "2^31", "2^53-2", "2^53-1"}
Floats   == {"0.0", "-0.0", "0.5", "1.0", "2^31.0", "2^53-2.0", "2^53-1.0", "2^64.0"}
Numbers  == Integers \cup {"2^64"} \cup Floats

(* Neighbouring doubles whose literals have more digits than a double.     *)
Long == {"2^53-2.0", "2^53-1.0"}

(* Scalars of the contract, by the schema's name, and what they accept.    *)
EnvelopeStatus   == {"ok", "partial", "not_found", "provider_error"}
BatchItemStatus  == {"ok", "not_found", "provider_error"}
HealthResponseStatus == {"ok"}
(* Integral, by value, and within 2^53 - 1 of zero.                        *)
JsonInteger      == Integers \cup (Floats \ {"0.5", "2^64.0"})
(* Matches the date-time pattern, in the dialect of ECMAScript.            *)
Rfc3339Timestamp == {"a time"}
(* Anything, recursively.                                                  *)
JsonValue        == Words \cup Flags \cup Numbers \cup {"null", "[]", "{}"}

Scalars ==
  [text |-> Words, flag |-> Flags, true |-> {"true"}, number |-> Numbers,
   int32 |-> JsonInteger \ ({"2^31", "2^53-2", "2^53-1", "2^31.0"} \cup Long),
   JsonInteger |-> JsonInteger,
   Rfc3339Timestamp |-> Rfc3339Timestamp, EnvelopeStatus |-> EnvelopeStatus,
   BatchItemStatus |-> BatchItemStatus, HealthResponseStatus |-> HealthResponseStatus,
   JsonValue |-> JsonValue]

----------------------------------------------------------------------------
RecordJsonValue == [entry |-> Optional(Of("JsonValue"))]
ProviderRawData == [entry |-> Optional(Of("JsonValue"))]

PriceBreak == [qty |-> Of("JsonInteger"), unit_price |-> Of("number"), currency |-> Of("text")]

Part ==
  AllOf("text", {"supplier", "source_provider", "supplier_part_number", "manufacturer",
                 "manufacturer_part_number", "description", "datasheet_url", "product_url",
                 "stock_status", "lifecycle_status", "packaging"})
  @@ [stock_quantity |-> Of("JsonInteger"),
      price_breaks   |-> ListOf("PriceBreak"),
      extra_data     |-> OrNull(Of("ProviderRawData"))]

RateLimitSnapshot ==
  [m \in {"request_limit", "requests_remaining", "burst_limit", "burst_remaining",
          "reset_seconds", "retry_after_seconds"} |-> OrNull(Of("JsonInteger"))]
  @@ [reset_time |-> OrNull(Of("text")), observed_at |-> Of("Rfc3339Timestamp")]

ServiceErrorDetail ==
  [code                 |-> Of("text"),
   retryable            |-> Of("flag"),
   upstream_status_code |-> OrNull(Of("int32")),
   upstream_request_id  |-> OrNull(Of("text"))]

SupplierCapabilities ==
  AllOf("text", {"supplier", "provider_kind", "usage_unit"})
  @@ AllOf("flag", {"supports_mpn_search", "supports_keyword_search", "supports_spn_lookup",
                    "supports_native_spn_batch", "supports_quota_headers"})
  @@ [max_spn_batch_size           |-> Of("JsonInteger"),
      min_request_interval_seconds |-> Of("number"),
      rate_limit_per_minute        |-> OrNull(Of("JsonInteger")),
      rate_limit_per_day           |-> OrNull(Of("JsonInteger")),
      notes                        |-> ListOf("text")]

(* What every envelope carries beside its data.                            *)
EnvelopeMetadata ==
  [supplier              |-> Of("text"),
   parameter_field_name  |-> Of("text"),
   status                |-> Of("EnvelopeStatus"),
   provider_latency_ms   |-> Of("JsonInteger"),
   provider_capabilities |-> OrNull(Of("SupplierCapabilities")),
   rate_limit            |-> OrNull(Of("RateLimitSnapshot")),
   service_timestamp     |-> Of("Rfc3339Timestamp"),
   cached                |-> Of("flag"),
   error                 |-> OrNull(Of("text")),
   error_detail          |-> OrNull(Of("ServiceErrorDetail"))]

----------------------------------------------------------------------------
(* The roots of the catalog and the declarations only one of them uses.    *)
SearchEnvelope == EnvelopeMetadata @@ [data |-> OrNull(ListOf("Part"))]
DetailEnvelope == EnvelopeMetadata @@ [data |-> OrNull(Of("Part"))]
SpnEnvelope    == EnvelopeMetadata @@ [data |-> OrNull(Of("Part"))]

SpnBatchItem ==
  [spn    |-> Of("text"),
   status |-> Of("BatchItemStatus"),
   part   |-> OrNull(Of("Part")),
   error  |-> OrNull(Of("text"))]
SpnBatchEnvelope == EnvelopeMetadata @@ [data |-> OrNull(ListOf("SpnBatchItem"))]

SpnBatchRequest ==
  [supplier    |-> Of("text"),
   spns        |-> Between(1, 1000, ListOf("text")),
   include_raw |-> Optional(Of("flag"))]

ProviderStatusEntry ==
  [configured   |-> Of("flag"),
   backend      |-> Optional(Of("text")),
   capabilities |-> Of("SupplierCapabilities")]
RecordProviderStatusEntry == [entry |-> Optional(Of("ProviderStatusEntry"))]
ProviderStatusResponse    == [providers |-> Of("RecordProviderStatusEntry")]

HealthResponse  == [status |-> Of("HealthResponseStatus")]
StreamDoneEvent == [done |-> Of("true")]

(* anyOf two roots: whose members an event has says which it is.           *)
StreamSearchEvent == {"SearchEnvelope", "StreamDoneEvent"}

----------------------------------------------------------------------------
(* The enumeration ContractRoot, and the declarations with members.        *)
ContractRoot ==
  {"DetailEnvelope", "HealthResponse", "ProviderStatusResponse", "SearchEnvelope",
   "SpnBatchEnvelope", "SpnBatchRequest", "SpnEnvelope", "StreamDoneEvent",
   "StreamSearchEvent"}

Declared ==
  [DetailEnvelope |-> DetailEnvelope, HealthResponse |-> HealthResponse,
   ProviderStatusResponse |-> ProviderStatusResponse, SearchEnvelope |-> SearchEnvelope,
   SpnBatchEnvelope |-> SpnBatchEnvelope, SpnBatchRequest |-> SpnBatchRequest,
   SpnEnvelope |-> SpnEnvelope, StreamDoneEvent |-> StreamDoneEvent,
   Part |-> Part, PriceBreak |-> PriceBreak, ProviderRawData |-> ProviderRawData,
   RateLimitSnapshot |-> RateLimitSnapshot, ServiceErrorDetail |-> ServiceErrorDetail,
   SupplierCapabilities |-> SupplierCapabilities, SpnBatchItem |-> SpnBatchItem,
   ProviderStatusEntry |-> ProviderStatusEntry,
   RecordProviderStatusEntry |-> RecordProviderStatusEntry,
   RecordJsonValue |-> RecordJsonValue]

(* Records whose members are names the contract does not know.             *)
OpenRecords == {"ProviderRawData", "RecordJsonValue", "RecordProviderStatusEntry"}

(* The declarations a declaration mentions, and all it is made of.         *)
Mentions(d) ==
  IF d = "StreamSearchEvent" THEN StreamSearchEvent
  ELSE DOMAIN Declared \cap
         UNION {IF Declared[d][m].of = "JsonValue" THEN {"RecordJsonValue"}
                ELSE {Declared[d][m].of} : m \in DOMAIN Declared[d]}

(* No chain of mentions is longer than four: batch, item, part, raw data,  *)
(* record.                                                                 *)
Below(d) == LET Deeper(S) == S \cup UNION {Mentions(e) : e \in S}
            IN  Deeper(Deeper(Deeper(Deeper({d}))))
Within   == [root \in ContractRoot |-> Below(root)]
=============================================================================
