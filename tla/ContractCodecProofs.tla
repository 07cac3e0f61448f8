------------------------- MODULE ContractCodecProofs -------------------------
(***************************************************************************)
(* Theorems about ContractCodec, for any of the catalog's roots and any    *)
(* number of readings and writings.  First what the generated types have   *)
(* in common, then what reading and writing one value does, then the       *)
(* invariant.                                                              *)
(***************************************************************************)
EXTENDS ContractCodec, TLAPS

----------------------------------------------------------------------------
(* The types.                                                              *)

(* Lists are of strings or records, a plain number is never null: what the *)
(* values of a member depend on.                                           *)
WireType ==
  {t \in [of : DOMAIN Scalars \cup DOMAIN Declared, shape : {"one", "list"},
          null : BOOLEAN, required : BOOLEAN, min : Nat, max : Nat] :
     /\ t.shape = "list" => t.of \notin DOMAIN Scalars \ {"text"}
     /\ t.of = "number" => ~t.null}

Typed(f, types) == \A m \in DOMAIN f : f[m] \in types

LEMMA NameSets ==
  /\ DOMAIN Scalars = {"text", "flag", "true", "number", "int32", "JsonInteger",
                       "Rfc3339Timestamp", "EnvelopeStatus", "BatchItemStatus",
                       "HealthResponseStatus", "JsonValue"}
  /\ DOMAIN Declared = {"DetailEnvelope", "HealthResponse", "ProviderStatusResponse",
                        "SearchEnvelope", "SpnBatchEnvelope", "SpnBatchRequest", "SpnEnvelope",
                        "StreamDoneEvent", "Part", "PriceBreak", "ProviderRawData",
                        "RateLimitSnapshot", "ServiceErrorDetail", "SupplierCapabilities",
                        "SpnBatchItem", "ProviderStatusEntry", "RecordProviderStatusEntry",
                        "RecordJsonValue"}
<1>1. DOMAIN Scalars = {"text", "flag", "true", "number", "int32", "JsonInteger",
                       "Rfc3339Timestamp", "EnvelopeStatus", "BatchItemStatus",
                       "HealthResponseStatus", "JsonValue"}
  BY DEF Scalars
<1>2. DOMAIN Declared = {"DetailEnvelope", "HealthResponse", "ProviderStatusResponse",
                        "SearchEnvelope", "SpnBatchEnvelope", "SpnBatchRequest", "SpnEnvelope",
                        "StreamDoneEvent", "Part", "PriceBreak", "ProviderRawData",
                        "RateLimitSnapshot", "ServiceErrorDetail", "SupplierCapabilities",
                        "SpnBatchItem", "ProviderStatusEntry", "RecordProviderStatusEntry",
                        "RecordJsonValue"}
  BY DEF Declared
<1> QED BY <1>1, <1>2

(* The declarations by their names. *)
LEMMA DeclaredIs ==
  /\ Declared["DetailEnvelope"] = DetailEnvelope
  /\ Declared["HealthResponse"] = HealthResponse
  /\ Declared["ProviderStatusResponse"] = ProviderStatusResponse
  /\ Declared["SearchEnvelope"] = SearchEnvelope
  /\ Declared["SpnBatchEnvelope"] = SpnBatchEnvelope
  /\ Declared["SpnBatchRequest"] = SpnBatchRequest
  /\ Declared["SpnEnvelope"] = SpnEnvelope
  /\ Declared["StreamDoneEvent"] = StreamDoneEvent
  /\ Declared["Part"] = Part
  /\ Declared["PriceBreak"] = PriceBreak
  /\ Declared["ProviderRawData"] = ProviderRawData
  /\ Declared["RateLimitSnapshot"] = RateLimitSnapshot
  /\ Declared["ServiceErrorDetail"] = ServiceErrorDetail
  /\ Declared["SupplierCapabilities"] = SupplierCapabilities
  /\ Declared["SpnBatchItem"] = SpnBatchItem
  /\ Declared["ProviderStatusEntry"] = ProviderStatusEntry
  /\ Declared["RecordProviderStatusEntry"] = RecordProviderStatusEntry
  /\ Declared["RecordJsonValue"] = RecordJsonValue
BY DEF Declared

(* Members of two records put together. *)
LEMMA TypedJoin ==
  ASSUME NEW types, NEW f, NEW g, Typed(f, types), Typed(g, types)
  PROVE  Typed(f @@ g, types)
BY DEF Typed, @@

(* What the notation for types says of their fields. *)
LEMMA OfTyped ==
  ASSUME NEW what \in DOMAIN Scalars \cup DOMAIN Declared
  PROVE  /\ Of(what) \in WireType
         /\ Of(what).of = what /\ Of(what).shape = "one" /\ Of(what).required
BY DEF Of, WireType, Unbounded

LEMMA ListOfTyped ==
  ASSUME NEW what \in (DOMAIN Scalars \cup DOMAIN Declared) \ (DOMAIN Scalars \ {"text"})
  PROVE  /\ ListOf(what) \in WireType
         /\ ListOf(what).of = what /\ ListOf(what).shape = "list" /\ ListOf(what).required
<1>1. Of(what) \in WireType /\ Of(what).of = what /\ Of(what).required
  BY OfTyped
<1>2. what # "number"
  BY NameSets
<1> QED BY <1>1, <1>2 DEF ListOf, WireType

LEMMA OrNullTyped ==
  ASSUME NEW t \in WireType, t.of # "number"
  PROVE  /\ OrNull(t) \in WireType
         /\ OrNull(t).of = t.of /\ OrNull(t).shape = t.shape /\ OrNull(t).required = t.required
BY DEF OrNull, WireType

LEMMA OptionalTyped ==
  ASSUME NEW t \in WireType
  PROVE  /\ Optional(t) \in WireType
         /\ Optional(t).of = t.of /\ Optional(t).shape = t.shape
BY DEF Optional, WireType

LEMMA BetweenTyped ==
  ASSUME NEW t \in WireType, NEW low \in Nat, NEW high \in Nat
  PROVE  /\ Between(low, high, t) \in WireType
         /\ Between(low, high, t).of = t.of /\ Between(low, high, t).shape = t.shape
         /\ Between(low, high, t).required = t.required
BY DEF Between, WireType

(* Every member of every declaration has a type of this kind. *)
LEMMA DeclaredTyped ==
  \A d \in DOMAIN Declared : Typed(Declared[d], WireType)
<1>1. \A what \in DOMAIN Scalars \cup DOMAIN Declared : Of(what) \in WireType /\ Of(what).of = what
  BY OfTyped
<1>2. \A what \in DOMAIN Scalars \cup DOMAIN Declared :
        what # "number" => OrNull(Of(what)) \in WireType
  BY <1>1, OrNullTyped
<1>3. \A what \in DOMAIN Scalars \cup DOMAIN Declared : Optional(Of(what)) \in WireType
  BY <1>1, OptionalTyped
<1>4. \A what \in {"text"} \cup DOMAIN Declared : ListOf(what) \in WireType /\ ListOf(what).of = what
  BY NameSets, ListOfTyped
<1>5. \A what \in DOMAIN Scalars \cup DOMAIN Declared : \A S : Typed(AllOf(what, S), WireType)
  BY <1>1 DEF Typed, AllOf
<1>6. Typed(PriceBreak, WireType)
  BY <1>1, <1>2, <1>3, <1>4, NameSets DEF Typed, PriceBreak
<1>7. Typed(Part, WireType)
  <2> DEFINE more == [stock_quantity |-> Of("JsonInteger"), price_breaks |-> ListOf("PriceBreak"),
                      extra_data |-> OrNull(Of("ProviderRawData"))]
  <2>1. Typed(more, WireType)
    BY <1>1, <1>2, <1>4, NameSets DEF Typed
  <2> HIDE DEF more
  <2> QED BY <1>5, <2>1, TypedJoin, NameSets DEF Part, more
<1>8. Typed(RateLimitSnapshot, WireType)
  <2> DEFINE more  == [reset_time |-> OrNull(Of("text")), observed_at |-> Of("Rfc3339Timestamp")]
             quota == [m \in {"request_limit", "requests_remaining", "burst_limit",
                              "burst_remaining", "reset_seconds", "retry_after_seconds"} |->
                         OrNull(Of("JsonInteger"))]
  <2>1. Typed(more, WireType) /\ Typed(quota, WireType)
    BY <1>1, <1>2, NameSets DEF Typed
  <2> HIDE DEF more, quota
  <2> QED BY <2>1, TypedJoin DEF RateLimitSnapshot, more, quota
<1>9. Typed(ServiceErrorDetail, WireType)
  BY <1>1, <1>2, <1>3, <1>4, NameSets DEF Typed, ServiceErrorDetail
<1>10. Typed(SupplierCapabilities, WireType)
  <2> DEFINE more  == [max_spn_batch_size           |-> Of("JsonInteger"),
                       min_request_interval_seconds |-> Of("number"),
                       rate_limit_per_minute        |-> OrNull(Of("JsonInteger")),
                       rate_limit_per_day           |-> OrNull(Of("JsonInteger")),
                       notes                        |-> ListOf("text")]
             texts == AllOf("text", {"supplier", "provider_kind", "usage_unit"})
             flags == AllOf("flag", {"supports_mpn_search", "supports_keyword_search",
                                     "supports_spn_lookup", "supports_native_spn_batch",
                                     "supports_quota_headers"})
  <2>1. Typed(more, WireType)
    BY <1>1, <1>2, <1>4, NameSets DEF Typed
  <2>2. Typed(texts, WireType) /\ Typed(flags, WireType)
    BY <1>5, NameSets
  <2> HIDE DEF more, texts, flags
  <2>3. Typed(texts @@ flags, WireType)
    BY <2>2, TypedJoin
  <2>4. SupplierCapabilities = (texts @@ flags) @@ more
    BY DEF SupplierCapabilities, more, texts, flags
  <2> QED BY <2>1, <2>3, <2>4, TypedJoin
<1>11. Typed(EnvelopeMetadata, WireType)
  BY <1>1, <1>2, <1>3, <1>4, NameSets DEF Typed, EnvelopeMetadata
<1>12. Typed(SearchEnvelope, WireType)
  <2>1. Typed([data |-> OrNull(ListOf("Part"))], WireType)
    BY <1>1, <1>2, <1>4, OrNullTyped, NameSets DEF Typed
  <2> QED BY <1>11, <2>1, TypedJoin DEF SearchEnvelope
<1>13. Typed(DetailEnvelope, WireType)
  <2>1. Typed([data |-> OrNull(Of("Part"))], WireType)
    BY <1>1, <1>2, <1>4, OrNullTyped, NameSets DEF Typed
  <2> QED BY <1>11, <2>1, TypedJoin DEF DetailEnvelope
<1>14. Typed(SpnEnvelope, WireType)
  <2>1. Typed([data |-> OrNull(Of("Part"))], WireType)
    BY <1>1, <1>2, <1>4, OrNullTyped, NameSets DEF Typed
  <2> QED BY <1>11, <2>1, TypedJoin DEF SpnEnvelope
<1>15. Typed(SpnBatchEnvelope, WireType)
  <2>1. Typed([data |-> OrNull(ListOf("SpnBatchItem"))], WireType)
    BY <1>1, <1>2, <1>4, OrNullTyped, NameSets DEF Typed
  <2> QED BY <1>11, <2>1, TypedJoin DEF SpnBatchEnvelope
<1>16. Typed(SpnBatchItem, WireType)
  BY <1>1, <1>2, <1>3, <1>4, NameSets DEF Typed, SpnBatchItem
<1>17. Typed(SpnBatchRequest, WireType)
  <2>1. Between(1, 1000, ListOf("text")) \in WireType
    BY <1>4, BetweenTyped
  <2> QED BY <1>1, <1>3, <2>1, NameSets DEF Typed, SpnBatchRequest
<1>18. Typed(ProviderStatusEntry, WireType)
  BY <1>1, <1>2, <1>3, <1>4, NameSets DEF Typed, ProviderStatusEntry
<1>19. Typed(RecordProviderStatusEntry, WireType)
  BY <1>1, <1>2, <1>3, <1>4, NameSets DEF Typed, RecordProviderStatusEntry
<1>20. Typed(ProviderStatusResponse, WireType)
  BY <1>1, <1>2, <1>3, <1>4, NameSets DEF Typed, ProviderStatusResponse
<1>21. Typed(HealthResponse, WireType)
  BY <1>1, <1>2, <1>3, <1>4, NameSets DEF Typed, HealthResponse
<1>22. Typed(StreamDoneEvent, WireType)
  BY <1>1, <1>2, <1>3, <1>4, NameSets DEF Typed, StreamDoneEvent
<1>23. Typed(RecordJsonValue, WireType)
  BY <1>1, <1>2, <1>3, <1>4, NameSets DEF Typed, RecordJsonValue
<1>24. Typed(ProviderRawData, WireType)
  BY <1>1, <1>2, <1>3, <1>4, NameSets DEF Typed, ProviderRawData
<1> QED BY <1>6, <1>7, <1>8, <1>9, <1>10,
          <1>12, <1>13, <1>14, <1>15, <1>16, <1>17, <1>18, <1>19, <1>20, <1>21, <1>22, <1>23, <1>24, NameSets, DeclaredIs

----------------------------------------------------------------------------
(* The catalog.                                                            *)

(* A declaration is made of declarations. *)
LEMMA MentionsDeclared ==
  \A d \in DOMAIN Declared \cup {"StreamSearchEvent"} : Mentions(d) \subseteq DOMAIN Declared
<1>1. StreamSearchEvent \subseteq DOMAIN Declared
  BY NameSets DEF StreamSearchEvent
<1>2. ASSUME NEW d, d # "StreamSearchEvent" PROVE Mentions(d) \subseteq DOMAIN Declared
  <2> DEFINE all == UNION {IF Declared[d][m].of = "JsonValue" THEN {"RecordJsonValue"}
                           ELSE {Declared[d][m].of} : m \in DOMAIN Declared[d]}
  <2>1. Mentions(d) = DOMAIN Declared \cap all
    BY <1>2 DEF Mentions
  <2> HIDE DEF all
  <2> QED BY <2>1
<1>3. Mentions("StreamSearchEvent") = StreamSearchEvent
  BY DEF Mentions
<1> QED BY <1>1, <1>2, <1>3

(* What a declaration is made of stays in any set that has it and is       *)
(* closed under mentions.                                                  *)
LEMMA BelowClosed ==
  ASSUME NEW d, NEW X, d \in X, \A e \in X : Mentions(e) \subseteq X
  PROVE  Below(d) \subseteq X
<1> DEFINE Deeper(S) == S \cup UNION {Mentions(e) : e \in S}
<1>1. \A S : S \subseteq X => Deeper(S) \subseteq X
  OBVIOUS
<1>2. Below(d) = Deeper(Deeper(Deeper(Deeper({d}))))
  BY DEF Below
<1> HIDE DEF Deeper
<1>3. {d} \subseteq X
  OBVIOUS
<1> QED BY <1>1, <1>2, <1>3

(* It is made of itself and of what it mentions. *)
LEMMA BelowHas ==
  ASSUME NEW d
  PROVE  d \in Below(d) /\ Mentions(d) \subseteq Below(d)
<1> DEFINE Deeper(S) == S \cup UNION {Mentions(e) : e \in S}
<1>1. Below(d) = Deeper(Deeper(Deeper(Deeper({d}))))
  BY DEF Below
<1>2. \A S : S \subseteq Deeper(S)
  OBVIOUS
<1>3. Mentions(d) \subseteq Deeper({d})
  OBVIOUS
<1> HIDE DEF Deeper
<1> QED BY <1>1, <1>2, <1>3

LEMMA WithinDeclared ==
  \A root \in ContractRoot : Within[root] \subseteq DOMAIN Declared \cup {"StreamSearchEvent"}
<1> TAKE root \in ContractRoot
<1>1. root \in DOMAIN Declared \cup {"StreamSearchEvent"}
  BY NameSets DEF ContractRoot
<1>2. Below(root) \subseteq DOMAIN Declared \cup {"StreamSearchEvent"}
  BY <1>1, MentionsDeclared, BelowClosed
<1> QED BY <1>2 DEF Within

(* Every schema that a root of the catalog refers to, itself or through    *)
(* others, is in the list built into the crate (generated/mod.rs:135-321): *)
(* no codec ever fails for want of a validator (codec.rs:134-151).         *)
THEOREM ValidatorsBuild == build_validators
<1> SUFFICES ASSUME NEW root \in ContractRoot PROVE Needs(root) \subseteq GENERATED_SCHEMAS
  BY DEF build_validators
<1> DEFINE plain == {"text", "flag", "true", "number", "int32", "HealthResponseStatus"}
           used  == Within[root] \cap DOMAIN Declared
           all   == UNION {{Declared[d][m].of : m \in DOMAIN Declared[d]} : d \in used}
<1>1. DOMAIN Declared \cup {"StreamSearchEvent"} \subseteq GENERATED_SCHEMAS
  BY NameSets DEF GENERATED_SCHEMAS
<1>2. \A d \in DOMAIN Declared : \A m \in DOMAIN Declared[d] :
        Declared[d][m].of \in DOMAIN Scalars \cup DOMAIN Declared
  BY DeclaredTyped DEF Typed, WireType
<1>3. DOMAIN Scalars \ plain \subseteq GENERATED_SCHEMAS
  BY NameSets DEF GENERATED_SCHEMAS
<1>4. {"EnvelopeMetadata" : d \in used \cap Envelopes} \subseteq GENERATED_SCHEMAS
  BY DEF GENERATED_SCHEMAS
<1>5. Within[root] \subseteq GENERATED_SCHEMAS
  BY <1>1, WithinDeclared
<1>6. Needs(root) =
        Within[root] \cup {"EnvelopeMetadata" : d \in used \cap Envelopes} \cup (all \ plain)
  BY DEF Needs
<1> HIDE DEF plain
<1>7. all \ plain \subseteq GENERATED_SCHEMAS
  BY <1>1, <1>2, <1>3
<1> HIDE DEF used, all
<1> QED BY <1>4, <1>5, <1>6, <1>7

----------------------------------------------------------------------------
(* Numbers.                                                                *)
LEMMA DoubleIs ==
  /\ Double("0") = "0.0" /\ Double("-0") = "-0.0" /\ Double("1") = "1.0"
  /\ Double("2^31") = "2^31.0" /\ Double("2^53-1") = "2^53-1.0" /\ Double("2^64") = "2^64.0"
  /\ Double("2^53-2") = "2^53-2.0"
  /\ \A v \in Floats : Double(v) = v
BY DEF Double, Floats

(* Integer undoes Double, up to the sign of zero. *)
LEMMA IntegerIs ==
  /\ Integer("0") = "0" /\ Integer("-0") = "0" /\ Integer("0.0") = "0" /\ Integer("-0.0") = "0"
  /\ Integer("1") = "1" /\ Integer("1.0") = "1"
  /\ Integer("2^31") = "2^31" /\ Integer("2^31.0") = "2^31"
  /\ Integer("2^53-1") = "2^53-1" /\ Integer("2^53-1.0") = "2^53-1"
  /\ Integer("2^53-2") = "2^53-2" /\ Integer("2^53-2.0") = "2^53-2"
<1> DEFINE Same(v) == {i \in Integers : Double(i) = Double(v)}
<1>1. \A v \in {"0", "0.0"} : Integer(v) = "0"
  BY DoubleIs DEF Integer, Integers, Floats
<1>2. Integer("-0") = "0" /\ Integer("-0.0") = "0"
  BY DEF Integer
<1>3. \A v \in {"1", "1.0"} : Integer(v) = "1"
  BY DoubleIs DEF Integer, Integers, Floats
<1>4. \A v \in {"2^31", "2^31.0"} : Integer(v) = "2^31"
  BY DoubleIs DEF Integer, Integers, Floats
<1>5. \A v \in {"2^53-1", "2^53-1.0"} : Integer(v) = "2^53-1"
  BY DoubleIs DEF Integer, Integers, Floats
<1>6. \A v \in {"2^53-2", "2^53-2.0"} : Integer(v) = "2^53-2"
  BY DoubleIs DEF Integer, Integers, Floats
<1> QED BY <1>1, <1>2, <1>3, <1>4, <1>5, <1>6

(* A number that a member accepts is the member's own kind of number. *)
LEMMA AcceptedNumber ==
  ASSUME NEW lang \in Langs, NEW t \in WireType, NEW v \in Numbers, Accepts(lang, t, v)
  PROVE  /\ t.shape = "one" /\ v \in Scalars[t.of]
         /\ t.of \in {"number", "int32", "JsonInteger", "JsonValue"}
<1>1. t.of \in DOMAIN Scalars /\ t.shape = "one" /\ v \in Scalars[t.of]
  BY DEF Accepts, Numbers, Integers, Floats, Lists
<1>2. /\ v \notin Words /\ v \notin Flags /\ v \notin EnvelopeStatus /\ v \notin BatchItemStatus
      /\ v \notin Rfc3339Timestamp /\ v \notin HealthResponseStatus
  BY DEF Words, Flags, EnvelopeStatus, BatchItemStatus, Rfc3339Timestamp, HealthResponseStatus,
         Numbers, Integers, Floats
<1>3. /\ Scalars["text"] = Words /\ Scalars["flag"] = Flags /\ Scalars["true"] = {"true"}
      /\ Scalars["Rfc3339Timestamp"] = Rfc3339Timestamp
      /\ Scalars["EnvelopeStatus"] = EnvelopeStatus
      /\ Scalars["BatchItemStatus"] = BatchItemStatus
      /\ Scalars["HealthResponseStatus"] = HealthResponseStatus
  BY DEF Scalars
<1>4. v # "true"
  BY DEF Numbers, Integers, Floats
<1> QED BY <1>1, <1>2, <1>3, <1>4, NameSets

(* What the lexers of both languages make of a number they let through. *)
LEMMA LexedIs ==
  ASSUME NEW lang \in Langs, NEW v \in Numbers, check_ijson(lang, v), NEW n \in Lexed(lang, v)
  PROVE  /\ v \in Integers \ {"-0"} => n = v
         /\ v = "-0" => n = (IF lang = "python" THEN "0" ELSE "-0.0")
         /\ v \in Floats \ Long => n = v
         /\ v \in Long => n \in Long
         /\ v = "2^64" => n = "2^64.0"
BY DoubleIs, IntegerIs
   DEF Langs, Lexed, check_ijson, IntegerLiterals, Integers, Floats, Numbers, Long

(* Reading a number settles it: the model of either language holds the     *)
(* same number or its neighbour, in a form that the member accepts and     *)
(* both languages read alike; a flexible integer stays that integer.       *)
LEMMA ReadNumber ==
  ASSUME NEW lang \in Langs, NEW t \in WireType, NEW v \in Numbers,
         Accepts(lang, t, v), check_ijson(lang, v),
         lang = "rust" /\ t.of \in Whole => v \in IntegerLiterals("rust"),
         NEW n \in Lexed(lang, v)
  PROVE  /\ Native(t, n) \in Numbers \ {"-0", "2^64"}
         /\ \A l \in Langs : Accepts(l, t, Native(t, n))
         /\ t.of \in Whole => Native(t, n) \in Integers
         /\ NumberKept(t, v, Native(t, n))
<1> DEFINE w == Native(t, n)
<1>1. t.shape = "one" /\ v \in Scalars[t.of] /\ t.of \in DOMAIN Scalars
  BY AcceptedNumber, NameSets
<1>2. \A l, m : m \in Scalars[t.of] => Accepts(l, t, m)
  BY <1>1 DEF Accepts
<1>3. /\ Scalars["number"] = Numbers /\ Scalars["JsonInteger"] = JsonInteger
      /\ Scalars["int32"] = JsonInteger \ ({"2^31", "2^53-2", "2^53-1", "2^31.0"} \cup Long)
      /\ Scalars["JsonValue"] = JsonValue
  BY DEF Scalars
<1>4. /\ n \in Numbers \ {"-0", "2^64"}
      /\ SameNumber(v, n) \/ {Double(v), Double(n)} \subseteq Long
  BY LexedIs, DoubleIs DEF SameNumber, Numbers, Integers, Floats, Long
<1>5. CASE t.of = "number"
  <2>1. w = Double(n)
    BY <1>5 DEF Native
  <2>2. w \in Floats /\ SameNumber(n, w) /\ Double(w) = Double(n)
    BY <1>4, <2>1, DoubleIs DEF SameNumber, Numbers, Integers, Floats
  <2>3. w \in Numbers \ {"-0", "2^64"}
    BY <2>2 DEF Numbers, Floats
  <2>4. NumberKept(t, v, w)
    BY <1>4, <1>5, <2>2 DEF NumberKept, SameNumber, Whole
  <2> QED BY <1>2, <1>3, <1>5, <2>3, <2>4 DEF Whole
<1>6. CASE t.of \in Whole
  <2>1. w = Integer(n) /\ t.of # "number" /\ t.of # "JsonValue"
    BY <1>6 DEF Native, Whole
  <2>2. v \in JsonInteger
    BY <1>1, <1>3, <1>6 DEF Whole
  <2>3. n = v \/ v = "-0"
    <3>1. CASE lang = "rust"
      <4>1. v \in Integers \ {"-0"}
        BY <1>6, <3>1, <2>2 DEF IntegerLiterals, JsonInteger, Integers, Floats
      <4> QED BY <4>1, LexedIs
    <3>2. CASE lang = "python"
      <4>1. v \in Long => n = v
        BY <3>2, DoubleIs DEF Lexed, Long, IntegerLiterals, Integers, Floats
      <4> QED BY <4>1, LexedIs, <2>2 DEF JsonInteger
    <3> QED BY <3>1, <3>2 DEF Langs
  <2>4. w = Integer(v)
    BY <2>1, <2>3, LexedIs, IntegerIs DEF Langs
  <2>5. w \in Integers \ {"-0"} /\ SameNumber(v, w)
    BY <2>2, <2>4, DoubleIs, IntegerIs DEF SameNumber, JsonInteger, Integers, Floats
  <2>6. v \in Scalars[t.of] => w \in Scalars[t.of]
    BY <1>3, <1>6, <2>2, <2>4, IntegerIs DEF Whole, JsonInteger, Integers, Floats, Long
  <2>7. NumberKept(t, v, w)
    BY <2>1, <2>5 DEF NumberKept
  <2> QED BY <1>1, <1>2, <1>6, <2>5, <2>6, <2>7 DEF Whole, Numbers, Integers
<1>7. CASE t.of = "JsonValue"
  <2>1. w = n
    BY <1>7 DEF Native, Whole
  <2>2. w \in Scalars[t.of]
    BY <1>3, <1>4, <1>7, <2>1 DEF JsonValue
  <2>3. NumberKept(t, v, w)
    BY <1>4, <1>7, <2>1, LexedIs DEF NumberKept, Whole
  <2> QED BY <1>2, <1>4, <1>7, <2>1, <2>2, <2>3 DEF Whole
<1> QED BY <1>5, <1>6, <1>7, AcceptedNumber DEF Whole

----------------------------------------------------------------------------
(* The members of a stream event.                                          *)
LEMMA EnvelopeMembers ==
  /\ DOMAIN SearchEnvelope =
       {"supplier", "parameter_field_name", "status", "provider_latency_ms",
        "provider_capabilities", "rate_limit", "service_timestamp", "cached", "error",
        "error_detail", "data"}
  /\ \A m \in DOMAIN SearchEnvelope :
       /\ SearchEnvelope[m].required
       /\ SearchEnvelope[m].of \in Whole => m = "provider_latency_ms"
  /\ SearchEnvelope["data"].of = "Part"
  /\ SearchEnvelope["error_detail"].of = "ServiceErrorDetail"
  /\ SearchEnvelope["provider_capabilities"].of = "SupplierCapabilities"
  /\ SearchEnvelope["rate_limit"].of = "RateLimitSnapshot"
  /\ \A m \in DOMAIN SearchEnvelope :
       SearchEnvelope[m].of \in {"text", "flag", "EnvelopeStatus", "Rfc3339Timestamp",
         "JsonInteger", "Part", "ServiceErrorDetail", "SupplierCapabilities", "RateLimitSnapshot"}
<1>1. ASSUME NEW what \in {"text", "flag", "EnvelopeStatus", "Rfc3339Timestamp", "JsonInteger",
                           "Part", "ServiceErrorDetail", "SupplierCapabilities",
                           "RateLimitSnapshot"}
      PROVE  /\ Of(what) \in WireType /\ Of(what).of = what /\ Of(what).required
             /\ OrNull(Of(what)).of = what /\ OrNull(Of(what)).required
  <2>1. what \in DOMAIN Scalars \cup DOMAIN Declared /\ what # "number"
    BY NameSets
  <2> QED BY <2>1, OfTyped, OrNullTyped
<1>2. OrNull(ListOf("Part")).of = "Part" /\ OrNull(ListOf("Part")).required
  BY NameSets, ListOfTyped, OrNullTyped
<1>3. DOMAIN SearchEnvelope =
       {"supplier", "parameter_field_name", "status", "provider_latency_ms",
        "provider_capabilities", "rate_limit", "service_timestamp", "cached", "error",
        "error_detail", "data"}
  BY DEF SearchEnvelope, EnvelopeMetadata, @@
<1>4. /\ SearchEnvelope["supplier"] = Of("text")
      /\ SearchEnvelope["parameter_field_name"] = Of("text")
      /\ SearchEnvelope["status"] = Of("EnvelopeStatus")
      /\ SearchEnvelope["provider_latency_ms"] = Of("JsonInteger")
      /\ SearchEnvelope["provider_capabilities"] = OrNull(Of("SupplierCapabilities"))
      /\ SearchEnvelope["rate_limit"] = OrNull(Of("RateLimitSnapshot"))
      /\ SearchEnvelope["service_timestamp"] = Of("Rfc3339Timestamp")
      /\ SearchEnvelope["cached"] = Of("flag")
      /\ SearchEnvelope["error"] = OrNull(Of("text"))
      /\ SearchEnvelope["error_detail"] = OrNull(Of("ServiceErrorDetail"))
      /\ SearchEnvelope["data"] = OrNull(ListOf("Part"))
  BY DEF SearchEnvelope, EnvelopeMetadata, @@
<1>5. \A m \in DOMAIN SearchEnvelope : SearchEnvelope[m].required
  BY <1>1, <1>2, <1>3, <1>4
<1>6. \A m \in DOMAIN SearchEnvelope : SearchEnvelope[m].of \in Whole => m = "provider_latency_ms"
  BY <1>1, <1>2, <1>3, <1>4 DEF Whole
<1>7. \A m \in DOMAIN SearchEnvelope :
       SearchEnvelope[m].of \in {"text", "flag", "EnvelopeStatus", "Rfc3339Timestamp",
         "JsonInteger", "Part", "ServiceErrorDetail", "SupplierCapabilities", "RateLimitSnapshot"}
  BY <1>1, <1>2, <1>3, <1>4
<1>8. /\ SearchEnvelope["data"].of = "Part"
      /\ SearchEnvelope["error_detail"].of = "ServiceErrorDetail"
      /\ SearchEnvelope["provider_capabilities"].of = "SupplierCapabilities"
      /\ SearchEnvelope["rate_limit"].of = "RateLimitSnapshot"
  BY <1>1, <1>2, <1>4
<1> QED BY <1>3, <1>5, <1>6, <1>7, <1>8

(* What the declarations of an event have for members. *)
OfIn(f, names) == \A m \in DOMAIN f : f[m].of \in names

LEMMA EventMembers ==
  /\ OfIn(StreamDoneEvent, {"true"}) /\ StreamDoneEvent["done"].required
  /\ OfIn(Part, {"text", "JsonInteger", "PriceBreak", "ProviderRawData"})
  /\ "price_breaks" \in DOMAIN Part /\ Part["price_breaks"].of = "PriceBreak"
  /\ OfIn(PriceBreak, DOMAIN Scalars \ {"JsonValue"})
  /\ OfIn(RateLimitSnapshot, DOMAIN Scalars \ {"JsonValue"})
  /\ OfIn(ServiceErrorDetail, DOMAIN Scalars \ {"JsonValue"})
  /\ OfIn(SupplierCapabilities, DOMAIN Scalars \ {"JsonValue"})
  /\ OfIn(ProviderRawData, {"JsonValue"}) /\ OfIn(RecordJsonValue, {"JsonValue"})
<1>1. ASSUME NEW what \in DOMAIN Scalars
      PROVE  /\ Of(what) \in WireType /\ Of(what).of = what /\ Of(what).required
             /\ Optional(Of(what)).of = what
             /\ what # "number" => OrNull(Of(what)).of = what
  <2>1. Of(what) \in WireType /\ Of(what).of = what /\ Of(what).required
    BY OfTyped
  <2> QED BY <2>1, OrNullTyped, OptionalTyped
<1>2. ListOf("text").of = "text" /\ ListOf("PriceBreak").of = "PriceBreak"
  BY NameSets, ListOfTyped
<1>3. OrNull(Of("ProviderRawData")).of = "ProviderRawData"
  <2>1. Of("ProviderRawData") \in WireType /\ Of("ProviderRawData").of = "ProviderRawData"
    BY NameSets, OfTyped
  <2> QED BY <2>1, OrNullTyped
<1>4. OfIn(StreamDoneEvent, {"true"}) /\ StreamDoneEvent["done"].required
  BY <1>1, NameSets DEF OfIn, StreamDoneEvent
<1>5. /\ OfIn(Part, {"text", "JsonInteger", "PriceBreak", "ProviderRawData"})
      /\ "price_breaks" \in DOMAIN Part /\ Part["price_breaks"].of = "PriceBreak"
  BY <1>1, <1>2, <1>3, NameSets DEF OfIn, Part, @@, AllOf
<1>6. OfIn(PriceBreak, DOMAIN Scalars \ {"JsonValue"})
  BY <1>1, NameSets DEF OfIn, PriceBreak
<1>7. OfIn(RateLimitSnapshot, DOMAIN Scalars \ {"JsonValue"})
  BY <1>1, NameSets DEF OfIn, RateLimitSnapshot, @@
<1>8. OfIn(ServiceErrorDetail, DOMAIN Scalars \ {"JsonValue"})
  BY <1>1, NameSets DEF OfIn, ServiceErrorDetail
<1>9. OfIn(SupplierCapabilities, DOMAIN Scalars \ {"JsonValue"})
  BY <1>1, <1>2, NameSets DEF OfIn, SupplierCapabilities, @@, AllOf
<1>10. OfIn(ProviderRawData, {"JsonValue"}) /\ OfIn(RecordJsonValue, {"JsonValue"})
  BY <1>1, NameSets DEF OfIn, ProviderRawData, RecordJsonValue
<1> QED BY <1>4, <1>5, <1>6, <1>7, <1>8, <1>9, <1>10

(* An event is made of these. *)
EventDeclarations ==
  {"StreamSearchEvent", "SearchEnvelope", "StreamDoneEvent", "Part", "PriceBreak",
   "RateLimitSnapshot", "ServiceErrorDetail", "SupplierCapabilities", "ProviderRawData",
   "RecordJsonValue"}

LEMMA MadeOf ==
  ASSUME NEW d \in DOMAIN Declared, NEW names, OfIn(Declared[d], names), "JsonValue" \notin names
  PROVE  Mentions(d) \subseteq names \cap DOMAIN Declared
<1>1. d # "StreamSearchEvent"
  BY NameSets
<1>2. \A m \in DOMAIN Declared[d] : Declared[d][m].of \in names
  BY DEF OfIn
<1>3. \A m \in DOMAIN Declared[d] :
        (IF Declared[d][m].of = "JsonValue" THEN {"RecordJsonValue"} ELSE {Declared[d][m].of})
          \subseteq names
  BY <1>2
<1> DEFINE all == UNION {IF Declared[d][m].of = "JsonValue" THEN {"RecordJsonValue"}
                         ELSE {Declared[d][m].of} : m \in DOMAIN Declared[d]}
<1>4. all \subseteq names
  BY <1>3
<1>5. Mentions(d) = DOMAIN Declared \cap all
  BY <1>1 DEF Mentions
<1> HIDE DEF all
<1> QED BY <1>4, <1>5

LEMMA MadeOfJson ==
  ASSUME NEW d \in DOMAIN Declared, OfIn(Declared[d], {"JsonValue"})
  PROVE  Mentions(d) \subseteq {"RecordJsonValue"}
<1>1. d # "StreamSearchEvent"
  BY NameSets
<1>2. \A m \in DOMAIN Declared[d] : Declared[d][m].of = "JsonValue"
  BY DEF OfIn
<1> DEFINE all == UNION {IF Declared[d][m].of = "JsonValue" THEN {"RecordJsonValue"}
                         ELSE {Declared[d][m].of} : m \in DOMAIN Declared[d]}
<1>3. all \subseteq {"RecordJsonValue"}
  BY <1>2
<1>4. Mentions(d) = DOMAIN Declared \cap all
  BY <1>1 DEF Mentions
<1> HIDE DEF all
<1> QED BY <1>3, <1>4

LEMMA EventMadeOf == Within["StreamSearchEvent"] \subseteq EventDeclarations
<1>1. Mentions("StreamSearchEvent") \subseteq EventDeclarations
  BY DEF Mentions, StreamSearchEvent, EventDeclarations
<1>2. DOMAIN Scalars \cap DOMAIN Declared = {}
  BY NameSets
<1>3. Mentions("SearchEnvelope") \subseteq EventDeclarations
  <2> DEFINE names == {"text", "flag", "EnvelopeStatus", "Rfc3339Timestamp", "JsonInteger",
                       "Part", "ServiceErrorDetail", "SupplierCapabilities", "RateLimitSnapshot"}
  <2>1. OfIn(SearchEnvelope, names)
    BY EnvelopeMembers DEF OfIn
  <2>2. "SearchEnvelope" \in DOMAIN Declared /\ "JsonValue" \notin names
    BY NameSets
  <2>3. names \cap DOMAIN Declared \subseteq EventDeclarations
    BY NameSets DEF EventDeclarations
  <2> HIDE DEF names
  <2> QED BY <2>1, <2>2, <2>3, MadeOf, DeclaredIs
<1>4. Mentions("Part") \subseteq EventDeclarations
  <2> DEFINE names == {"text", "JsonInteger", "PriceBreak", "ProviderRawData"}
  <2>1. "Part" \in DOMAIN Declared /\ "JsonValue" \notin names
    BY NameSets
  <2>2. names \cap DOMAIN Declared \subseteq EventDeclarations
    BY NameSets DEF EventDeclarations
  <2>3. OfIn(Declared["Part"], names)
    BY EventMembers, DeclaredIs
  <2> HIDE DEF names
  <2> QED BY <2>1, <2>2, <2>3, MadeOf
<1>5. Mentions("StreamDoneEvent") \subseteq EventDeclarations
  <2>1. OfIn(Declared["StreamDoneEvent"], {"true"}) /\ "StreamDoneEvent" \in DOMAIN Declared
    BY EventMembers, DeclaredIs, NameSets
  <2>2. Mentions("StreamDoneEvent") \subseteq {"true"} \cap DOMAIN Declared
    BY <2>1, MadeOf
  <2> QED BY <2>2, NameSets
<1>6. \A d \in {"PriceBreak", "RateLimitSnapshot", "ServiceErrorDetail", "SupplierCapabilities"} :
        Mentions(d) \subseteq EventDeclarations
  <2> TAKE d \in {"PriceBreak", "RateLimitSnapshot", "ServiceErrorDetail", "SupplierCapabilities"}
  <2>1. OfIn(Declared[d], DOMAIN Scalars \ {"JsonValue"}) /\ d \in DOMAIN Declared
    BY EventMembers, DeclaredIs, NameSets
  <2>2. Mentions(d) \subseteq (DOMAIN Scalars \ {"JsonValue"}) \cap DOMAIN Declared
    BY <2>1, MadeOf
  <2> QED BY <1>2, <2>2
<1>7. \A d \in {"ProviderRawData", "RecordJsonValue"} : Mentions(d) \subseteq EventDeclarations
  <2> TAKE d \in {"ProviderRawData", "RecordJsonValue"}
  <2>1. OfIn(Declared[d], {"JsonValue"}) /\ d \in DOMAIN Declared
    BY EventMembers, DeclaredIs, NameSets
  <2> QED BY <2>1, MadeOfJson DEF EventDeclarations
<1>8. \A e \in EventDeclarations : Mentions(e) \subseteq EventDeclarations
  BY <1>1, <1>3, <1>4, <1>5, <1>6, <1>7 DEF EventDeclarations
<1>9. Below("StreamSearchEvent") \subseteq EventDeclarations
  <2>1. "StreamSearchEvent" \in EventDeclarations
    BY DEF EventDeclarations
  <2> QED BY <1>8, <2>1, BelowClosed
<1>10. Within["StreamSearchEvent"] = Below("StreamSearchEvent")
  BY DEF Within, ContractRoot
<1> QED BY <1>9, <1>10

----------------------------------------------------------------------------
(* Documents.                                                              *)
LEMMA DocumentFacts ==
  ASSUME NEW d, IsDocument(d)
  PROVE  /\ d.root \in ContractRoot /\ d.decl \in Within[d.root]
         /\ d.decl \in DOMAIN Declared /\ d.member \in DOMAIN Declared[d.decl]
         /\ d.value \in Values /\ Type(d) \in WireType
<1>1. PICK root \in Roots : \E p \in Places(root) : \E v \in Values : d = At(p, v)
  BY DEF IsDocument
<1>2. PICK p \in Places(root) : \E v \in Values : d = At(p, v)
  BY <1>1
<1>3. PICK v \in Values : d = At(p, v)
  BY <1>2
<1>4. PICK e \in Within[root] \cap DOMAIN Declared :
        \E m \in DOMAIN Declared[e] : p = [root |-> root, decl |-> e, member |-> m]
  BY DEF Places
<1>5. PICK m \in DOMAIN Declared[e] : p = [root |-> root, decl |-> e, member |-> m]
  BY <1>4
<1>6. d = [root |-> root, decl |-> e, member |-> m, value |-> v]
  BY <1>3, <1>5 DEF At
<1>7. root \in ContractRoot
  BY CodecAssumption
<1>8. Declared[e][m] \in WireType
  BY DeclaredTyped DEF Typed
<1> QED BY <1>6, <1>7, <1>8 DEF Type

(* Another value at the same place. *)
LEMMA OtherValue ==
  ASSUME NEW d, IsDocument(d), NEW v \in Values
  PROVE  /\ IsDocument([d EXCEPT !.value = v])
         /\ [d EXCEPT !.value = v].value = v
         /\ [d EXCEPT !.value = v].root = d.root
         /\ [d EXCEPT !.value = v].decl = d.decl
         /\ [d EXCEPT !.value = v].member = d.member
         /\ v = d.value => [d EXCEPT !.value = v] = d
<1>1. PICK root \in Roots : \E p \in Places(root) : \E w \in Values : d = At(p, w)
  BY DEF IsDocument
<1>2. PICK p \in Places(root) : \E w \in Values : d = At(p, w)
  BY <1>1
<1>3. PICK w \in Values : d = At(p, w)
  BY <1>2
<1>4. [d EXCEPT !.value = v] = At(p, v)
  BY <1>3 DEF At
<1>5. IsDocument(At(p, v))
  BY DEF IsDocument
<1> QED BY <1>3, <1>4, <1>5 DEF At

(* The two halves of an event together convert what its members do: a      *)
(* member that does not leaves others behind it that nobody takes.         *)
LEMMA Halves ==
  ASSUME NEW d, IsDocument(d), d.root = "StreamSearchEvent"
  PROVE  Leftover(d) = {} <=> Converts("rust", d)
<1>1. CASE Converts("rust", d)
  BY <1>1 DEF Leftover
<1>2. CASE ~Converts("rust", d)
  <2>1. Type(d).of \in Whole
    BY <1>2 DEF Converts
  <2>2. /\ d.decl \in EventDeclarations /\ d.decl \in DOMAIN Declared
        /\ d.member \in DOMAIN Declared[d.decl] /\ Type(d) = Declared[d.decl][d.member]
    BY DocumentFacts, EventMadeOf DEF Type
  <2>3. \A e \in {"StreamDoneEvent", "ProviderRawData", "RecordJsonValue"} :
          OfIn(Declared[e], {"true", "JsonValue"})
    BY EventMembers, DeclaredIs DEF OfIn
  <2>4. d.decl \in {"SearchEnvelope", "Part", "PriceBreak", "RateLimitSnapshot",
                    "ServiceErrorDetail", "SupplierCapabilities"}
    BY <2>1, <2>2, <2>3, NameSets DEF EventDeclarations, OfIn, Whole
  <2>5. ASSUME NEW top \in DOMAIN Declared, NEW m, SearchEnvelope[m].of = top,
               d.decl # "SearchEnvelope", d.decl \in Below(top)
        PROVE  Holds(m, d)
    BY <2>5 DEF Holds
  <2>6. \E m \in {"data", "error_detail", "provider_capabilities", "provider_latency_ms",
                  "rate_limit"} : Holds(m, d)
    <3>1. CASE d.decl = "SearchEnvelope"
      <4>1. d.member = "provider_latency_ms"
        BY <3>1, <2>1, <2>2, EnvelopeMembers, DeclaredIs
      <4> QED BY <3>1, <4>1 DEF Holds
    <3>2. CASE d.decl \in {"Part", "PriceBreak"}
      <4>1. "PriceBreak" \in Mentions("Part")
        <5> DEFINE all == UNION {IF Part[m].of = "JsonValue" THEN {"RecordJsonValue"}
                                 ELSE {Part[m].of} : m \in DOMAIN Part}
        <5>1. Mentions("Part") = DOMAIN Declared \cap all
          BY DeclaredIs DEF Mentions
        <5>2. "PriceBreak" \in all
          BY EventMembers
        <5> HIDE DEF all
        <5> QED BY <5>1, <5>2, NameSets
      <4>2. d.decl \in Below("Part")
        BY <3>2, <4>1, BelowHas
      <4> QED BY <3>2, <4>2, <2>5, EnvelopeMembers, NameSets
    <3>3. CASE d.decl = "RateLimitSnapshot"
      BY <3>3, <2>5, BelowHas, EnvelopeMembers, NameSets
    <3>4. CASE d.decl = "ServiceErrorDetail"
      BY <3>4, <2>5, BelowHas, EnvelopeMembers, NameSets
    <3>5. CASE d.decl = "SupplierCapabilities"
      BY <3>5, <2>5, BelowHas, EnvelopeMembers, NameSets
    <3> QED BY <2>4, <3>1, <3>2, <3>3, <3>4, <3>5
  <2>7. \E i \in 1..10 : Holds(EnvelopeOrder[i], d)
    <3>1. /\ EnvelopeOrder[2] = "data" /\ EnvelopeOrder[4] = "error_detail"
          /\ EnvelopeOrder[6] = "provider_capabilities"
          /\ EnvelopeOrder[7] = "provider_latency_ms" /\ EnvelopeOrder[8] = "rate_limit"
      BY DEF EnvelopeOrder
    <3> QED BY <2>6, <3>1
  <2>8. 11 \in DOMAIN EnvelopeOrder
    BY DEF EnvelopeOrder
  <2>9. EnvelopeOrder[11] \in Leftover(d)
    BY <1>2, <2>7, <2>8 DEF Leftover
  <2> QED BY <1>2, <2>9
<1> QED BY <1>1, <1>2

LEMMA ModelsIs ==
  ASSUME NEW d, IsDocument(d), NEW lang \in Langs
  PROVE  Models(lang, d) <=> Converts(lang, d)
<1>1. CASE lang = "rust" /\ d.root = "StreamSearchEvent"
  BY <1>1, Halves DEF Models
<1>2. CASE ~(lang = "rust" /\ d.root = "StreamSearchEvent")
  BY <1>2 DEF Models
<1> QED BY <1>1, <1>2

(* What is said of a value when it is read. *)
Kept(type, v, w) ==
  \/ w = v
  \/ v = "absent" /\ w = "false"
  \/ {v, w} \subseteq Numbers /\ NumberKept(type, v, w)

(* Reading settles a document. *)
LEMMA ReadingSettles ==
  ASSUME NEW d, IsDocument(d), NEW lang \in Langs,
         strict_value(lang, d), validate(lang, d), Models(lang, d), NEW e \in Model(lang, d)
  PROVE  /\ IsDocument(e) /\ Settled(e)
         /\ Type(e) = Type(d)
         /\ Kept(Type(d), d.value, e.value)
<1> DEFINE v == d.value
           t == Type(d)
<1>1. Converts(lang, d)
  BY ModelsIs
<1>2. PICK w \in Held(lang, t, v) : e = [d EXCEPT !.value = w]
  BY <1>1 DEF Model
<1>3. t \in WireType /\ v \in Values
  BY DocumentFacts
<1>4. check_ijson(lang, v) /\ v \notin {"broken", "repeated"}
  BY DEF strict_value
<1>5. /\ build_validators
      /\ Accepts(lang, t, v) \/ (v = "unknown member" /\ d.decl \in OpenRecords)
  <2> HIDE DEF t, v
  <2>1. t = Type(d) /\ v = d.value
    BY DEF t, v
  <2> QED BY <2>1 DEF validate
<1>6. /\ w \in Values \ {"-0", "2^64", "broken", "repeated"}
      /\ \A l \in Langs : check_ijson(l, w)
      /\ \A l \in Langs : \/ Accepts(lang, t, v) => Accepts(l, t, w)
                          \/ l = "rust" /\ t.of = "Rfc3339Timestamp" /\ w = "a wide time"
      /\ v = "unknown member" => w = v
      /\ t.of \in Whole /\ w \in Numbers => w \in IntegerLiterals("rust")
      /\ t.of = "Rfc3339Timestamp" => w # "an ended time"
      /\ Kept(t, v, w)
  <2>1. CASE v \in Numbers
    <3>1. Accepts(lang, t, v)
      <4>1. v # "unknown member"
        BY <2>1 DEF Numbers, Integers, Floats
      <4> QED BY <4>1, <1>5
    <3>2. lang = "rust" /\ t.of \in Whole => v \in IntegerLiterals("rust")
      BY <1>1, <2>1 DEF Converts
    <3>3. PICK n \in Lexed(lang, v) : w = Native(t, n)
      BY <1>2, <2>1 DEF Held
    <3>4. /\ w \in Numbers \ {"-0", "2^64"} /\ \A l \in Langs : Accepts(l, t, w)
          /\ t.of \in Whole => w \in Integers
          /\ NumberKept(t, v, w)
      BY <1>3, <1>4, <2>1, <3>1, <3>2, <3>3, ReadNumber
    <3>5. w \in Values \ {"-0", "2^64", "broken", "repeated", "an ended time"}
      BY <3>4 DEF Values, JsonValue, Numbers, Integers, Floats
    <3>6. \A l \in Langs : check_ijson(l, w)
      BY <3>4 DEF check_ijson, IntegerLiterals, Langs, Numbers, Integers, Floats
    <3>7. v # "unknown member"
      BY <2>1 DEF Numbers, Integers, Floats
    <3>8. t.of \in Whole => w \in IntegerLiterals("rust")
      BY <3>4 DEF IntegerLiterals
    <3>9. Kept(t, v, w)
      BY <2>1, <3>4 DEF Kept
    <3> QED BY <3>4, <3>5, <3>6, <3>7, <3>8, <3>9
  <2>2. CASE v \notin Numbers /\ ~(v = "absent" /\ lang = "rust" /\ t.of = "flag")
    <3>1. w = v
      BY <1>2, <2>2 DEF Held
    <3>2. v \notin {"2^53", "2^63", "surrogate", "1e400", "NaN"}
      BY <1>4 DEF check_ijson, IntegerLiterals, Integers
    <3>3. v \notin {"-0", "2^64"} /\ \A l \in Langs : v \notin IntegerLiterals(l)
      BY <2>2, <3>2 DEF IntegerLiterals, Numbers, Integers
    <3>4. \A l \in Langs : check_ijson(l, v)
      BY <3>2, <3>3 DEF check_ijson
    <3>5. t.of = "Rfc3339Timestamp" => v # "an ended time"
      <4> SUFFICES ASSUME t.of = "Rfc3339Timestamp", v = "an ended time" PROVE FALSE
        OBVIOUS
      <4>1. lang = "rust"
        BY <1>1 DEF Converts, Langs
      <4>2. Accepts("rust", t, "an ended time")
        BY <1>5, <4>1
      <4>3. Scalars["Rfc3339Timestamp"] = {"a time"}
        BY DEF Scalars, Rfc3339Timestamp
      <4> QED BY <4>2, <4>3, NameSets DEF Accepts, Lists, OpenRecords
    <3>6. ASSUME NEW l \in Langs, Accepts(lang, t, v)
          PROVE  Accepts(l, t, v) \/ (l = "rust" /\ t.of = "Rfc3339Timestamp" /\ v = "a wide time")
      <4>1. CASE t.of = "Rfc3339Timestamp" /\ v \in {"a wide time", "an ended time"}
        BY <3>5, <4>1 DEF Accepts, Langs
      <4>2. CASE ~(t.of = "Rfc3339Timestamp" /\ v \in {"a wide time", "an ended time"})
        BY <3>6, <4>2 DEF Accepts
      <4> QED BY <4>1, <4>2
    <3> QED BY <1>3, <1>4, <2>2, <3>1, <3>3, <3>4, <3>5, <3>6 DEF Kept
  <2>3. CASE v \notin Numbers /\ v = "absent" /\ lang = "rust" /\ t.of = "flag"
    <3>1. w = "false"
      BY <1>2, <2>3 DEF Held
    <3>2. \A l \in Langs : Accepts(l, t, "false")
      <4>1. t.shape = "one"
        BY <1>3, <2>3, NameSets DEF WireType
      <4>2. "false" \in Scalars[t.of] /\ t.of \in DOMAIN Scalars
        BY <2>3, NameSets DEF Scalars, Flags
      <4> QED BY <4>1, <4>2 DEF Accepts
    <3>3. "false" \in Values \ {"-0", "2^64", "broken", "repeated"}
      BY DEF Values, JsonValue, Flags
    <3>4. \A l \in Langs : check_ijson(l, "false")
      BY DEF check_ijson, IntegerLiterals, Integers, Langs
    <3>5. "false" \notin Numbers
      BY DEF Numbers, Integers, Floats
    <3> QED BY <2>3, <3>1, <3>2, <3>3, <3>4, <3>5 DEF Kept
  <2> QED BY <2>1, <2>2, <2>3
<1>7. /\ IsDocument(e) /\ e.value = w /\ e.root = d.root /\ e.decl = d.decl
      /\ e.member = d.member
  BY <1>2, <1>6, OtherValue
<1>8. Type(e) = t
  BY <1>7 DEF Type
<1>9. ASSUME NEW l \in Langs
      PROVE  \/ strict_value(l, e) /\ validate(l, e) /\ Models(l, e)
             \/ l = "rust" /\ WideTime(e)
  <2>1. strict_value(l, e)
    BY <1>6, <1>7 DEF strict_value
  <2>2. Converts(l, e)
    BY <1>6, <1>7, <1>8 DEF Converts
  <2>3. validate(l, e) \/ (l = "rust" /\ WideTime(e))
    BY <1>5, <1>6, <1>7, <1>8 DEF validate, WideTime
  <2> QED BY <1>7, <2>1, <2>2, <2>3, ModelsIs
<1>10. Settled(e)
  BY <1>6, <1>7, <1>9 DEF Settled
<1> QED BY <1>6, <1>7, <1>8, <1>10

(* What is settled is read and written by either language, unless it is    *)
(* too long or a time that is only Python's.                               *)
LEMMA SettledPasses ==
  ASSUME NEW d, Settled(d), NEW lang \in Langs, NEW bytes \in {"within", "over"}
  PROVE  /\ Serialized(lang, d) = {d}
         /\ \A outc \in {Reads(lang, d, bytes), Writes(lang, d, bytes)} :
              outc \in {"ok", "PayloadTooLarge"} \/ (outc = "Schema" /\ WideTime(d))
<1>1. CASE strict_value(lang, d) /\ validate(lang, d) /\ Models(lang, d)
  <2>1. check_ijson(lang, d.value) /\ d.value # "NaN"
    BY <1>1 DEF strict_value, check_ijson
  <2>2. Serialized(lang, d) = {d}
    BY <2>1 DEF Serialized
  <2>3. Reads(lang, d, bytes) \in {"ok", "PayloadTooLarge"}
    BY <1>1 DEF Reads
  <2>4. Writes(lang, d, bytes) \in {"ok", "PayloadTooLarge"}
    BY <1>1, <2>1 DEF Writes
  <2> QED BY <2>2, <2>3, <2>4
<1>2. CASE WideTime(d)
  <2>1. d.value = "a wide time"
    BY <1>2 DEF WideTime
  <2>2. strict_value(lang, d) /\ check_ijson(lang, d.value)
    BY <2>1 DEF strict_value, check_ijson, IntegerLiterals, Integers
  <2>3. Models(lang, d)
    <3>1. Converts(lang, d)
      BY <2>1 DEF Converts, Numbers, Integers, Floats
    <3> QED BY <3>1 DEF Models, Leftover
  <2>4. Serialized(lang, d) = {d}
    BY <2>1 DEF Serialized
  <2>5. Reads(lang, d, bytes) \in {"ok", "PayloadTooLarge", "Schema"}
    BY <2>2, <2>3 DEF Reads
  <2>6. Writes(lang, d, bytes) \in {"ok", "PayloadTooLarge", "Schema"}
    BY <2>2 DEF Writes
  <2> QED BY <1>2, <2>4, <2>5, <2>6
<1> QED BY <1>1, <1>2 DEF Settled

(* What a program can build. *)
LEMMA HandMadeFacts ==
  ASSUME NEW lang \in Langs, NEW p, NEW v \in HandMade(lang, p),
         Declared[p.decl][p.member] \in WireType
  PROVE  /\ v \in Values \ {"-0", "2^64", "broken", "repeated"}
         /\ Declared[p.decl][p.member].of \in Whole /\ v \in Numbers => v \in Integers
         /\ v = "NaN" => Declared[p.decl][p.member].of \in {"number", "JsonValue"}
         /\ Declared[p.decl][p.member].of = "Rfc3339Timestamp" => v # "an ended time"
<1> DEFINE type == Declared[p.decl][p.member]
           one  == CASE type.of = "text"     -> {"a text"} \cup (IF lang = "python" THEN {"surrogate"} ELSE {})
                     [] type.of \in {"flag", "true"} -> Flags
                     [] type.of = "number"   -> Floats \cup {"NaN"}
                     [] type.of = "int32"    -> {"0", "1"}
                     [] type.of = "JsonInteger" -> {"0", "1", "2^31", "2^53-1", "2^53"}
                     [] type.of = "Rfc3339Timestamp" ->
                          {"a time"} \cup (IF lang = "python" THEN {"a wide time"} ELSE {})
                     [] type.of = "JsonValue" -> (JsonValue \ {"-0", "2^64"}) \cup {"2^53", "NaN"}
                     [] OTHER -> {"good"}
<1>1. \/ v \in (IF type.shape = "list" THEN Lists ELSE one)
      \/ v \in {"null", "unknown member", "absent"}
  <2>1. HandMade(lang, p) =
          (IF type.shape = "list" THEN Lists ELSE one) \cup (IF type.null THEN {"null"} ELSE {})
          \cup (IF p.root = "StreamSearchEvent" /\ p.decl \in StreamSearchEvent
                THEN {"unknown member", "absent"} ELSE {})
    BY DEF HandMade
  <2> HIDE DEF one, type
  <2> QED BY <2>1
<1>2. v \in {"null", "unknown member", "absent"} =>
        v \in Values \ {"-0", "2^64", "broken", "repeated", "NaN", "an ended time"} /\ v \notin Numbers
  BY DEF Values, JsonValue, Faults, Numbers, Integers, Floats
<1>3. CASE v \in Lists
  <2> QED BY <1>3 DEF Lists, Values, Numbers, Integers, Floats
<1>4. CASE v \in one /\ type.shape # "list"
  <2>1. CASE type.of \in {"text", "flag", "true"}
    <3>1. v \in {"a text", "surrogate"} \cup Flags
      BY <1>4, <2>1
    <3> QED BY <2>1, <3>1 DEF Values, JsonValue, Words, Flags, Faults, Whole
  <2>2. CASE type.of = "number"
    <3>1. v \in Floats \cup {"NaN"}
      BY <1>4, <2>2
    <3> QED BY <2>2, <3>1 DEF Values, JsonValue, Numbers, Floats, Faults, Whole
  <2>3. CASE type.of \in {"int32", "JsonInteger"}
    <3>1. v \in {"0", "1", "2^31", "2^53-1", "2^53"}
      BY <1>4, <2>3
    <3> QED BY <2>3, <3>1 DEF Values, JsonValue, Numbers, Integers, Floats, Faults, Whole
  <2>4. CASE type.of = "JsonValue"
    <3>1. v \in (JsonValue \ {"-0", "2^64"}) \cup {"2^53", "NaN"}
      BY <1>4, <2>4
    <3>2. v \in Values \ {"-0", "2^64"}
      BY <3>1 DEF Values, Faults
    <3>3. v \notin {"broken", "repeated"}
      BY <3>1 DEF JsonValue, Words, Flags, Numbers, Integers, Floats
    <3> QED BY <2>4, <3>2, <3>3 DEF Whole
  <2>5. CASE type.of = "Rfc3339Timestamp"
    <3>1. v \in {"a time", "a wide time"}
      BY <1>4, <2>5
    <3> QED BY <2>5, <3>1 DEF Values, JsonValue, Words, Whole
  <2>6. CASE type.of \notin {"text", "flag", "true", "number", "int32", "JsonInteger", "JsonValue",
                           "Rfc3339Timestamp"}
    <3>1. v = "good"
      BY <1>4, <2>6
    <3> QED BY <2>6, <3>1 DEF Values, Whole
  <2> QED BY <2>1, <2>2, <2>3, <2>4, <2>5, <2>6
<1> QED BY <1>1, <1>2, <1>3, <1>4

(* Writing what a program built settles it; a NaN in raw data may become   *)
(* null.                                                                   *)
LEMMA WritingSettles ==
  ASSUME NEW d, IsDocument(d), NEW lang \in Langs, d.value \in HandMade(lang, d),
         NEW e \in Serialized(lang, d), NEW bytes \in {"within", "over"},
         Writes(lang, e, bytes) = "ok"
  PROVE  /\ IsDocument(e) /\ Settled(e) /\ Type(e) = Type(d)
         /\ e = d \/ (d.value = "NaN" /\ e.value = "null" /\ Type(d).of = "JsonValue")
<1> DEFINE t == Type(d)
<1>1. t \in WireType /\ t = Declared[d.decl][d.member] /\ d.value \in Values
  BY DocumentFacts DEF Type
<1>2. /\ d.value \in Values \ {"-0", "2^64", "broken", "repeated"}
      /\ t.of \in Whole /\ d.value \in Numbers => d.value \in Integers
      /\ d.value = "NaN" => t.of \in {"number", "JsonValue"}
      /\ t.of = "Rfc3339Timestamp" => d.value # "an ended time"
  BY <1>1, HandMadeFacts
<1>3. check_ijson(lang, e.value) /\ validate(lang, e)
  BY DEF Writes
<1>4. e = d \/ (d.value = "NaN" /\ e = [d EXCEPT !.value = "null"])
  BY DEF Serialized
<1>5. "null" \in Values /\ "null" \notin Numbers
  BY DEF Values, JsonValue, Numbers, Integers, Floats
<1>6. /\ IsDocument(e) /\ Type(e) = t
      /\ e = d \/ (d.value = "NaN" /\ e.value = "null")
  <2>1. CASE e = d
    BY <2>1
  <2>2. CASE d.value = "NaN" /\ e = [d EXCEPT !.value = "null"]
    BY <1>5, <2>2, OtherValue DEF Type
  <2> QED BY <1>4, <2>1, <2>2
<1>7. /\ e.value \notin {"-0", "2^64", "broken", "repeated"}
      /\ t.of \in Whole /\ e.value \in Numbers => e.value \in Integers
      /\ t.of = "Rfc3339Timestamp" => e.value # "an ended time"
  BY <1>2, <1>5, <1>6
<1>8. ASSUME NEW l \in Langs
      PROVE  \/ strict_value(l, e) /\ validate(l, e) /\ Models(l, e)
             \/ l = "rust" /\ WideTime(e)
  <2>1. check_ijson(l, e.value)
    BY <1>3, <1>7 DEF check_ijson, IntegerLiterals, Integers, Langs
  <2>2. strict_value(l, e)
    BY <1>7, <2>1 DEF strict_value
  <2>3. Converts(l, e)
    BY <1>6, <1>7 DEF Converts, IntegerLiterals
  <2>4. validate(l, e) \/ (l = "rust" /\ WideTime(e))
    <3>1. CASE t.of = "Rfc3339Timestamp" /\ e.value = "a wide time"
      <4>1. CASE l = "rust"
        BY <1>6, <3>1, <4>1 DEF WideTime
      <4>2. CASE l # "rust"
        BY <1>3, <1>6, <3>1, <4>2 DEF validate, Accepts, Langs
      <4> QED BY <4>1, <4>2
    <3>2. CASE ~(t.of = "Rfc3339Timestamp" /\ e.value = "a wide time")
      BY <1>3, <1>6, <1>7, <3>2 DEF validate, Accepts
    <3> QED BY <3>1, <3>2
  <2> QED BY <1>6, <2>2, <2>3, <2>4, ModelsIs
<1>9. Settled(e)
  BY <1>3, <1>7, <1>8 DEF Settled
<1>10. d.value = "NaN" /\ e.value = "null" => t.of = "JsonValue"
  <2> SUFFICES ASSUME d.value = "NaN", e.value = "null", t.of = "number" PROVE FALSE
    BY <1>2
  <2>1. Accepts(lang, t, "null")
    BY <1>3, <1>6 DEF validate
  <2>2. ~t.null
    BY <1>1 DEF WireType
  <2>3. "null" \notin Scalars["number"]
    BY <1>5 DEF Scalars
  <2> QED BY <2>1, <2>2, <2>3, NameSets DEF Accepts, Lists, OpenRecords
<1> QED BY <1>6, <1>9, <1>10

----------------------------------------------------------------------------
(* The invariant.                                                          *)

(* Reading keeps what writing and reading have kept so far, when a minus   *)
(* zero is as it was first written.                                        *)
Faithful(type, u, v) ==
  \/ u = v
  \/ u = "absent" /\ v = "false"
  \/ u = "NaN" /\ v = "null" /\ type.of = "JsonValue"
  \/ {u, v} \subseteq Numbers /\ NumberKept(type, u, v)

LEMMA KeptOn ==
  ASSUME NEW type, NEW u, NEW v, NEW w,
         Faithful(type, u, v), Kept(type, v, w), u = v \/ v # "-0"
  PROVE  Faithful(type, u, w)
<1>1. CASE u = v
  BY <1>1 DEF Faithful, Kept
<1>2. CASE u # v /\ u \in Numbers /\ v \in Numbers
  <2>1. v # "absent" /\ u # "absent" /\ u # "NaN"
    BY <1>2 DEF Numbers, Integers, Floats
  <2>2. w = v \/ (w \in Numbers /\ NumberKept(type, v, w))
    BY <1>2, <2>1 DEF Kept
  <2>3. NumberKept(type, u, v)
    BY <1>2, <2>1 DEF Faithful
  <2>4. CASE type.of = "JsonValue" /\ u \in Integers \ {"-0"}
    BY <1>2, <2>3, <2>4 DEF NumberKept
  <2>5. CASE ~(type.of = "JsonValue" /\ u \in Integers \ {"-0"})
    <3>1. CASE w = v
      BY <1>2, <2>3, <3>1 DEF Faithful
    <3>2. CASE w \in Numbers /\ NumberKept(type, v, w)
      <4>1. \A a, b : SameNumber(a, b) => (Double(a) \in Long <=> Double(b) \in Long)
        BY DEF SameNumber, Long
      <4>2. SameNumber(u, v) /\ SameNumber(v, w) => SameNumber(u, w)
        BY DEF SameNumber
      <4>3. \/ SameNumber(u, w)
            \/ type.of \notin Whole /\ {Double(u), Double(w)} \subseteq Long
        BY <2>3, <3>2, <4>1, <4>2 DEF NumberKept
      <4> QED BY <1>2, <2>5, <3>2, <4>3 DEF Faithful, NumberKept
    <3> QED BY <2>2, <3>1, <3>2
  <2> QED BY <2>4, <2>5
<1>3. CASE u # v /\ ~(u \in Numbers /\ v \in Numbers)
  <2>1. v \in {"false", "null"}
    BY <1>3 DEF Faithful
  <2>2. w = v
    BY <2>1 DEF Kept, Numbers, Integers, Floats
  <2> QED BY <1>3, <2>2
<1> QED BY <1>1, <1>2, <1>3

LEMMA FaithfulIs == NothingChangesOnTheWay <=> Faithful(Type(doc), first.value, doc.value)
BY DEF NothingChangesOnTheWay, Faithful

LEMMA InitIInv == Init => IInv
<1> SUFFICES ASSUME Init PROVE IInv
  OBVIOUS
<1>1. PICK root \in Roots : \E p \in Places(root) :
       \/ form = "bytes" /\ \E v \in Values : doc = At(p, v)
       \/ form \in Langs /\ \E v \in HandMade(form, p) : doc = At(p, v)
  BY DEF Init
<1>2. PICK p \in Places(root) :
       \/ form = "bytes" /\ \E v \in Values : doc = At(p, v)
       \/ form \in Langs /\ \E v \in HandMade(form, p) : doc = At(p, v)
  BY <1>1
<1>3. Declared[p.decl][p.member] \in WireType
  <2>1. PICK e \in Within[root] \cap DOMAIN Declared :
          \E m \in DOMAIN Declared[e] : p = [root |-> root, decl |-> e, member |-> m]
    BY DEF Places
  <2>2. PICK m \in DOMAIN Declared[e] : p = [root |-> root, decl |-> e, member |-> m]
    BY <2>1
  <2> QED BY <2>2, DeclaredTyped DEF Typed
<1>4. \/ form = "bytes" /\ \E v \in Values : doc = At(p, v)
      \/ form \in Langs /\ \E v \in Values : doc = At(p, v) /\ v \in HandMade(form, p)
  <2>1. ASSUME form \in Langs, NEW v \in HandMade(form, p), doc = At(p, v)
        PROVE  \E u \in Values : doc = At(p, u) /\ u \in HandMade(form, p)
    <3>1. v \in Values
      BY <1>3, <2>1, HandMadeFacts
    <3> QED BY <2>1, <3>1
  <2> QED BY <1>2, <2>1
<1>5. IsDocument(doc) /\ form \in {"bytes"} \cup Langs
  BY <1>4 DEF IsDocument
<1>6. form \in Langs => doc.value \in HandMade(form, doc)
  <2>1. ASSUME NEW v \in Values, doc = At(p, v), v \in HandMade(form, p)
        PROVE  doc.value \in HandMade(form, doc)
    BY <2>1 DEF At, HandMade
  <2>2. "bytes" \notin Langs
    BY DEF Langs
  <2> QED BY <1>4, <2>1, <2>2
<1>7. /\ size \in {"within", "over"} /\ first = doc /\ outcome = "ok" /\ vetted = FALSE
      /\ hops = 0
  BY DEF Init
<1>8. TypeOK
  <2>1. IsDocument(first)
    BY <1>5, <1>7 DEF IsDocument
  <2>2. hops \in 0..MaxHops
    BY <1>7, CodecAssumption
  <2>3. /\ outcome \in {"ok", "PayloadTooLarge", "Json", "Schema", "Model"}
        /\ size \in {"within", "over"} /\ vetted \in BOOLEAN
    BY <1>7
  <2> QED BY <1>5, <2>1, <2>2, <2>3 DEF TypeOK
<1>9. Vetting
  BY <1>6, <1>7 DEF Vetting
<1> QED BY <1>7, <1>8, <1>9
        DEF IInv, OnceVettedAlwaysVetted, NothingChangesOnTheWay

LEMMA DecodeStep ==
  ASSUME IInv, NEW lang \in Langs, Decode(lang)
  PROVE  IInv'
<1>1. /\ form = "bytes" /\ outcome = "ok" /\ hops < MaxHops
      /\ outcome' = Reads(lang, doc, size) /\ hops' = hops + 1
      /\ size' = size /\ first' = first
  BY DEF Decode
<1>2. TypeOK /\ Vetting /\ NothingChangesOnTheWay
  BY DEF IInv
<1>3. IsDocument(doc) /\ IsDocument(first) /\ size \in {"within", "over"}
  BY <1>2 DEF TypeOK
<1>4. hops' \in 0..MaxHops
  BY <1>1, <1>2, CodecAssumption DEF TypeOK
<1>5. outcome' \in {"ok", "PayloadTooLarge", "Json", "Schema", "Model"}
  BY <1>1 DEF Reads
<1>7. CASE outcome' = "ok"
  <2>1. strict_value(lang, doc) /\ validate(lang, doc) /\ Models(lang, doc)
    BY <1>1, <1>7 DEF Reads
  <2>2. form' = lang /\ doc' \in Model(lang, doc) /\ vetted' = TRUE
    BY <1>7 DEF Decode
  <2>3. /\ IsDocument(doc') /\ Settled(doc') /\ Type(doc') = Type(doc)
        /\ Kept(Type(doc), doc.value, doc'.value)
    BY <1>3, <2>1, <2>2, ReadingSettles
  <2>4. first.value = doc.value \/ doc.value # "-0"
    BY <1>2 DEF Vetting, Settled
  <2>5. Faithful(Type(doc), first.value, doc'.value)
    <3> DEFINE w == doc'.value
    <3>1. Faithful(Type(doc), first.value, doc.value)
      BY <1>2, FaithfulIs
    <3>2. Kept(Type(doc), doc.value, w)
      BY <2>3
    <3> HIDE DEF w
    <3>3. Faithful(Type(doc), first.value, w)
      BY <2>4, <3>1, <3>2, KeptOn
    <3> QED BY <3>3 DEF w
  <2>6. TypeOK'
    BY <1>1, <1>3, <1>4, <1>5, <2>2, <2>3 DEF TypeOK
  <2>7. Vetting'
    BY <2>2, <2>3 DEF Vetting
  <2>8. NothingChangesOnTheWay'
    BY <1>1, <2>3, <2>5 DEF Faithful, NothingChangesOnTheWay
  <2> QED BY <1>1, <1>7, <2>6, <2>7, <2>8
          DEF IInv, OnceVettedAlwaysVetted
<1>8. CASE outcome' # "ok"
  <2>1. form' = form /\ doc' = doc /\ vetted' = vetted
    BY <1>8 DEF Decode
  <2>2. vetted => outcome' \in {"ok", "PayloadTooLarge"} \/ (outcome' = "Schema" /\ WideTime(doc))
    BY <1>1, <1>2, <1>3, SettledPasses DEF Vetting
  <2>3. TypeOK'
    BY <1>1, <1>2, <1>4, <1>5, <2>1 DEF TypeOK
  <2>4. Vetting'
    BY <1>1, <1>2, <2>1 DEF Vetting
  <2>5. NothingChangesOnTheWay'
    BY <1>1, <1>2, <2>1 DEF NothingChangesOnTheWay
  <2>6. OnceVettedAlwaysVetted'
    BY <2>1, <2>2 DEF OnceVettedAlwaysVetted, WideTime, Type
  <2> QED BY <2>3, <2>4, <2>5, <2>6 DEF IInv
<1> QED BY <1>7, <1>8

LEMMA EncodeStep ==
  ASSUME IInv, NEW lang \in Langs, Encode(lang)
  PROVE  IInv'
<1>1. /\ form = lang /\ outcome = "ok" /\ hops < MaxHops
      /\ size' \in {"within", "over"} /\ hops' = hops + 1 /\ first' = first
  BY DEF Encode
<1>2. TypeOK /\ Vetting /\ NothingChangesOnTheWay
  BY DEF IInv
<1>3. IsDocument(doc) /\ IsDocument(first)
  BY <1>2 DEF TypeOK
<1>4. hops' \in 0..MaxHops
  BY <1>1, <1>2, CodecAssumption DEF TypeOK
<1>5. PICK written \in Serialized(lang, doc) :
        /\ outcome' = Writes(lang, written, size')
        /\ IF outcome' = "ok" THEN form' = "bytes" /\ doc' = written /\ vetted' = TRUE
                              ELSE UNCHANGED <<form, doc, vetted>>
  BY DEF Encode
<1>6. outcome' \in {"ok", "PayloadTooLarge", "Json", "Schema", "Model"}
  BY <1>5 DEF Writes
<1>8. vetted => /\ written = doc
                /\ outcome' \in {"ok", "PayloadTooLarge"} \/ (outcome' = "Schema" /\ WideTime(doc))
  BY <1>1, <1>2, <1>5, SettledPasses DEF Vetting
<1>9. CASE outcome' = "ok"
  <2>1. form' = "bytes" /\ doc' = written /\ vetted' = TRUE
    BY <1>5, <1>9
  <2>2. CASE vetted
    <3>1. doc' = doc /\ Settled(doc')
      BY <1>2, <1>8, <2>1, <2>2 DEF Vetting
    <3>2. TypeOK'
      BY <1>1, <1>3, <1>4, <1>6, <2>1, <3>1 DEF TypeOK
    <3>3. NothingChangesOnTheWay'
      BY <1>1, <1>2, <3>1 DEF NothingChangesOnTheWay
    <3>4. Vetting'
      BY <2>1, <3>1 DEF Vetting
    <3> QED BY <1>1, <1>9, <3>2, <3>3, <3>4
            DEF IInv, OnceVettedAlwaysVetted
  <2>3. CASE ~vetted
    <3>1. doc = first /\ doc.value \in HandMade(lang, doc)
      BY <1>1, <1>2, <2>3 DEF Vetting
    <3>2. /\ IsDocument(written) /\ Settled(written) /\ Type(written) = Type(doc)
          /\ \/ written = doc
             \/ doc.value = "NaN" /\ written.value = "null" /\ Type(doc).of = "JsonValue"
      <4>1. Writes(lang, written, size') = "ok" /\ size' \in {"within", "over"}
        BY <1>1, <1>5, <1>9
      <4>2. written \in Serialized(lang, doc)
        BY <1>5
      <4> QED BY <1>3, <3>1, <4>1, <4>2, WritingSettles
    <3>3. TypeOK'
      BY <1>1, <1>3, <1>4, <1>6, <2>1, <3>2 DEF TypeOK
    <3>4. NothingChangesOnTheWay'
      BY <1>1, <2>1, <3>1, <3>2 DEF NothingChangesOnTheWay
    <3>5. Vetting'
      BY <2>1, <3>2 DEF Vetting
    <3> QED BY <1>1, <1>9, <3>3, <3>4, <3>5
            DEF IInv, OnceVettedAlwaysVetted
  <2> QED BY <2>2, <2>3
<1>10. CASE outcome' # "ok"
  <2>1. form' = form /\ doc' = doc /\ vetted' = vetted
    BY <1>5, <1>10
  <2>2. TypeOK'
    BY <1>1, <1>2, <1>4, <1>6, <2>1 DEF TypeOK
  <2>3. Vetting'
    BY <1>1, <1>2, <2>1 DEF Vetting
  <2>4. NothingChangesOnTheWay'
    BY <1>1, <1>2, <2>1 DEF NothingChangesOnTheWay
  <2>5. OnceVettedAlwaysVetted'
    BY <1>8, <2>1 DEF OnceVettedAlwaysVetted, WideTime, Type
  <2> QED BY <2>2, <2>3, <2>4, <2>5 DEF IInv
<1> QED BY <1>9, <1>10

(* Whatever one codec accepts, reading or writing, is settled: it passes   *)
(* every check of both, but for a time that is only Python's.              *)
THEOREM Inductive == Spec => []IInv
<1>1. IInv /\ [Next]_vars => IInv'
  <2> SUFFICES ASSUME IInv, [Next]_vars PROVE IInv'
    OBVIOUS
  <2>1. ASSUME NEW lang \in Langs, Decode(lang) PROVE IInv'
    BY <2>1, DecodeStep
  <2>2. ASSUME NEW lang \in Langs, Encode(lang) PROVE IInv'
    BY <2>2, EncodeStep
  <2>3. CASE UNCHANGED vars
    BY <2>3 DEF vars, IInv, TypeOK, Vetting, OnceVettedAlwaysVetted, NothingChangesOnTheWay,
                WideTime, Type
  <2> QED BY <2>1, <2>2, <2>3 DEF Next
<1> QED BY <1>1, InitIInv, PTL DEF Spec

(* What decode or encode of codec.rs or contract_codec.py let through,     *)
(* neither language refuses later for any reason but its length, unless it *)
(* is a timestamp that only Python's patterns match.                       *)
THEOREM VettedForGood == Spec => []OnceVettedAlwaysVetted
<1>1. IInv => OnceVettedAlwaysVetted
  BY DEF IInv
<1> QED BY <1>1, Inductive, PTL

(* No number of readings and writings by codec.rs and contract_codec.py    *)
(* changes what a document says, but for a NaN in raw data and for doubles *)
(* of more digits than serde_json reads exactly.                           *)
THEOREM NothingChanges == Spec => []NothingChangesOnTheWay
<1>1. IInv => NothingChangesOnTheWay
  BY DEF IInv
<1> QED BY <1>1, Inductive, PTL

(* What a scalar of the contract accepts is a value of JSON. *)
LEMMA ScalarValues == \A n \in DOMAIN Scalars : Scalars[n] \subseteq JsonValue
<1> TAKE n \in DOMAIN Scalars
<1>1. /\ Words \subseteq JsonValue /\ Flags \subseteq JsonValue /\ Numbers \subseteq JsonValue
      /\ {"true"} \subseteq JsonValue
  BY DEF JsonValue, Flags
<1>2. JsonInteger \subseteq Numbers
  BY DEF JsonInteger, Numbers
<1>3. /\ Rfc3339Timestamp \subseteq Words /\ EnvelopeStatus \subseteq Words
      /\ BatchItemStatus \subseteq Words /\ HealthResponseStatus \subseteq Words
  BY DEF Rfc3339Timestamp, EnvelopeStatus, BatchItemStatus, HealthResponseStatus, Words
<1> QED BY <1>1, <1>2, <1>3 DEF Scalars

(* A vetted stream event is a result or the end, although the generated    *)
(* struct of codec.rs can hold both and neither.                           *)
THEOREM EventsAreOneThing == Spec => []StreamEventIsOneThing
<1>1. IInv => StreamEventIsOneThing
  <2> SUFFICES ASSUME IInv, vetted, doc.root = "StreamSearchEvent",
                      doc.decl \in StreamSearchEvent
               PROVE  doc.value \notin {"unknown member", "absent"}
    BY DEF StreamEventIsOneThing
  <2>1. validate("python", doc) /\ IsDocument(doc)
    BY DEF IInv, TypeOK, Vetting, Settled, Langs
  <2>2. doc.decl \notin OpenRecords
    BY DEF StreamSearchEvent, OpenRecords
  <2>3. Accepts("python", Type(doc), doc.value)
    BY <2>1, <2>2 DEF validate
  <2>4. Type(doc).required
    <3>1. \A m \in DOMAIN StreamDoneEvent : m = "done"
      BY DEF StreamDoneEvent
    <3>2. Type(doc) = Declared[doc.decl][doc.member] /\ doc.member \in DOMAIN Declared[doc.decl]
      BY <2>1, DocumentFacts DEF Type
    <3> QED BY <3>1, <3>2, EnvelopeMembers, EventMembers, DeclaredIs DEF StreamSearchEvent
  <2>5. \A n \in DOMAIN Scalars : Scalars[n] \subseteq JsonValue
    BY NameSets, ScalarValues
  <2>6. "absent" \notin JsonValue /\ "unknown member" \notin JsonValue
    BY DEF JsonValue, Words, Flags, Numbers, Integers, Floats
  <2> QED BY <2>3, <2>4, <2>5, <2>6 DEF Accepts, Lists
<1> QED BY <1>1, Inductive, PTL

(* Every variable keeps its type, whatever the codecs say of a document.   *)
THEOREM TypeCorrect == Spec => []TypeOK
<1>1. IInv => TypeOK
  BY DEF IInv
<1> QED BY <1>1, Inductive, PTL

(* The strict sequence of decode is the same in codec.rs and in            *)
(* contract_codec.py, for every payload of any root, but for an integer    *)
(* beyond 64 bits, for what a Rust integer takes and for the three         *)
(* dialects of the pattern of a timestamp.                                 *)
THEOREM ReadersDifferAsStated == Spec => []DifferOnlyOnNumbersAndTimes
<1>1. TypeOK => DifferOnlyOnNumbersAndTimes
  <2> DEFINE v == doc.value
             t == Type(doc)
             r == Reads("rust", doc, size)
             p == Reads("python", doc, size)
             Goal == \/ r = p
                     \/ v = "2^64" /\ p = "Json" /\ r \in {"ok", "Schema"}
                     \/ v \in Floats \cup {"-0"} /\ r = "Model" /\ p = "ok"
                     \/ /\ t.of = "Rfc3339Timestamp" /\ r = "Schema"
                        /\ \/ v = "a wide time" /\ p = "ok"
                           \/ v = "an ended time" /\ p = "Model"
  <2> SUFFICES ASSUME TypeOK PROVE Goal
    BY DEF DifferOnlyOnNumbersAndTimes
  <2>1. IsDocument(doc) /\ t \in WireType
    BY DocumentFacts DEF TypeOK
  <2>2. \A l \in Langs : Models(l, doc) <=> Converts(l, doc)
    BY <2>1, ModelsIs
  <2>3. CASE size = "over"
    BY <2>3 DEF Reads
  <2>4. CASE size # "over" /\ t.of = "Rfc3339Timestamp" /\ v \in {"a wide time", "an ended time"}
    <3>1. \A l \in Langs : strict_value(l, doc)
      BY <2>4 DEF strict_value, check_ijson, IntegerLiterals, Integers
    <3>2. validate("python", doc)
      BY <2>4, ValidatorsBuild DEF validate, Accepts
    <3>3. ~validate("rust", doc)
      <4>1. Scalars["Rfc3339Timestamp"] = {"a time"}
        BY DEF Scalars, Rfc3339Timestamp
      <4> QED BY <2>4, <4>1, NameSets DEF validate, Accepts, Lists, OpenRecords
    <3>4. Models("python", doc) <=> v = "a wide time"
      BY <2>2, <2>4 DEF Converts, Langs
    <3>5. "rust" \in Langs /\ "python" \in Langs
      BY DEF Langs
    <3> QED BY <2>4, <3>1, <3>2, <3>3, <3>4, <3>5 DEF Reads
  <2> DEFINE timely == t.of = "Rfc3339Timestamp" /\ v \in {"a wide time", "an ended time"}
  <2>5. CASE size # "over" /\ ~timely
    <3>1. validate("rust", doc) <=> validate("python", doc)
      BY <2>5 DEF validate, Accepts
    <3>2. Models("python", doc)
      BY <2>2, <2>5 DEF Converts, Langs
    <3>3. CASE v = "2^64"
      <4>1. ~strict_value("python", doc)
        BY <3>3 DEF strict_value, check_ijson, IntegerLiterals, Integers
      <4>2. strict_value("rust", doc)
        BY <3>3 DEF strict_value, check_ijson, IntegerLiterals, Integers
      <4>3. validate("rust", doc) => Models("rust", doc)
        <5> SUFFICES ASSUME validate("rust", doc), t.of \in Whole PROVE FALSE
          BY <2>2 DEF Converts, Langs
        <5>1. Accepts("rust", t, v) /\ "rust" \in Langs
          BY <3>3 DEF validate, Langs
        <5>2. "2^64" \in Numbers \ JsonInteger
          BY DEF Numbers, JsonInteger, Integers, Floats
        <5>3. v \in Scalars[t.of] /\ t.of \in {"int32", "JsonInteger"}
          BY <2>1, <3>3, <5>1, <5>2, AcceptedNumber DEF Whole
        <5>4. Scalars["JsonInteger"] = JsonInteger /\ Scalars["int32"] \subseteq JsonInteger
          BY DEF Scalars
        <5> QED BY <3>3, <5>2, <5>3, <5>4
      <4> QED BY <2>5, <3>3, <4>1, <4>2, <4>3 DEF Reads
    <3>4. CASE v # "2^64"
      <4>1. strict_value("rust", doc) <=> strict_value("python", doc)
        BY <3>4 DEF strict_value, check_ijson, IntegerLiterals, Integers
      <4>2. CASE Models("rust", doc)
        BY <3>1, <3>2, <4>1, <4>2 DEF Reads
      <4>3. CASE ~Models("rust", doc)
        <5>1. v \in Numbers \ IntegerLiterals("rust")
          BY <2>2, <4>3 DEF Converts, Langs
        <5>2. v \in Floats \cup {"-0"}
          BY <3>4, <5>1 DEF Numbers, IntegerLiterals
        <5> QED BY <2>5, <3>1, <3>2, <4>1, <4>3, <5>2 DEF Reads
      <4> QED BY <4>2, <4>3
    <3> QED BY <3>3, <3>4
  <2> QED BY <2>3, <2>4, <2>5
<1> QED BY <1>1, TypeCorrect, PTL
=============================================================================
