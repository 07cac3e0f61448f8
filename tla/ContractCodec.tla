---------------------------- MODULE ContractCodec ----------------------------
(***************************************************************************)
(* The two codecs of the wire contract, scm-contracts/src/codec.rs and     *)
(* src/py/scm/contract_codec.py, and a document that travels between them: *)
(* somebody writes it, one language reads it, writes what it read, and so  *)
(* on.                                                                     *)
(*                                                                         *)
(* A document is well formed everywhere but, perhaps, at one member: it is *)
(* the root, the place (declaration and member) and what stands there,     *)
(* "good" where nothing is wrong.  Either language may also write a native *)
(* value that a program built by hand.  Whether a payload fits its byte    *)
(* bound is chosen each time one is written: a codec may lengthen what it  *)
(* read (1 becomes 1.0, a default is spelled out).                         *)
(***************************************************************************)
EXTENDS WireTypes, Sequences, FiniteSets

CONSTANTS
  Roots,    (* the roots documents are made of                              *)
  MaxHops   (* bound: readings and writings of a behaviour                  *)

ASSUME CodecAssumption == Roots \subseteq ContractRoot /\ MaxHops \in Nat

Langs == {"rust", "python"}

(* What else a document may hold where a value is due: a member missing,   *)
(* repeated or unknown, bytes that are not JSON, a lone surrogate, numbers *)
(* no JSON integer or double can carry; lists of 0, 1, 1000 and 1001.      *)
Lists  == {"[]", "1 item", "1000 items", "1001 items"}
Faults == {"absent", "repeated", "unknown member", "broken", "surrogate",
           "2^53", "2^63", "1e400", "NaN"}
Values == {"good"} \cup JsonValue \cup Lists \cup Faults

(* A document is good but for one value, at one place of one root.         *)
Places(root) ==
  UNION {{[root |-> root, decl |-> d, member |-> m] : m \in DOMAIN Declared[d]}
         : d \in Within[root] \cap DOMAIN Declared}
At(p, v) == [root |-> p.root, decl |-> p.decl, member |-> p.member, value |-> v]
Type(d) == Declared[d.decl][d.member]

VARIABLES
  doc,      (* the document: its root, the place and the value there        *)
  form,     (* "bytes", or the language whose native value it is            *)
  size,     (* whether the bytes are within the bound of the next reader    *)
  outcome,  (* what the last codec said: "ok", "PayloadTooLarge", "Json",   *)
            (* "Schema" or "Model"                                          *)
  first,    (* the document as it was first written or built                *)
  vetted,   (* some codec has accepted the document                         *)
  hops      (* counts MaxHops                                               *)

vars == <<doc, form, size, outcome, first, vetted, hops>>

----------------------------------------------------------------------------
(* The lexers.  serde_json reads -0 and integers beyond 64 bits as doubles,*)
(* Python reads every literal without fraction or exponent as an int.      *)
IntegerLiterals(lang) ==
  ((Integers \cup {"2^53", "2^63"}) \ {"-0"})
  \cup (IF lang = "python" THEN {"-0", "2^64"} ELSE {})

(* check_ijson / _check_ijson.                                             *)
check_ijson(lang, v) ==
  /\ v \in IntegerLiterals(lang) => v \in Integers
  /\ v \notin {"1e400", "NaN"}
  /\ v # "surrogate"

(* Mutant: in Rust the last of two members of one name wins. *)
strict_value_LastWins(lang, d) ==
  /\ d.value \notin (IF lang = "rust" THEN {"broken"} ELSE {"broken", "repeated"})
  /\ check_ijson(lang, d.value)

(* strict_value / _loads: bytes to a value, each member once.              *)
strict_value(lang, d) ==
  /\ d.value \notin {"broken", "repeated"}
  /\ check_ijson(lang, d.value)

(* The schemas built into the crate, by the names of their declarations.   *)
GENERATED_SCHEMAS ==
  {"BadRequestResponse", "BatchItemStatus", "EnvelopeMetadata", "EnvelopeStatus",
   "EventStreamResponse", "HttpErrorDetail", "JsonInteger", "JsonValue",
   "LegacyQueryTokenAuth", "Part", "PriceBreak", "ProviderRawData", "ProviderStatusEntry",
   "QueryInteger", "RateLimitSnapshot", "RecordJsonValue", "RecordProviderStatusEntry",
   "Rfc3339Timestamp", "ServerConfigurationErrorResponse", "ServiceErrorDetail",
   "SpnBatchItem", "StreamMpn", "Supplier", "SupplierCapabilities", "UnauthorizedResponse",
   "ValidationErrorDetail", "ValidationErrorItem", "ValidationErrorResponse",
   "DetailEnvelope", "HealthResponse", "ProviderStatusResponse", "SearchEnvelope",
   "SpnBatchEnvelope", "SpnBatchRequest", "SpnEnvelope", "StreamDoneEvent",
   "StreamSearchEvent"}

(* The schemas a root refers to, itself and through others: a scalar with  *)
(* a name is a schema of its own, and so is what envelopes have in common. *)
Envelopes == {"SearchEnvelope", "DetailEnvelope", "SpnEnvelope", "SpnBatchEnvelope"}
Needs(root) ==
  LET used == Within[root] \cap DOMAIN Declared
  IN  Within[root]
      \cup {"EnvelopeMetadata" : d \in used \cap Envelopes}
      \cup ((UNION {{Declared[d][m].of : m \in DOMAIN Declared[d]} : d \in used})
            \ {"text", "flag", "true", "number", "int32", "HealthResponseStatus"})

(* One missing schema and no validator of any root is built.               *)
build_validators == \A root \in ContractRoot : Needs(root) \subseteq GENERATED_SCHEMAS

Length(v) == IF v = "[]" THEN 0 ELSE IF v = "1 item" THEN 1
             ELSE IF v = "1000 items" THEN 1000 ELSE 1001

(* What the unmodified schema accepts in a member of the type.  The date-  *)
(* time pattern is searched by Python's re, whose digits are of any script *)
(* and whose $ also matches before a last line feed.                       *)
Accepts(lang, type, v) ==
  \/ v = "good"
  \/ v = "null" /\ type.null
  \/ v = "absent" /\ ~type.required
  \/ type.shape = "list" /\ v \in Lists /\ Length(v) \in type.min .. type.max
  \/ type.shape = "one" /\ type.of \in DOMAIN Scalars /\ v \in Scalars[type.of]
  \/ type.shape = "one" /\ type.of \in OpenRecords /\ v = "{}"
  \/ /\ lang = "python" /\ type.of = "Rfc3339Timestamp"
     /\ v \in {"a wide time", "an ended time"}

(* validate: every record but the flexible ones is closed.                 *)
validate(lang, d) ==
  /\ build_validators
  /\ \/ Accepts(lang, Type(d), d.value)
     \/ d.value = "unknown member" /\ d.decl \in OpenRecords

----------------------------------------------------------------------------
(* The generated models.  Numbers without bounds are doubles; an integer   *)
(* of the contract is an i64 or an i32 in Rust and an int in Python.       *)
Whole == {"int32", "JsonInteger"}

(* The double of a number, as it is printed.                                *)
Double(v) ==
  CASE v = "0"      -> "0.0"      [] v = "-0"   -> "-0.0"   [] v = "1" -> "1.0"
    [] v = "2^31"   -> "2^31.0"   [] v = "2^64" -> "2^64.0"
    [] v = "2^53-1" -> "2^53-1.0" [] v = "2^53-2" -> "2^53-2.0"
    [] OTHER        -> v
Integer(v) == IF v \in {"-0", "-0.0"} THEN "0"
              ELSE CHOOSE i \in Integers : Double(i) = Double(v)

(* Serde wants an integer that was lexed as one; pydantic takes any number *)
(* of integral value, which is all the schema lets through, but its own    *)
(* engine of patterns knows no line feed before the end.                   *)
Converts(lang, d) ==
  /\ lang = "rust" /\ Type(d).of \in Whole /\ d.value \in Numbers
       => d.value \in IntegerLiterals("rust")
  /\ lang = "python" /\ Type(d).of = "Rfc3339Timestamp" => d.value # "an ended time"

(* What the lexer may make of a number.  serde_json is built without       *)
(* float_roundtrip (Cargo.toml): of a literal with more digits than a      *)
(* double it makes that double or the one next to it, as its arithmetic    *)
(* falls out; Python rounds correctly.                                     *)
Lexed(lang, v) ==
  IF v \in IntegerLiterals(lang) THEN {Integer(v)}
  ELSE IF lang = "rust" /\ v \in Long THEN Long
  ELSE {Double(v)}

(* Mutant: without project_flexible_json_number, flexible numbers are doubles. *)
Native_NoIntegerBranch(type, n) == IF type.of \in Whole THEN Integer(n) ELSE Double(n)

(* The number in a model.  A flexible value keeps integers and doubles     *)
(* apart: project_flexible_json_number adds the branch.                    *)
Native(type, n) ==
  IF type.of = "number" THEN Double(n)
  ELSE IF type.of \in Whole THEN Integer(n)
  ELSE n

(* What the model may hold for what was read.  Rust spells out the default *)
(* of include_raw.                                                         *)
Held(lang, type, v) ==
  IF v \in Numbers THEN {Native(type, n) : n \in Lexed(lang, v)}
  ELSE IF v = "absent" /\ lang = "rust" /\ type.of = "flag" THEN {"false"}
  ELSE {v}

(* A stream event is two optional structs flattened into one: each takes   *)
(* its members one by one, in their order, and is None as soon as one does *)
(* not convert.  What neither has taken by then is an unknown member.      *)
EnvelopeOrder ==
  <<"cached", "data", "error", "error_detail", "parameter_field_name",
    "provider_capabilities", "provider_latency_ms", "rate_limit", "service_timestamp",
    "status", "supplier">>

Holds(m, d) ==
  IF d.decl = "SearchEnvelope" THEN m = d.member
  ELSE LET top == SearchEnvelope[m].of
       IN  top \in DOMAIN Declared /\ d.decl \in Below(top)

(* Mutant: the flattened struct does not deny unknown fields. *)
Leftover_Ignored(d) == {}

Leftover(d) ==
  IF Converts("rust", d) THEN {}
  ELSE {EnvelopeOrder[k] : k \in {j \in DOMAIN EnvelopeOrder :
          \E i \in 1 .. j - 1 : Holds(EnvelopeOrder[i], d)}}

(* serde_json::from_value / model_validate.                                *)
Models(lang, d) ==
  IF lang = "rust" /\ d.root = "StreamSearchEvent" THEN Leftover(d) = {}
  ELSE Converts(lang, d)

(* An event whose two halves are both None has no member at all.           *)
Model(lang, d) ==
  {[d EXCEPT !.value = w] :
     w \in IF Converts(lang, d) THEN Held(lang, Type(d), d.value) ELSE {"absent"}}

----------------------------------------------------------------------------
(* decode: the four checks, in their order.                                *)
Reads(lang, d, bytes) ==
  IF bytes = "over" THEN "PayloadTooLarge"
  ELSE IF ~strict_value(lang, d) THEN "Json"
  ELSE IF ~validate(lang, d) THEN "Schema"
  ELSE IF ~Models(lang, d) THEN "Model"
  ELSE "ok"

(* What encode serializes.  serde_json has no value for NaN but null;      *)
(* model_dump leaves it or not, by the version of pydantic.                *)
Serialized(lang, d) ==
  IF d.value # "NaN" THEN {d}
  ELSE {[d EXCEPT !.value = "null"]} \cup (IF lang = "python" THEN {d} ELSE {})

(* Mutant: what a model holds is valid by its type. *)
Writes_Trusting(lang, d, bytes) ==
  IF ~check_ijson(lang, d.value) THEN "Json"
  ELSE IF bytes = "over" THEN "PayloadTooLarge"
  ELSE "ok"

(* encode, given what is serialized.                                       *)
Writes(lang, d, bytes) ==
  IF ~check_ijson(lang, d.value) THEN "Json"
  ELSE IF ~validate(lang, d) THEN "Schema"
  ELSE IF bytes = "over" THEN "PayloadTooLarge"
  ELSE "ok"

(* What a program can put in a model by hand: Rust types exclude lone      *)
(* surrogates, neither excludes numbers out of range, lists of any length  *)
(* or an event that is both or neither of its two halves.                  *)
HandMade(lang, p) ==
  LET type == Declared[p.decl][p.member]
      one  == CASE type.of = "text"     -> {"a text"} \cup (IF lang = "python" THEN {"surrogate"} ELSE {})
                [] type.of \in {"flag", "true"} -> Flags
                [] type.of = "number"   -> Floats \cup {"NaN"}
                [] type.of = "int32"    -> {"0", "1"}
                [] type.of = "JsonInteger" -> {"0", "1", "2^31", "2^53-1", "2^53"}
                [] type.of = "Rfc3339Timestamp" ->
                     {"a time"} \cup (IF lang = "python" THEN {"a wide time"} ELSE {})
                [] type.of = "JsonValue" -> (JsonValue \ {"-0", "2^64"}) \cup {"2^53", "NaN"}
                [] OTHER -> {"good"}
  IN  (IF type.shape = "list" THEN Lists ELSE one)
          \cup (IF type.null THEN {"null"} ELSE {})
          \cup (IF p.root = "StreamSearchEvent" /\ p.decl \in StreamSearchEvent
                THEN {"unknown member", "absent"} ELSE {})

----------------------------------------------------------------------------
Init ==
  /\ \E root \in Roots : \E p \in Places(root) :
       \/ form = "bytes" /\ \E v \in Values : doc = At(p, v)
       \/ form \in Langs /\ \E v \in HandMade(form, p) : doc = At(p, v)
  /\ size \in {"within", "over"}
  /\ first = doc /\ outcome = "ok" /\ vetted = FALSE /\ hops = 0

(* One language reads the bytes.                                           *)
Decode(lang) ==
  /\ form = "bytes" /\ outcome = "ok" /\ hops < MaxHops
  /\ outcome' = Reads(lang, doc, size)
  /\ IF outcome' = "ok" THEN form' = lang /\ doc' \in Model(lang, doc) /\ vetted' = TRUE
                        ELSE UNCHANGED <<form, doc, vetted>>
  /\ hops' = hops + 1
  /\ UNCHANGED <<size, first>>

(* It writes what it holds; the bytes may fit the next bound or not.       *)
Encode(lang) ==
  /\ form = lang /\ outcome = "ok" /\ hops < MaxHops
  /\ size' \in {"within", "over"}
  /\ \E written \in Serialized(lang, doc) :
       /\ outcome' = Writes(lang, written, size')
       /\ IF outcome' = "ok" THEN form' = "bytes" /\ doc' = written /\ vetted' = TRUE
                             ELSE UNCHANGED <<form, doc, vetted>>
  /\ hops' = hops + 1
  /\ UNCHANGED first

Next == \E lang \in Langs : Decode(lang) \/ Encode(lang)

Spec == Init /\ [][Next]_vars

----------------------------------------------------------------------------
(* A timestamp that only Python's patterns match.                          *)
WideTime(d) == Type(d).of = "Rfc3339Timestamp" /\ d.value = "a wide time"

(* What one codec has let through, reading or writing, no codec of either  *)
(* language refuses later for any reason but its length: contract_codec.py *)
(* and codec.rs can be at the two ends of the wire in any order, although  *)
(* they lex, default and print numbers differently.  One thing is known to *)
(* pass Python alone: a timestamp in digits of another script, which Rust  *)
(* refuses by the schema.                                                  *)
OnceVettedAlwaysVetted ==
  vetted => \/ outcome \in {"ok", "PayloadTooLarge"}
            \/ outcome = "Schema" /\ WideTime(doc)

(* Zero is zero with any sign.                                             *)
SameNumber(v, w) ==
  LET Unsigned(n) == IF n = "-0.0" THEN "0.0" ELSE n
  IN  Unsigned(Double(v)) = Unsigned(Double(w))

(* The same number, or as near as serde_json may take a long decimal for   *)
(* it where a double is due; a flexible integer is that very integer.      *)
NumberKept(type, v, w) ==
  /\ \/ SameNumber(v, w)
     \/ type.of \notin Whole /\ {Double(v), Double(w)} \subseteq Long
  /\ type.of = "JsonValue" /\ v \in Integers \ {"-0"} => w = v

(* No reading and writing changes what the document says: integers keep    *)
(* their value exactly, flexible ones stay the integers they were as far   *)
(* as an i64 goes, doubles keep theirs.  Two losses are known: a NaN that a*)
(* program put in raw data may be written as null, and a double of 16 or   *)
(* 17 digits may come out of Rust as its neighbour.                        *)
NothingChangesOnTheWay ==
  LET v == first.value
      w == doc.value
  IN  \/ v = w
      \/ v = "absent" /\ w = "false"
      \/ v = "NaN" /\ w = "null" /\ Type(doc).of = "JsonValue"
      \/ {v, w} \subseteq Numbers /\ NumberKept(Type(doc), v, w)

(* A vetted stream event is a result or the end, never both and never      *)
(* neither, although both halves are optional in the generated struct.     *)
StreamEventIsOneThing ==
  vetted /\ doc.root = "StreamSearchEvent" /\ doc.decl \in StreamSearchEvent
    => doc.value \notin {"unknown member", "absent"}

(* The two readers refuse the same payloads for the same reason, but for   *)
(* three things: serde_json takes an integer beyond 64 bits for a double,  *)
(* a Rust integer wants an integer literal, and the pattern of a timestamp *)
(* is read in three dialects, by Python's re, by pydantic and by Rust.     *)
DifferOnlyOnNumbersAndTimes ==
  form = "bytes" =>
    LET r == Reads("rust", doc, size)
        p == Reads("python", doc, size)
    IN  \/ r = p
        \/ doc.value = "2^64" /\ p = "Json" /\ r \in {"ok", "Schema"}
        \/ doc.value \in Floats \cup {"-0"} /\ r = "Model" /\ p = "ok"
        \/ /\ Type(doc).of = "Rfc3339Timestamp" /\ r = "Schema"
           /\ \/ doc.value = "a wide time" /\ p = "ok"
              \/ doc.value = "an ended time" /\ p = "Model"

(* ADR-0013: both languages reject what is not I-JSON by the same sequence,*)
(* so what one refuses as such the other does not accept.                  *)
CodecsAgree ==
  form = "bytes" => {Reads("rust", doc, size), Reads("python", doc, size)} # {"ok", "Json"}

----------------------------------------------------------------------------
(* Every variable keeps its type.                                          *)
IsDocument(d) == \E root \in Roots : \E p \in Places(root) : \E v \in Values : d = At(p, v)

TypeOK ==
  /\ IsDocument(doc) /\ IsDocument(first)
  /\ form \in {"bytes"} \cup Langs /\ size \in {"within", "over"}
  /\ outcome \in {"ok", "PayloadTooLarge", "Json", "Schema", "Model"}
  /\ vetted \in BOOLEAN /\ hops \in 0..MaxHops

(* What no codec refuses: each check of each language passes it, and every *)
(* lexer takes it for the same number, but for a time that is only Python's*)
Settled(d) ==
  /\ \A lang \in Langs :
       \/ strict_value(lang, d) /\ validate(lang, d) /\ Models(lang, d)
       \/ lang = "rust" /\ WideTime(d)
  /\ d.value \notin {"-0", "2^64"}

(* Until a codec accepts it a document is what it was, and a native value  *)
(* one that a program can build; from then on it is settled.               *)
Vetting ==
  IF vetted THEN Settled(doc)
  ELSE doc = first /\ (form \in Langs => doc.value \in HandMade(form, doc))

IInv ==
  /\ TypeOK /\ Vetting
  /\ OnceVettedAlwaysVetted /\ NothingChangesOnTheWay
=============================================================================
