------------------------------ MODULE SpnBatch ------------------------------
(***************************************************************************)
(* Exact lookups by supplier part number (server/routers/spn.py): one      *)
(* number by GET /v1/spn, many by POST /v1/spn/batch.  A batch is cut into *)
(* chunks of the size the supplier's adapter takes; each chunk is one call *)
(* of get_part_details_batch, which fails as a whole or answers, and then  *)
(* each number of the chunk gets an item of its own.                       *)
(*                                                                         *)
(* The adapters differ in what they make of a failure.  DigiKey raises.    *)
(* LCSC and Mouser log it and answer None.  JLCPCB asks the signed API     *)
(* (when it has credentials) and sends what is still missing to the page   *)
(* scraper, one request per number, which answers None when it fails: that *)
(* is its hybrid backend, the only one the service configures.             *)
(* A request makes its own adapter, so nothing is shared between requests: *)
(* the module follows one request.  What the suppliers would say of each   *)
(* number is fixed for that request (api, page).                           *)
(***************************************************************************)
EXTENDS Naturals, Sequences, FiniteSets

CONSTANTS
  Spns,       (* part numbers, trimmed                                       *)
  Blank,      (* what trims to nothing                                       *)
  Requests,   (* the lists of numbers that arrive                            *)
  Suppliers,  (* see Supplier                                                *)
  Size        (* Size[s]: max_spn_batch_size (Mouser 10, the JLC API 1000,   *)
              (* everyone else 1)                                            *)

Supplier == {"digikey", "lcsc", "mouser", "jlcpcb", "jlcpcb_api"}

(* What a supplier's API has for a number: a part; a part whose fields do  *)
(* not fit the response model; one that fits, with a number in it that     *)
(* I-JSON cannot write; a part under another spelling of the number; no    *)
(* part; or an answer that cannot be had or read.  DigiKey's 404 is an     *)
(* answer that cannot be had (digikey.py:322).  A page of JLCPCB's is      *)
(* never of another spelling: a description with half a surrogate pair     *)
(* does not fit (jlc_scraper.py:641), a stock of digits may be too long.   *)
Api  == {"found", "unfit", "unwritable", "respelled", "absent", "failed"}
Page == Api \ {"respelled"}

ASSUME SpnAssumption ==
  /\ Blank \notin Spns
  /\ Requests \subseteq Seq(Spns \cup {Blank})
  /\ Suppliers \subseteq Supplier
  /\ Size \in [Supplier -> Nat \ {0}]
  /\ \A s \in {"digikey", "lcsc", "jlcpcb"} : Size[s] = 1

VARIABLES
  phase,      (* where the request is                                        *)
  supplier,   (* whom it asks                                                *)
  api, page,  (* what the supplier's API, and JLCPCB's pages, would say      *)
  cleaned,    (* cleaned_spns                                                *)
  handled,    (* start: the numbers of the chunks done                       *)
  got,        (* chunk_results: what the adapter has for each number         *)
  todo,       (* missing_codes: positions still to be scraped                *)
  items,      (* the answer so far, one item per number                      *)
  broken,     (* does a part in items hold a number I-JSON cannot write      *)
  upstream,   (* requests made of the supplier's clients; one of DigiKey's   *)
              (* may take three tries, see DigikeyClient                     *)
  status      (* of the envelope                                             *)

world == <<supplier, api, page>>
vars  == <<phase, world, cleaned, handled, got, todo, items, broken, upstream, status>>

Parts        == {"nothing", "part", "unfit", "unwritable"}
ItemStatuses == {"ok", "not_found", "provider_error"}
Statuses     == ItemStatuses \cup {"none", "partial", "http_500"}

Nothing == [c \in Spns |-> "nothing"]

Init ==
  /\ phase = "idle"
  /\ supplier \in Suppliers
  /\ api \in [Spns -> Api]
  /\ page \in [Spns -> Page]
  /\ cleaned = <<>> /\ handled = 0 /\ got = Nothing /\ todo = {}
  /\ items = <<>> /\ broken = FALSE /\ upstream = 0 /\ status = "none"

-----------------------------------------------------------------------------
(* No such supplier, or (DigiKey) no credentials to make its adapter with. *)
NoAdapter ==
  /\ phase = "idle"
  /\ phase' = "answered"
  /\ status' = "provider_error"
  /\ UNCHANGED <<world, cleaned, handled, got, todo, items, broken, upstream>>

(* What an API's answer for one number amounts to.  DigiKey and LCSC file  *)
(* the part under the number asked, Mouser under its own spelling of it.   *)
FromApi(c) ==
  IF api[c] = "respelled"
    THEN IF supplier = "mouser" THEN "nothing" ELSE "part"
  ELSE IF api[c] = "found" THEN "part"
  ELSE IF api[c] \in {"unfit", "unwritable"} THEN api[c] ELSE "nothing"

FromPage(c) ==
  IF page[c] = "found" THEN "part"
  ELSE IF page[c] \in {"unfit", "unwritable"} THEN page[c] ELSE "nothing"

(* What the page adds to the API's part, its manufacturer before all, can  *)
(* mend it or spoil it.                                                    *)
Enriched(part, added) ==
  {d \in {"part", "unfit", "unwritable"} :
     \/ d = part
     \/ d = "part" /\ part = "unfit"
     \/ d = "unfit" /\ added = "unfit"
     \/ d = "unwritable" /\ (part = "unfit" \/ added # "part")}

(* get_part_details: only DigiKey raises; JLCPCB adds the page to what its *)
(* API has, and falls back to it when that fails or has no part.           *)
Details(c) ==
  IF supplier = "digikey" /\ api[c] = "failed" THEN {"raised"}
  ELSE IF supplier = "jlcpcb" \/ (supplier = "jlcpcb_api" /\ FromApi(c) = "nothing")
    THEN {FromPage(c)}
  ELSE IF supplier = "jlcpcb_api" /\ FromPage(c) # "nothing"
    THEN Enriched(FromApi(c), FromPage(c))
  ELSE {FromApi(c)}

(* GET /v1/spn.  A part that does not fit raises outside the try, one that *)
(* cannot be written raises when the envelope is encoded.                  *)
LookupOne(c) ==
  /\ phase = "idle"
  /\ phase' = "answered"
  /\ \E part \in Details(c) :
       status' = IF part = "raised" THEN "provider_error"
                 ELSE IF part = "nothing" THEN "not_found"
                 ELSE IF part = "part" THEN "ok" ELSE "http_500"
  /\ UNCHANGED <<world, cleaned, handled, got, todo, items, broken, upstream>>

-----------------------------------------------------------------------------
(* POST /v1/spn/batch. *)

(* cleaned_spns: what is not blank, in order.                              *)
Cleaned(spns) ==
  LET kept[n \in 0..Len(spns)] ==
        IF n = 0 THEN <<>>
        ELSE IF spns[n] = Blank THEN kept[n - 1] ELSE Append(kept[n - 1], spns[n])
  IN  kept[Len(spns)]

Receive(spns) ==
  /\ phase = "idle"
  /\ cleaned' = Cleaned(spns)
  /\ IF Cleaned(spns) = <<>>
     THEN phase' = "answered" /\ status' = "not_found"
     ELSE phase' = "chunk" /\ UNCHANGED status
  /\ UNCHANGED <<world, handled, got, todo, items, broken, upstream>>

Smaller(m, n) == IF m <= n THEN m ELSE n

ChunkEnd  == Smaller(handled + Size[supplier], Len(cleaned))
Chunk     == (handled + 1)..ChunkEnd
ChunkSpns == {cleaned[n] : n \in Chunk}

(* Is there a number that makes the request of the chunk fail? *)
ChunkFails == \E c \in ChunkSpns : api[c] = "failed"

(* Mutant: the numbers are read from the start of the batch again. *)
Store_WithinChunk(said) ==
  /\ items' = [n \in 1..ChunkEnd |->
                 IF n <= handled THEN items[n]
                 ELSE [spn |-> cleaned[n - handled], status |-> said[n]]]
  /\ handled' = ChunkEnd
  /\ phase' = IF ChunkEnd = Len(cleaned) THEN "finish" ELSE "chunk"

(* The items of the chunk join the answer. *)
Store(said) ==
  /\ items' = [n \in 1..ChunkEnd |->
                 IF n <= handled THEN items[n]
                 ELSE [spn |-> cleaned[n], status |-> said[n]]]
  /\ handled' = ChunkEnd
  /\ phase' = IF ChunkEnd = Len(cleaned) THEN "finish" ELSE "chunk"

(* A part that does not fit is an error of its own number only. *)
ItemStatus(part) ==
  IF part = "nothing" THEN "not_found"
  ELSE IF part \in {"unfit", "raised"} THEN "provider_error" ELSE "ok"

(* Mutant: the exception is caught around the loop over the chunks. *)
ChunkRaises_EndsBatch ==
  /\ phase = "chunk" /\ supplier = "digikey" /\ ChunkFails
  /\ upstream' = upstream + 1
  /\ items' = [n \in DOMAIN cleaned |->
                 IF n <= handled THEN items[n]
                 ELSE [spn |-> cleaned[n], status |-> "provider_error"]]
  /\ handled' = Len(cleaned)
  /\ phase' = "finish"
  /\ UNCHANGED <<world, cleaned, got, todo, broken, status>>

(* DigiKey raises: every number of the chunk is an error, and the next     *)
(* chunk is tried all the same.                                            *)
ChunkRaises ==
  /\ phase = "chunk" /\ supplier = "digikey" /\ ChunkFails
  /\ upstream' = upstream + 1
  /\ Store([n \in Chunk |-> ItemStatus("raised")])
  /\ UNCHANGED <<world, cleaned, got, todo, broken, status>>

(* Mutant: LCSC's part, too, is filed under its own spelling. *)
FromChunk_OwnSpelling(kept) ==
  [c \in Spns |->
     IF c \notin kept \/ api[c] = "respelled" THEN "nothing" ELSE FromApi(c)]

(* What an API hands back for the numbers in kept.  In a batch JLCPCB's    *)
(* parts, too, are filed under its own spelling.                           *)
FromChunk(kept) ==
  [c \in Spns |->
     IF c \notin kept \/ (supplier = "jlcpcb_api" /\ api[c] = "respelled")
     THEN "nothing" ELSE FromApi(c)]

(* What was read of an answer before it failed, if it did. *)
Kept == IF ChunkFails THEN SUBSET {c \in ChunkSpns : api[c] # "failed"} ELSE {ChunkSpns}

(* The others answer, if only with nothing: they log a failure. *)
ChunkAnswers ==
  /\ phase = "chunk"
  /\ supplier \in {"mouser", "lcsc"} \/ (supplier = "digikey" /\ ~ChunkFails)
  /\ upstream' = upstream + 1
  /\ \E kept \in Kept : got' = FromChunk(kept)
  /\ phase' = "store"
  /\ UNCHANGED <<world, cleaned, handled, todo, items, broken, status>>

(* What has no part yet goes to JLCPCB's pages. *)
ThenScrape(kept) ==
  /\ got' = FromChunk(kept)
  /\ todo' = {n \in Chunk : got'[cleaned[n]] = "nothing"}
  /\ phase' = IF todo' = {} THEN "store" ELSE "scrape"
  /\ UNCHANGED <<world, cleaned, handled, items, broken, status>>

AskApi ==
  /\ phase = "chunk" /\ supplier = "jlcpcb_api" /\ ~ChunkFails
  /\ upstream' = upstream + 1
  /\ ThenScrape(ChunkSpns)

(* Mutant: a failed API request is made again. *)
ApiFails_Retries ==
  /\ phase = "chunk" /\ supplier = "jlcpcb_api" /\ ChunkFails
  /\ upstream' = upstream + 1
  /\ UNCHANGED <<phase, world, cleaned, handled, got, todo, items, broken, status>>

(* The request fails, or a part of its answer cannot be read: what was     *)
(* read before that is kept.                                               *)
ApiFails ==
  /\ phase = "chunk" /\ supplier = "jlcpcb_api" /\ ChunkFails
  /\ upstream' = upstream + 1
  /\ \E kept \in Kept : ThenScrape(kept)

(* JLCPCB has no API credentials: the pages have to do. *)
SkipApi ==
  /\ phase = "chunk" /\ supplier = "jlcpcb"
  /\ UNCHANGED upstream
  /\ ThenScrape({})

(* One page is fetched; a repeated number is fetched again. *)
Scrape ==
  /\ phase = "scrape"
  /\ \E n \in todo :
       /\ \A m \in todo : n <= m
       /\ todo' = todo \ {n}
       /\ got' = [got EXCEPT ![cleaned[n]] = FromPage(cleaned[n])]
  /\ upstream' = upstream + 1
  /\ phase' = IF todo' = {} THEN "store" ELSE "scrape"
  /\ UNCHANGED <<world, cleaned, handled, items, broken, status>>

(* Mutant: the parts of a batch are converted outside the try. *)
StoreChunk_Unguarded ==
  /\ phase = "store"
  /\ Store([n \in Chunk |-> ItemStatus(got[cleaned[n]])])
  /\ broken' = (broken \/ \E n \in Chunk : got[cleaned[n]] \in {"unfit", "unwritable"})
  /\ got' = Nothing
  /\ UNCHANGED <<world, cleaned, todo, upstream, status>>

StoreChunk ==
  /\ phase = "store"
  /\ Store([n \in Chunk |-> ItemStatus(got[cleaned[n]])])
  /\ broken' = (broken \/ \E n \in Chunk : got[cleaned[n]] = "unwritable")
  /\ got' = Nothing
  /\ UNCHANGED <<world, cleaned, todo, upstream, status>>

(* Mutant: one part found makes the batch ok. *)
BatchStatus_AnyOk(said) ==
  IF said = {} THEN "not_found"
  ELSE IF "ok" \in said THEN "ok"
  ELSE IF Cardinality(said) = 1 THEN CHOOSE st \in said : TRUE
  ELSE "partial"

BatchStatus(said) ==
  IF said = {} THEN "not_found"
  ELSE IF Cardinality(said) = 1 THEN CHOOSE st \in said : TRUE
  ELSE "partial"

(* The envelope; encoding it raises over any number it cannot write. *)
Finish ==
  /\ phase = "finish"
  /\ phase' = "answered"
  /\ status' = IF broken THEN "http_500"
               ELSE BatchStatus({items[n].status : n \in DOMAIN items})
  /\ UNCHANGED <<world, cleaned, handled, got, todo, items, broken, upstream>>

-----------------------------------------------------------------------------
Next ==
  \/ NoAdapter
  \/ \E c \in Spns : LookupOne(c)
  \/ \E spns \in Requests : Receive(spns)
  \/ ChunkRaises \/ ChunkAnswers
  \/ AskApi \/ ApiFails \/ SkipApi \/ Scrape
  \/ StoreChunk \/ Finish

Spec == Init /\ [][Next]_vars

-----------------------------------------------------------------------------
TypeOK ==
  /\ phase \in {"idle", "chunk", "scrape", "store", "finish", "answered"}
  /\ supplier \in Suppliers
  /\ api \in [Spns -> Api]
  /\ page \in [Spns -> Page]
  /\ cleaned \in Seq(Spns)
  /\ handled \in 0..Len(cleaned)
  /\ got \in [Spns -> Parts]
  /\ todo \subseteq DOMAIN cleaned
  /\ items \in [1..handled -> [spn : Spns, status : ItemStatuses]]
  /\ broken \in BOOLEAN
  /\ upstream \in Nat
  /\ status \in Statuses

(* The items stay aligned with the numbers asked for, whatever chunks      *)
(* raised, answered in part or went to the scraper on the way: item n is   *)
(* about number n, and an answered batch has one for each of them.         *)
(* (_do_spn_batch, spn.py:137-172)                                         *)
ItemsAligned ==
  /\ \A n \in DOMAIN items : items[n].spn = cleaned[n]
  /\ phase \in {"finish", "answered"} => Len(items) = Len(cleaned)

(* The chunk number n was in, and whether its request failed. *)
ChunkStart(n) == ((n - 1) \div Size[supplier]) * Size[supplier]
Mates(n)      == {m \in DOMAIN cleaned : ChunkStart(m) = ChunkStart(n)}
MateFails(n)  == \E m \in Mates(n) : api[cleaned[m]] = "failed"

(* What the items of a number say that is looked up alone. *)
Alone(c) == {ItemStatus(part) : part \in Details(c)}

(* A batch finds for a number the part a lookup of that number alone finds *)
(* (or misses, or fails to get), in whatever company it was asked: another *)
(* outcome needs a request that failed in its own chunk, or a number       *)
(* JLCPCB spells another way.  A lookup alone may have more outcomes: it   *)
(* adds the page to what the JLC API has, a batch does not.  What each     *)
(* endpoint then makes of a part that does not fit is another matter, see  *)
(* ServerErrorsHaveACause.                                                 *)
(* (spn.py:49-106 and 137-172, jlc.py:241-298 and 300-345)                 *)
AgreesWithSingle ==
  \A n \in DOMAIN items :
    \/ items[n].status \in Alone(cleaned[n])
    \/ MateFails(n)
    \/ supplier = "jlcpcb_api" /\ api[cleaned[n]] = "respelled"

(* What the sources that are asked for number c say; one has the part.     *)
Answers(c) ==
  {api[x] : x \in {y \in {c} : supplier # "jlcpcb"}}
    \cup {page[x] : x \in {y \in {c} : supplier \in {"jlcpcb", "jlcpcb_api"}}}

SourceHas(c) == Answers(c) \cap {"found", "unwritable", "respelled"} # {}

(* A failure stays in its chunk and is never turned into a part: an item   *)
(* that is ok has a source that has the part, and an error has its cause   *)
(* in its own chunk. (spn.py:144-172)                                      *)
FailuresStayInTheirChunk ==
  \A n \in DOMAIN items :
    /\ items[n].status = "ok" => SourceHas(cleaned[n])
    /\ items[n].status = "provider_error" => MateFails(n) \/ "unfit" \in Answers(cleaned[n])

(* An envelope that says ok, or not_found, says it of every number asked.  *)
(* (_batch_status, spn.py:36-46)                                           *)
EnvelopeSpeaksForAll ==
  phase = "answered" /\ cleaned # <<>> =>
    /\ status \in ItemStatuses => \A n \in DOMAIN cleaned : items[n].status = status
    /\ status = "partial" => \E m, n \in DOMAIN cleaned : items[m].status # items[n].status

(* What a batch may cost: a request for each chunk begun and one for each  *)
(* number, the API's failures and repeated numbers included.  Nothing else *)
(* bounds it: the endpoint has no timeout.                                 *)
UpstreamBounded ==
  upstream + Cardinality(todo) <=
    handled + (handled + Size[supplier] - 1) \div Size[supplier]
            + IF phase \in {"scrape", "store"} THEN Cardinality(Chunk) + 1 ELSE 0

(* A lookup is answered with an envelope unless a part of its own stands   *)
(* in the way: one number alone, a part that does not fit or cannot be     *)
(* written; a batch, only a part that it did find and that cannot be       *)
(* written.  A part that does not fit costs a batch one item.              *)
(* (spn.py:87-106 and 157-182, contract_response.py:22)                    *)
ServerErrorsHaveACause ==
  status = "http_500" =>
    IF cleaned = <<>> THEN \E c \in Spns : Answers(c) \cap {"unfit", "unwritable"} # {}
    ELSE \E n \in DOMAIN items :
           items[n].status = "ok" /\ "unwritable" \in Answers(cleaned[n])

(* The books between two steps of a request, which make the properties     *)
(* above inductive: where the loop over the chunks stands, and what may    *)
(* have become of the numbers of the chunk at hand.                        *)
RequestBooks ==
  /\ phase = "idle" => cleaned = <<>>
  /\ phase # "answered" => status = "none"
  /\ phase \in {"chunk", "scrape", "store"} =>
       handled < Len(cleaned) /\ \E k \in 0..handled : handled = k * Size[supplier]
  /\ phase = "finish" => cleaned # <<>>
  /\ broken => \E n \in DOMAIN items :
                 items[n].status = "ok" /\ "unwritable" \in Answers(cleaned[n])

(* What is known of number n of the chunk: it stands where a lookup of it  *)
(* alone would, unless something happened to its company.                  *)
Excused(n) == MateFails(n) \/ (supplier = "jlcpcb_api" /\ api[cleaned[n]] = "respelled")
Known(n) ==
  LET part == got[cleaned[n]] IN
  /\ IF n \in todo THEN FromPage(cleaned[n]) \in Details(cleaned[n]) \/ Excused(n)
     ELSE ItemStatus(part) \in Alone(cleaned[n]) \/ Excused(n)
  /\ part \in {"part", "unwritable"} => SourceHas(cleaned[n])
  /\ part \in {"unfit", "unwritable"} => part \in Answers(cleaned[n])

ChunkBooks ==
  /\ todo \subseteq Chunk
  /\ IF phase = "scrape" THEN supplier \in {"jlcpcb", "jlcpcb_api"} ELSE todo = {}
  /\ phase \in {"scrape", "store"} => \A n \in Chunk : Known(n)

IInv ==
  /\ TypeOK /\ ItemsAligned /\ AgreesWithSingle /\ FailuresStayInTheirChunk
  /\ EnvelopeSpeaksForAll /\ UpstreamBounded /\ ServerErrorsHaveACause
  /\ RequestBooks /\ ChunkBooks

(* ADR-005, docs/adrs/ADR-005-response-envelope.md:32-33: "An upstream     *)
(* authentication, transport, rate-limit, or response-processing failure   *)
(* MUST use `provider_error`; it MUST NOT be converted to `not_found`."    *)
(* A number is a miss only if no source that was asked for it failed.      *)
SourceFailed(n) ==
  \/ supplier # "jlcpcb" /\ MateFails(n)
  \/ supplier \in {"jlcpcb", "jlcpcb_api"} /\ page[cleaned[n]] = "failed"

FailureIsNotNotFound ==
  \A n \in DOMAIN items : items[n].status = "not_found" => ~SourceFailed(n)
=============================================================================
