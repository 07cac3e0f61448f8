----------------------------- MODULE PartSearch -----------------------------
(***************************************************************************)
(* What one search finds: _do_search of /v1/search (routers/search.py),    *)
(* which the stream repeats (routers/stream.py), with search_by_mpn of the *)
(* adapters below it.  Mouser and DigiKey ask one API.  LCSC asks its own  *)
(* search and, when that has nothing, the marketplace's.  JLCPCB tries its *)
(* public search, then looks the C-codes LCSC lists up one by one, then    *)
(* scrapes its own page, then asks a language model about that page.       *)
(*                                                                         *)
(* Each source filters by a rule of its own, the limit of results is       *)
(* applied before, inside and after these loops, and a source that fails   *)
(* is an empty one to some of its callers and not to others.  A part is    *)
(* what a source tells apart: a C-code, or a brand and model without one   *)
(* (the default spelling of _deduplicate_products).  How a part's model    *)
(* compares with the keyword is fixed for a search, what each source       *)
(* holds, and what of it can be converted, is free.  Searches share        *)
(* nothing, so there is one; parts are always verified, for no endpoint    *)
(* passes verify_parts.                                                    *)
(***************************************************************************)
EXTENDS Integers, Sequences, FiniteSets

CONSTANTS
  Parts,      (* what is on offer                                            *)
  Coded,      (* the parts that have a C-code                                *)
  Listings,   (* the lists of offers a source may hold                       *)
  Models,     (* Models[s]: the models that parts have in searches of s      *)
  AsAsked,    (* the one that is the keyword, letter by letter               *)
  Keywords,   (* see Keyword                                                 *)
  Suppliers,  (* see Supplier                                                *)
  Limits      (* max_results; the endpoint takes any integer                 *)

Supplier == {"jlcpcb", "lcsc", "mouser", "digikey"}

(* mpn of a search: it names a model; nothing is left of it without dashes *)
(* and blanks; it is empty.  The endpoint takes any text.                  *)
Keyword == {"model", "dashes", "empty"}

(* The model of a part against the keyword, case, dashes and blanks aside: *)
(* the same; the keyword within it; it within the keyword; neither; a      *)
(* blank one, or no field for one.  Two models of a kind are spelled       *)
(* differently, which only DigiKey minds.                                  *)
Kind  == {"exact", "longer", "shorter", "other", "unnamed", "missing"}
Model == [kind : Kind, spelling : Nat]

(* An offer of a part.  Smaller ranks are better: the lowest price, then   *)
(* the largest stock, then the vendor's code.  With no packs its           *)
(* conversion raises; with more than one DigiKey lists each packaging.     *)
Offer == [part : Parts, rank : Nat, packs : Nat]

ASSUME SearchAssumption ==
  /\ Coded \subseteq Parts
  /\ Listings \subseteq Seq(Offer)
  /\ <<>> \in Listings
  /\ Models \in [Supplier -> SUBSET Model]
  /\ AsAsked \in Model /\ AsAsked.kind = "exact"
  /\ Keywords \subseteq Keyword
  /\ Suppliers \subseteq Supplier
  /\ Limits \subseteq Int

(* exact and direct: the two lists of DigiKey; Mouser has the second only. *)
Source == {"exact", "direct", "public", "primary", "third", "page", "claude"}
Paged  == {"public", "primary", "third"}

VARIABLES
  phase,      (* where the search is                                         *)
  supplier, hasApi, limit,   (* whom it asks, with JLC credentials or not,   *)
              (* and for how many                                            *)
  keyword, model,   (* what for, and the parts' models                       *)
  said,       (* said[s]: what became of asking source s                     *)
  held,       (* held[s]: the offers s has, of which it sends a page         *)
  listed,     (* listed[s]: the offers it sent, in its order                 *)
  todo,       (* offers still to be looked up                                *)
  refused,    (* parts a loop of lookups looked up in vain                   *)
  found,      (* results                                                     *)
  unfit,      (* positions of results that do not fit the response model     *)
  status, data

world == <<supplier, hasApi, limit, keyword, model>>
vars  == <<phase, world, said, held, listed, todo, refused, found, unfit, status, data>>

Named(offers) == {offers[i].part : i \in DOMAIN offers}
Of(kinds)     == {p \in Parts : model[p].kind \in kinds}

(* The elements of a list at the given positions, in their order.          *)
Picked(offers, positions) ==
  [n \in 1..Cardinality(positions) |->
     offers[CHOOSE i \in positions : Cardinality({j \in positions : j <= i}) = n]]

(* The offers of a list that are of the given parts, and the first offer   *)
(* of each part.                                                           *)
Only(offers, parts)   == Picked(offers, {i \in DOMAIN offers : offers[i].part \in parts})
first_of_each(offers) ==
  Picked(offers, {i \in DOMAIN offers : \A j \in 1 .. i - 1 : offers[j].part # offers[i].part})

(* s[:n] of Python, which counts a negative n from the end.                *)
Sliced(s, n) ==
  IF n >= 0 THEN SubSeq(s, 1, IF n < Len(s) THEN n ELSE Len(s)) ELSE SubSeq(s, 1, Len(s) + n)

(***************************************************************************)
(* The rules of the sources.                                               *)
(***************************************************************************)
matches_expected_mpn   == IF keyword = "empty" THEN Parts ELSE Of({"exact"})
matches_search_keyword == IF keyword = "model" THEN Of({"exact", "longer"}) ELSE {}
row_matches            ==
  Coded \cap IF keyword = "model" THEN Of({"exact", "unnamed", "missing"}) ELSE Parts
detail_matches         == Of({"exact", "longer", "shorter"})

(* One offer for each part, in the order the parts came: the best one, the *)
(* first among equals.                                                     *)
deduplicate_products(offers) ==
  LET f[n \in 0..Len(offers)] ==
        IF n = 0 THEN <<>>
        ELSE LET o == offers[n]
             IN  IF o.part \notin Named(f[n - 1]) THEN Append(f[n - 1], o)
                 ELSE [i \in DOMAIN f[n - 1] |->
                         IF f[n - 1][i].part = o.part /\ o.rank < f[n - 1][i].rank
                         THEN o ELSE f[n - 1][i]]
  IN  f[Len(offers)]

(* DigiKey: the exact matches, then each product whose MPN is not yet      *)
(* among those of the results, where a product without the field has the   *)
(* keyword for its MPN.                                                    *)
SameMpn(p, q) ==
  /\ model[p].kind \notin {"unnamed", "missing"}
  /\ model[p] = IF model[q].kind = "missing" THEN AsAsked ELSE model[q]

packagings(o) == [n \in 1..o.packs |-> o]

exact_then_products(exact, products) ==
  LET all == exact \o products
      f[n \in 0..Len(all)] ==
        IF n = 0 THEN <<>>
        ELSE IF n > Len(exact) /\ \E q \in Named(f[n - 1]) : SameMpn(all[n].part, q)
             THEN f[n - 1]
             ELSE f[n - 1] \o packagings(all[n])
  IN  f[Len(all)]

(* The page that LCSC and the public search are asked for.                 *)
page_size(s) ==
  LET n == IF limit > 0 THEN limit ELSE IF s = "public" \/ supplier = "lcsc" THEN 25 ELSE 10
  IN  IF n < 100 THEN n ELSE 100

Init ==
  /\ phase = "adapter"
  /\ supplier \in Suppliers /\ hasApi \in BOOLEAN /\ limit \in Limits
  /\ (supplier # "jlcpcb" => ~hasApi)
  /\ keyword \in Keywords /\ model \in [Parts -> Models[supplier]]
  /\ (keyword = "dashes" => Of({"shorter", "other"}) = {})
  /\ (keyword = "empty" => Of({"exact", "shorter", "other"}) = {})
  /\ said = [s \in Source |-> "unasked"]
  /\ listed = [s \in Source |-> <<>>] /\ held = [s \in Paged |-> <<>>]
  /\ todo = <<>> /\ found = <<>> /\ data = <<>>
  /\ refused = [loop \in {"resolve", "verify"} |-> {}]
  /\ unfit = {} /\ status = "none"

(***************************************************************************)
(* One source is asked: it fails, or lists some offers.  One that is asked *)
(* for a page sends it, or all it has when it does not heed the size.      *)
(***************************************************************************)
Hear(s, what, offers) ==
  /\ said'   = [said EXCEPT ![s] = what]
  /\ listed' = [listed EXCEPT ![s] = offers]
  /\ UNCHANGED held

HearPage(s, holds, offers) ==
  /\ said'   = [said EXCEPT ![s] = "listed"]
  /\ listed' = [listed EXCEPT ![s] = offers]
  /\ held'   = [held EXCEPT ![s] = holds]

Convertible(offers) == {i \in DOMAIN offers : offers[i].packs > 0}

Results(offers) ==
  /\ found' = offers /\ phase' = "found"
  /\ UNCHANGED <<world, todo, refused, unfit, status, data>>

Done(what, parts) ==
  /\ phase' = "done" /\ status' = what /\ data' = parts
  /\ UNCHANGED <<world, said, held, listed, todo, refused, found>>

(* create_supplier: DigiKey's wants credentials.                           *)
NoAdapter ==
  /\ phase = "adapter" /\ supplier = "digikey"
  /\ Done("provider_error", <<>>) /\ UNCHANGED unfit

(* Mouser logs a failure, or a missing key, and has no results; and logs a *)
(* part that it cannot convert, and leaves it out.                         *)
AskMouser ==
  /\ phase = "adapter" /\ supplier = "mouser"
  /\ \/ Hear("direct", "failed", <<>>) /\ Results(<<>>)
     \/ \E offers \in Listings : Hear("direct", "listed", offers) /\ Results(Picked(offers, Convertible(offers)))

(* DigiKey raises after the last try (see DigikeyClient), or at an answer  *)
(* that it cannot read; a product that it cannot convert is left out.      *)
DigikeyFails ==
  /\ phase = "adapter" /\ supplier = "digikey"
  /\ phase' = "done" /\ status' = "provider_error"
  /\ Hear("direct", "failed", <<>>)
  /\ UNCHANGED <<world, todo, refused, found, unfit, data>>

AskDigikey ==
  /\ phase = "adapter" /\ supplier = "digikey"
  /\ \E exact, products \in Listings :
       /\ said'   = [said EXCEPT !["exact"] = "listed", !["direct"] = "listed"]
       /\ listed' = [listed EXCEPT !["exact"] = exact, !["direct"] = products]
       /\ UNCHANGED held
       /\ Results(exact_then_products(exact, products))

(* _search_public_component_api.  Any limit but zero ends the loop: with a *)
(* negative one, at the first match.  An offer on the way there that       *)
(* cannot be converted fails the whole search.                             *)
Read(offers) ==
  {i \in DOMAIN offers :
     \/ limit = 0
     \/ Cardinality({j \in 1 .. i - 1 : offers[j].part \in matches_expected_mpn})
          < IF limit < 1 THEN 1 ELSE limit}

PublicResults(offers) ==
  LET matches == Only(offers, matches_expected_mpn)
  IN  IF limit = 0 THEN matches ELSE Sliced(matches, IF limit < 1 THEN 1 ELSE limit)

AskPublic ==
  /\ phase = "adapter" /\ supplier = "jlcpcb"
  /\ \/ /\ Hear("public", "failed", <<>>)
        /\ phase' = "primary"
        /\ UNCHANGED <<world, todo, refused, found, unfit, status, data>>
     \/ \E holds \in Listings : \E offers \in {holds, Sliced(holds, page_size("public"))} :
          /\ Read(offers) \subseteq Convertible(offers)
          /\ HearPage("public", holds, offers)
          /\ IF PublicResults(offers) # <<>> THEN Results(PublicResults(offers))
             ELSE /\ phase' = "primary"
                  /\ UNCHANGED <<world, todo, refused, found, unfit, status, data>>

(* search_lcsc: products that fail to parse ("broken") raise; a failed     *)
(* request is an empty answer.                                             *)
AskLcsc(s, ifEmpty) ==
  /\ UNCHANGED <<world, refused, found, unfit, status, data>>
  /\ \/ Hear(s, "broken", <<>>) /\ phase' = "offered" /\ todo' = <<>>
     \/ Hear(s, "failed", <<>>) /\ phase' = ifEmpty /\ todo' = <<>>
     \/ \E holds \in Listings : \E offers \in {holds, Sliced(holds, page_size(s))} :
          /\ HearPage(s, holds, offers)
          /\ phase' = IF offers = <<>> THEN ifEmpty ELSE "offered"
          /\ todo' = deduplicate_products(offers)

AskPrimary ==
  /\ phase = "primary" \/ (phase = "adapter" /\ supplier = "lcsc")
  /\ AskLcsc("primary", "third")

AskThird == phase = "third" /\ AskLcsc("third", "offered")

(* What comes after search_lcsc is outside any try: an offer whose model   *)
(* is not a text (either adapter), or that LCSC cannot convert, ends the   *)
(* search.                                                                 *)
ProductRaises ==
  /\ phase = "offered" /\ Convertible(todo) # DOMAIN todo
  /\ Done("provider_error", <<>>) /\ UNCHANGED unfit

(* LCSC answers with what matches the keyword, up to the limit.            *)
LcscResults ==
  /\ phase = "offered" /\ supplier = "lcsc"
  /\ LET matches == Only(todo, matches_search_keyword)
     IN  Results(IF limit > 0 THEN Sliced(matches, limit) ELSE matches)
  /\ Convertible(found') = DOMAIN found'
  /\ UNCHANGED <<said, held, listed>>

(* _search_via_lcsc_component_codes: JLCPCB looks up what matches and has  *)
(* a code.                                                                 *)
Resolving ==
  /\ phase = "offered" /\ supplier = "jlcpcb"
  /\ phase' = "resolve" /\ todo' = Only(todo, matches_search_keyword \cap Coded)
  /\ UNCHANGED <<world, said, held, listed, refused, found, unfit, status, data>>

(***************************************************************************)
(* The two loops that look offers up one by one, until there are enough.   *)
(***************************************************************************)
(* Mutant: the limit counts lookups, not parts.                            *)
Enough_Tried ==
  limit > 0 /\ Len(found) + Cardinality(refused["resolve"] \cup refused["verify"]) >= limit

Enough == limit > 0 /\ Len(found) >= limit

LookedUp(loop, isPart) ==
  /\ todo' = Tail(todo)
  /\ IF isPart
     THEN found' = Append(found, Head(todo)) /\ UNCHANGED refused
     ELSE refused' = [refused EXCEPT ![loop] = @ \cup {Head(todo).part}] /\ UNCHANGED found
  /\ UNCHANGED <<phase, world, said, held, listed, unfit, status, data>>

(* get_part_details with expected_mpn: the API, when there are credentials *)
(* for it, names the part expected, or another, which settles it; when it  *)
(* has nothing or fails, the page does or does not show the part.          *)
Resolve ==
  /\ phase = "resolve" /\ todo # <<>> /\ ~Enough
  /\ \E api \in IF hasApi THEN {"same", "another", "nothing"} ELSE {"nothing"}, page \in BOOLEAN :
       LookedUp("resolve", api = "same" \/ (api = "nothing" /\ page))

(* Mutant: an empty public search is taken for a failed one.               *)
Resolved_Falsy ==
  /\ phase = "resolve" /\ (todo = <<>> \/ Enough)
  /\ phase' = IF found = <<>> THEN "page" ELSE "found"
  /\ UNCHANGED <<world, said, held, listed, todo, refused, found, unfit, status, data>>

(* Whether the scraper runs depends on the public search, asked long ago:  *)
(* it listed nothing that matches, or it failed.                           *)
Resolved ==
  /\ phase = "resolve" /\ (todo = <<>> \/ Enough)
  /\ phase' = IF found = <<>> /\ said["public"] = "failed" THEN "page" ELSE "found"
  /\ UNCHANGED <<world, said, held, listed, todo, refused, found, unfit, status, data>>

(* search_jlcpcb_by_mpn reads the page of results.  The rows of its data,  *)
(* when they can be read and some match, are the results; else every code  *)
(* on the page, in no particular order, is to be verified.                 *)
Orders(parts) ==
  {s \in [1..Cardinality(parts) -> parts] : Cardinality({s[i] : i \in DOMAIN s}) = Cardinality(parts)}

PageFails ==
  /\ phase = "page"
  /\ Hear("page", "failed", <<>>) /\ Results(<<>>)

PageRows ==
  /\ phase = "page"
  /\ \E offers \in Listings :
       LET rows == first_of_each(Only(offers, row_matches))
       IN  /\ rows # <<>>
           /\ Hear("page", "rows", offers)
           /\ Results(IF limit > 0 THEN Sliced(rows, limit) ELSE rows)

PageCodes ==
  /\ phase = "page"
  /\ \E offers \in Listings :
       /\ Hear("page", "codes", offers)
       /\ \E order \in Orders(Named(offers) \cap Coded) :
            todo' = [i \in DOMAIN order |-> [part |-> order[i], rank |-> 0, packs |-> 1]]
  /\ phase' = "verify"
  /\ UNCHANGED <<world, refused, found, unfit, status, data>>

(* LCSC's detail vouches for a code, or the part's page does.              *)
Verify ==
  /\ phase = "verify" /\ todo # <<>> /\ ~Enough
  /\ \E lcsc, page \in BOOLEAN :
       LookedUp("verify", (lcsc /\ Head(todo).part \in detail_matches) \/ page)

Verified ==
  /\ phase = "verify" /\ (todo = <<>> \/ Enough)
  /\ phase' = IF found = <<>> THEN "claude" ELSE "found"
  /\ UNCHANGED <<world, said, held, listed, todo, refused, found, unfit, status, data>>

(* find_c_code_with_claude: no key, no package, no code; or a code, which  *)
(* need not be on the page, and whose own page must show the part.         *)
AskClaude ==
  /\ phase = "claude"
  /\ \/ Hear("claude", "failed", <<>>) /\ Results(<<>>)
     \/ \E p \in Coded, page \in BOOLEAN :
          LET answer == <<[part |-> p, rank |-> 0, packs |-> 1]>>
          IN  /\ Hear("claude", "listed", answer)
              /\ Results(IF page THEN answer ELSE <<>>)

(***************************************************************************)
(* The end of _do_search.                                                  *)
(***************************************************************************)
NotFound ==
  /\ phase = "found" /\ found = <<>>
  /\ Done("not_found", <<>>) /\ UNCHANGED unfit

(* Results beyond the limit are cut, then those that do not fit are left   *)
(* out.                                                                    *)
Answer ==
  /\ phase = "found" /\ found # <<>>
  /\ LET cut == IF Len(found) > limit THEN Sliced(found, limit) ELSE found
     IN  \E bad \in SUBSET DOMAIN cut :
           /\ unfit' = bad
           /\ Done("ok", Picked(cut, DOMAIN cut \ bad))

Next ==
  \/ NoAdapter \/ AskMouser \/ DigikeyFails \/ AskDigikey \/ AskPublic
  \/ AskPrimary \/ AskThird \/ ProductRaises \/ LcscResults \/ Resolving \/ Resolve \/ Resolved
  \/ PageFails \/ PageRows \/ PageCodes \/ Verify \/ Verified \/ AskClaude
  \/ NotFound \/ Answer

Spec == Init /\ [][Next]_vars

-----------------------------------------------------------------------------
(* Every variable keeps its type.                                          *)
Offers == Seq(Offer)

TypeOK ==
  /\ phase \in {"adapter", "primary", "third", "offered", "resolve", "page", "verify",
                "claude", "found", "done"}
  /\ supplier \in Supplier /\ hasApi \in BOOLEAN /\ limit \in Int
  /\ keyword \in Keyword /\ model \in [Parts -> Model]
  /\ said \in [Source -> {"unasked", "failed", "broken", "listed", "rows", "codes"}]
  /\ listed \in [Source -> Offers] /\ held \in [Paged -> Offers]
  /\ todo \in Offers /\ found \in Offers /\ data \in Offers
  /\ refused \in [{"resolve", "verify"} -> SUBSET Parts]
  /\ unfit \subseteq DOMAIN found
  /\ status \in {"none", "ok", "not_found", "provider_error"}

(* What a source listed that its own rule lets through, but for what a     *)
(* lookup of it refused.                                                   *)
Wanted(s) ==
  Named(listed[s]) \cap
    CASE s = "public" -> matches_expected_mpn
      [] s \in {"primary", "third"} /\ supplier = "lcsc" -> matches_search_keyword
      [] s \in {"primary", "third"} /\ supplier # "lcsc" ->
           (matches_search_keyword \cap Coded) \ refused["resolve"]
      [] s = "page" /\ said["page"] = "rows" -> row_matches
      [] s = "page" /\ said["page"] # "rows" -> Coded \ refused["verify"]
      [] s = "claude" -> {}
      [] OTHER -> {listed[s][i].part : i \in Convertible(listed[s])}

(* No part gets lost between the pages, the filters, the limits and the    *)
(* fallbacks of _do_search and the adapters' search_by_mpn (lcsc.py:45-64, *)
(* jlc.py:153-239, 398-446, jlc_scraper.py:354-473, digikey.py:394-409).   *)
(* Of what a source holds the first ones are seen, as many as the limit    *)
(* asks for, but a hundred at most, and ten without a limit.  What is seen *)
(* and let through by the rule of its source is found, unless there are as *)
(* many as the limit already, or an earlier result of DigiKey's has its    *)
(* MPN, or the limit is below zero, where the public search ends at its    *)
(* first match.  And what is found is answered up to the limit, or without *)
(* the last -limit results for a limit below zero, unless it does not fit  *)
(* the response.                                                           *)
Seen(i) == i <= 100 /\ i <= IF limit > 0 THEN limit ELSE 10

Filled ==
  \/ limit > 0 /\ Len(found) >= limit
  \/ limit < 0 /\ supplier = "jlcpcb" /\ said["primary"] = "unasked"

Kept(i) == i <= IF limit < 0 THEN Len(found) + limit ELSE limit

NothingFoundIsLost ==
  (phase = "done" /\ status # "provider_error") =>
    /\ \A s \in Paged : \A i \in DOMAIN held[s] :
         Seen(i) => held[s][i].part \in Named(listed[s])
    /\ \A s \in Source : \A p \in Wanted(s) :
         \/ p \in Named(found) \/ Filled
         \/ supplier = "digikey" /\ s = "direct" /\ \E q \in Named(found) : SameMpn(p, q)
    /\ \A i \in DOMAIN found : Kept(i) => i \in unfit \/ found[i].part \in Named(data)

(* The sources are asked in their order, each only when those before it    *)
(* had nothing that matches (jlc.py:154-160); the scraper, and the model   *)
(* after it, only when the public search failed: "scraper fallback should  *)
(* not run after a valid empty response" (tests/test_providers.py:342).    *)
(* What is answered is of the source asked last, and nothing is not found  *)
(* before the last source that may have it was asked.                      *)
Asked(s) == said[s] # "unasked"

AllAsked ==
  /\ Asked("primary")
  /\ said["primary"] # "broken" /\ listed["primary"] = <<>> => Asked("third")
  /\ said["public"] = "failed" => Asked("page")
  /\ said["page"] = "codes" => Asked("claude")

LastAsked(p) ==
  \E s \in Source :
    /\ p \in Named(listed[s])
    /\ s = "page" => ~Asked("claude")
    /\ s \in {"primary", "third"} => ~Asked("page")
    /\ s = "public" => ~Asked("primary")

FallbacksInOrder ==
  /\ (supplier = "jlcpcb" /\ Asked("primary")) => Wanted("public") = {}
  /\ Asked("third") => listed["primary"] = <<>> /\ said["primary"] # "broken"
  /\ Asked("page") =>
       said["public"] = "failed" /\ Wanted("primary") = {} /\ Wanted("third") = {}
  /\ Asked("claude") => Wanted("page") = {}
  /\ (status = "not_found" /\ supplier \in {"lcsc", "jlcpcb"}) => AllAsked
  /\ \A p \in Named(data) : LastAsked(p)

(* Wherever the service merges lists itself, a part is in the answer once: *)
(* LCSC's offers of a part are merged (lcsc_api.py:180-204), C-codes are   *)
(* looked up once (jlc.py:214-220, jlc_scraper.py:313-349, 383).  LCSC     *)
(* answers with the best offer of the part that it heard.                  *)
Distinct(offers) == \A i, j \in DOMAIN offers : offers[i].part = offers[j].part => i = j

Best(offers) ==
  \A i \in DOMAIN offers, s \in {"primary", "third"} : \A k \in DOMAIN listed[s] :
    listed[s][k].part = offers[i].part => offers[i].rank <= listed[s][k].rank

OnceAtItsBest ==
  /\ (supplier = "lcsc" \/ (supplier = "jlcpcb" /\ Asked("primary"))) => Distinct(data)
  /\ supplier = "lcsc" => Best(data)

(***************************************************************************)
(* What is known at each phase, which makes the properties inductive.      *)
(***************************************************************************)
Silent(sources) == \A s \in sources : said[s] = "unasked" /\ listed[s] = <<>>
FromLcsc == Named(listed["primary"]) \cup Named(listed["third"])

(* LCSC has been asked, the marketplace too if it has to be. *)
LcscAsked ==
  /\ Asked("primary")
  /\ Asked("third") <=> said["primary"] # "broken" /\ listed["primary"] = <<>>

(* What a loop of lookups has still to do and has done. *)
Lookups(loop, candidates) ==
  /\ Distinct(todo) /\ Distinct(found)
  /\ Named(todo) \cap (Named(found) \cup refused[loop]) = {}
  /\ candidates \subseteq Named(todo) \cup Named(found) \cup refused[loop]
  /\ Named(todo) \cup Named(found) \subseteq candidates

SourceBooks ==
  /\ \A s \in Source : said[s] \in {"unasked", "failed", "broken"} => listed[s] = <<>>
  /\ supplier # "digikey" => Silent({"exact"})
  /\ supplier \in {"jlcpcb", "lcsc"} => Silent({"direct"})
  /\ supplier # "jlcpcb" => Silent({"public", "page", "claude"})
  /\ supplier \notin {"jlcpcb", "lcsc"} => Silent({"primary", "third"})

PhaseBooks ==
  /\ phase \notin {"found", "done"} => supplier \in {"jlcpcb", "lcsc"} \/ phase = "adapter"
  /\ phase # "done" => status = "none" /\ unfit = {} /\ data = <<>>
  /\ phase \notin {"resolve", "verify", "found", "done"} => found = <<>>
  /\ phase \in {"adapter", "primary", "third", "offered"} =>
       refused["resolve"] = {}
  /\ phase \in {"adapter", "primary", "third", "offered", "resolve", "page"} =>
       refused["verify"] = {} /\ Silent({"page", "claude"})
  /\ phase = "adapter" => Silent(Source)
  /\ phase \in {"resolve", "page", "verify", "claude"} => supplier = "jlcpcb"
  /\ phase = "primary" => supplier = "jlcpcb" /\ Silent({"primary", "third"})
  /\ phase = "third" =>
       Asked("primary") /\ said["primary"] # "broken" /\ listed["primary"] = <<>>
         /\ Silent({"third"})
  /\ phase \in {"offered", "resolve", "page", "verify", "claude"} => LcscAsked
  /\ phase # "adapter" /\ supplier = "jlcpcb" => Asked("public")
  /\ phase \in {"verify", "claude"} => said["page"] = "codes"
  /\ phase \in {"page", "verify", "claude"} => said["public"] = "failed"
  /\ phase = "verify" => Silent({"claude"})
  /\ phase = "claude" => Silent({"claude"})

LookupBooks ==
  /\ phase = "offered" => Distinct(todo) /\ Named(todo) = FromLcsc /\ Best(todo)
  /\ phase = "resolve" => Lookups("resolve", FromLcsc \cap matches_search_keyword \cap Coded)
  /\ phase = "verify" => Lookups("verify", Named(listed["page"]) \cap Coded)
  /\ phase = "primary" => Wanted("public") = {}
  /\ phase = "page" => Wanted("primary") = {} /\ Wanted("third") = {}
  /\ phase = "claude" => Wanted("page") = {}

(* What is listed is what is held, or a page of it. *)
PageBooks ==
  \A s \in Paged :
    IF said[s] = "listed" THEN listed[s] \in {held[s], Sliced(held[s], page_size(s))}
    ELSE held[s] = <<>>

(* The results, before the limit and the response model have their say. *)
ResultBooks ==
  phase = "found" \/ (phase = "done" /\ status # "provider_error") =>
    /\ \A s \in Source : \A p \in Wanted(s) :
         \/ p \in Named(found) \/ Filled
         \/ supplier = "digikey" /\ s = "direct" /\ \E q \in Named(found) : SameMpn(p, q)
    /\ \A p \in Named(found) : LastAsked(p)
    /\ found = <<>> /\ supplier \in {"jlcpcb", "lcsc"} => AllAsked
    /\ (supplier = "lcsc" \/ (supplier = "jlcpcb" /\ Asked("primary"))) => Distinct(found)
    /\ supplier = "lcsc" => Best(found)

IInv ==
  /\ TypeOK /\ NothingFoundIsLost /\ FallbacksInOrder /\ OnceAtItsBest
  /\ SourceBooks /\ PageBooks /\ PhaseBooks /\ LookupBooks /\ ResultBooks
=============================================================================
