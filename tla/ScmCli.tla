-------------------------------- MODULE ScmCli --------------------------------
(***************************************************************************)
(* The command line (rust/src/scm-cli) on top of the Rust client: it       *)
(* builds one client from its arguments and its environment, sends the     *)
(* requests of one command, prints what came of them and exits.            *)
(*                                                                         *)
(* Any other program built on the client is here too (driver "program"):   *)
(* it calls the builder in any order and makes a request.                  *)
(***************************************************************************)
EXTENDS ScmClient, FiniteSets

CONSTANTS
  Suppliers,   (* supplier names, in lower case                             *)
  Main,        (* the request that is not the search of one supplier        *)
  Concurrency, (* --concurrency                                             *)
  MaxCaBundle, (* MAX_CA_BUNDLE_BYTES                                       *)
  Commands     (* the commands that are given                               *)

(* help stands for --help and --version, wherever they are given.          *)
Command == {"help", "health", "providers", "search", "detail", "spn", "batch"}

ASSUME CliAssumption ==
  /\ Requests = Suppliers \cup {Main} /\ Main \notin Suppliers
  /\ Concurrency \in Nat \ {0} /\ MaxCaBundle \in Nat
  /\ Commands \subseteq Command

VARIABLES
  driver,     (* "cli" or "program"                                         *)
  pc,         (* where main is                                              *)
  command,    (* the subcommand                                             *)
  requested,  (* the --supplier arguments of a search                       *)
  token,      (* what SCM_TOKEN holds                                       *)
  bundle,     (* the CA bundle: what is known of the file so far            *)
  targets,    (* the suppliers to search                                    *)
  configured, (* those the service reported as configured                   *)
  rows,       (* suppliers with rows in the table that was printed          *)
  notes,      (* notes[s]: the note printed below it                        *)
  code        (* the exit code                                              *)

cliVars == <<driver, pc, command, requested, token, bundle, targets, configured,
             rows, notes, code>>
vars    == <<clientVars, cliVars>>

Files == {"none", "unreadable", "irregular", "pipe", "file"}
Sizes == 0 .. MaxCaBundle + 1
Stages == {"parse", "url", "token", "open", "read", "build", "execute", "status", "search",
           "render", "exited"}

Init ==
  /\ ClientInit
  /\ driver \in {"cli", "program"} /\ pc = "parse"
  /\ command \in Commands
  /\ requested \in SUBSET Suppliers
  /\ token \in {"missing", "not_unicode", "empty", "unprintable", "good"}
  /\ bundle \in [file : Files, pem : {"good", "malformed"}, kept : {0}]
  /\ command # "search" => requested = {}
  /\ bundle.file # "file" => bundle.pem = "good"
  (* what a program, a request for help or the health command never sees   *)
  /\ command \in {"help", "health"} => token = "missing"
  /\ command = "help" => bundle.file = "none"
  /\ driver = "program" => command = "health" /\ bundle.file = "none"
  /\ targets = {} /\ configured = {}
  /\ rows = {} /\ notes = [s \in Suppliers |-> Nothing]
  /\ code = 0

----------------------------------------------------------------------------
At(here)    == driver = "cli" /\ pc = here
Goto(there) == pc' = there /\ UNCHANGED code
Exit(n)     == pc' = "exited" /\ code' = n
Same        == UNCHANGED <<driver, command, requested, token>>

(* clap: help and version are answered at once; an empty supplier name, a  *)
(* missing argument or a bound that is no number is refused.               *)
Parse ==
  /\ At("parse")
  /\ Exit(2) \/ (IF command = "help" THEN Exit(0) ELSE Goto("url"))
  /\ Same /\ UNCHANGED <<clientVars, bundle, targets, configured, rows, notes>>

(* The builder's verdict decides where build_client goes next.             *)
Continue(there) ==
  IF client' \in ConfigError THEN Exit(1) ELSE Goto(there)

Url_ ==
  /\ At("url") /\ NewBuilder /\ Continue("token")
  /\ Same /\ UNCHANGED <<bundle, targets, configured, rows, notes>>

requires_authentication == command # "health"

TakeToken ==
  /\ At("token")
  /\ IF ~requires_authentication THEN Goto("open") /\ UNCHANGED clientVars
     ELSE IF token \in {"missing", "not_unicode"} THEN Exit(1) /\ UNCHANGED clientVars
     ELSE BearerToken(token) /\ Continue("open")
  /\ Same /\ UNCHANGED <<bundle, targets, configured, rows, notes>>

(* read_ca_bundle looks at the length of the file and then reads it;       *)
(* the file may have grown or shrunk in between.                           *)
OpenBundle ==
  /\ At("open") /\ bundle.file # "pipe"
  /\ \E length \in Sizes :
       IF bundle.file = "none" THEN Goto("build")
       ELSE IF bundle.file # "file" \/ length > MaxCaBundle THEN Exit(1)
       ELSE Goto("read")
  /\ Same /\ UNCHANGED <<clientVars, bundle, targets, configured, rows, notes>>

(* File::open of a named pipe waits for a writer, who need not come; what  *)
(* was opened then is not a regular file.                                  *)
OpenPipe ==
  /\ At("open") /\ bundle.file = "pipe"
  /\ Exit(1)
  /\ Same /\ UNCHANGED <<clientVars, bundle, targets, configured, rows, notes>>

(* One byte beyond the limit is read at most.                              *)
ReadBundle ==
  /\ At("read")
  /\ \E length \in Sizes :
       IF length > MaxCaBundle THEN Exit(1) /\ UNCHANGED <<clientVars, bundle>>
       ELSE /\ bundle' = [bundle EXCEPT !.kept = length]
            /\ AddRootCertificates(IF length = 0 THEN "empty" ELSE bundle.pem)
            /\ Continue("build")
  /\ Same /\ UNCHANGED <<targets, configured, rows, notes>>

(* --timeout-seconds, --max-response-bytes and --concurrency may be zero.  *)
BuildClient ==
  /\ At("build")
  /\ \/ Build /\ Continue("execute")
     \/ Exit(1) /\ UNCHANGED clientVars
  /\ Same /\ UNCHANGED <<bundle, targets, configured, rows, notes>>

(* One request, or the provider status a search begins with.  A batch is   *)
(* refused by its own schema beyond a thousand names.                      *)
Execute ==
  /\ At("execute")
  /\ \E payload \in {"valid", "invalid"} :
       /\ payload = "invalid" => command = "batch"
       /\ Ask(Main, IF command \in {"health", "providers", "search"} THEN "plain" ELSE "envelope",
              requires_authentication, payload)
  /\ Goto(IF command = "search" THEN "status" ELSE "render")
  /\ Same /\ UNCHANGED <<bundle, targets, configured, rows, notes>>

(* Mutant: suppliers that were asked for are searched in any case. *)
Resolve_AsAsked ==
  /\ At("status") /\ stage[Main] = "done"
  /\ IF result[Main] \in ClientError THEN Exit(1) /\ UNCHANGED <<configured, targets>>
     ELSE /\ configured' \in SUBSET Suppliers
          /\ targets' = IF requested = {} THEN configured' ELSE requested
          /\ IF configured' = {} THEN Exit(1) ELSE Goto("search")
  /\ Same /\ UNCHANGED <<clientVars, bundle, rows, notes>>

(* resolve_search_suppliers.                                               *)
Resolve ==
  /\ At("status") /\ stage[Main] = "done"
  /\ IF result[Main] \in ClientError THEN Exit(1) /\ UNCHANGED <<configured, targets>>
     ELSE /\ configured' \in SUBSET Suppliers
          /\ IF configured' = {} \/ ~(requested \subseteq configured')
             THEN Exit(1) /\ UNCHANGED targets
             ELSE /\ Goto("search")
                  /\ targets' = IF requested = {} THEN configured' ELSE requested
  /\ Same /\ UNCHANGED <<clientVars, bundle, rows, notes>>

InFlight == {s \in targets : stage[s] \in {"sent", "reading"}}

(* search_all_with_options: the next supplier enters the window.           *)
Search(s) ==
  /\ At("search") /\ s \in targets
  /\ Cardinality(InFlight) < Concurrency
  /\ Ask(s, "envelope", TRUE, "valid")
  /\ UNCHANGED cliVars

(* Mutant: every known supplier is waited for, searched or not. *)
AllSearched_OfAll ==
  /\ At("search") /\ \A s \in Suppliers : stage[s] = "done"
  /\ Goto("render")
  /\ Same /\ UNCHANGED <<clientVars, bundle, targets, configured, rows, notes>>

AllSearched ==
  /\ At("search") /\ \A s \in targets : stage[s] = "done"
  /\ Goto("render")
  /\ Same /\ UNCHANGED <<clientVars, bundle, targets, configured, rows, notes>>

----------------------------------------------------------------------------
(* Mutant: the error of a provider is looked for first. *)
exit_code_ProviderFirst ==
  LET told == IF command = "search" THEN {result[s] : s \in targets} ELSE {result[Main]}
  IN  IF "provider_error" \in told THEN 3
      ELSE IF told \cap ClientError # {} THEN 1 ELSE 0

(* CommandOutput::exit_code: an error of the client outranks one of a      *)
(* provider.                                                               *)
exit_code ==
  LET told == IF command = "search" THEN {result[s] : s \in targets} ELSE {result[Main]}
  IN  IF told \cap ClientError # {} THEN 1
      ELSE IF "provider_error" \in told THEN 3 ELSE 0

(* Mutant: an error of the client is left to main, as for one request. *)
note_LeftToMain(s) ==
  IF result[s] \in {"ok", "ok_empty"} \cup ClientError THEN Nothing ELSE result[s]

(* The note of render_search: the status of an answer that is not ok, an   *)
(* error of the provider or of the client.                                 *)
note(s) ==
  IF result[s] \in {"ok", "ok_empty"} THEN Nothing
  ELSE IF result[s] \in ClientError THEN "client_error" ELSE result[s]

(* One answer is one line; a search is a table and its notes.  A single    *)
(* request that failed prints nothing and is reported by main.             *)
Render ==
  /\ At("render") /\ (command = "search" \/ stage[Main] = "done")
  /\ IF command = "search"
     THEN /\ rows'  = {s \in targets : result[s] \in {"ok", "partial"}}
          /\ notes' = [s \in Suppliers |-> IF s \in targets THEN note(s) ELSE Nothing]
     ELSE UNCHANGED <<rows, notes>>
  /\ Exit(exit_code)
  /\ Same /\ UNCHANGED <<clientVars, bundle, targets, configured>>

----------------------------------------------------------------------------
(* A program of its own.                                                   *)
Program ==
  /\ driver = "program"
  /\ \/ NewBuilder \/ Build
     \/ \E t \in {"good", "bad"} : BearerToken(t) \/ AddRootCertificates(t) \/ SetProxy(t)
     \/ \E zero \in BOOLEAN : SetBounds(zero)
     \/ \E authenticated \in BOOLEAN, payload \in {"valid", "invalid"} :
          Ask(Main, "envelope", authenticated, payload)
  /\ UNCHANGED cliVars

Transport == (\E r \in Requests : Exchange(r)) /\ UNCHANGED cliVars

Cli ==
  \/ Parse \/ Url_ \/ TakeToken \/ OpenBundle \/ ReadBundle \/ BuildClient \/ Execute
  \/ Resolve \/ (\E s \in Suppliers : Search(s)) \/ AllSearched \/ Render

Next == Cli \/ OpenPipe \/ Program \/ Transport

Spec == Init /\ [][Next]_vars

(* main runs on, and every request ends, by its timeout if by nothing else.*)
(* Nobody has to write to a pipe.                                          *)
FairSpec ==
  /\ Spec
  /\ WF_vars(Cli)
  /\ \A r \in Requests : WF_vars(Exchange(r) /\ UNCHANGED cliVars)

----------------------------------------------------------------------------
TypeOK ==
  /\ ClientTypeOK
  /\ driver \in {"cli", "program"} /\ pc \in Stages
  /\ command \in Command
  /\ requested \subseteq Suppliers /\ targets \subseteq Suppliers
  /\ configured \subseteq Suppliers /\ rows \subseteq Suppliers
  /\ token \in {"missing", "not_unicode", "empty", "unprintable", "good"}
  /\ bundle \in [file : Files, pem : {"good", "malformed"}, kept : Sizes]
  /\ notes \in [Suppliers -> Envelopes \cup {"client_error", Nothing}]
  /\ code \in {0, 1, 2, 3}

(* No more of a private CA bundle is trusted than MAX_CA_BUNDLE_BYTES,     *)
(* although the file may change while it is read (main.rs:162-179).        *)
BundleIsBounded == bundle.kept <= MaxCaBundle

(* A search goes to suppliers the service said are configured, and when    *)
(* some were asked for, to those and no others (main.rs:242-268).          *)
OnlyConfigured ==
  driver = "cli" =>
    \A s \in Suppliers : stage[s] # "idle" =>
      s \in configured /\ (requested # {} => s \in requested)

(* The exit code tells scripts the worst that happened to any request, as  *)
(* the README of scm-cli lists them: 0 only when every answer came, was    *)
(* whole and no provider failed; 3 only for a provider's own error; 1 only *)
(* when a request failed on this side, none could be made, or the service  *)
(* has no such supplier; 2 before anything is asked.                       *)
Asked == {r \in Requests : stage[r] # "idle"}

NoSuchSupplier == configured = {} \/ ~(requested \subseteq configured)

ExitTellsTheWorst ==
  At("exited") =>
    /\ code = 0 => \/ command = "help" /\ Asked = {}
                   \/ /\ Asked # {} /\ client = "built"
                      /\ \A r \in Asked : result[r] \in Envelopes \ {"provider_error"}
    /\ code = 1 => \/ Asked = {}
                   \/ \E r \in Asked : result[r] \in ClientError
                   \/ command = "search" /\ NoSuchSupplier
    /\ code = 2 => Asked = {}
    /\ code = 3 => /\ \A r \in Asked : result[r] \in Envelopes
                   /\ \E r \in Asked : result[r] = "provider_error"

(* Once a search was resolved, what is printed tells of each supplier what *)
(* became of it, whatever becomes of the others and whatever the exit code:*)
(* one that has neither rows nor a note answered ok, with no parts; what   *)
(* went wrong there or on this side, or is incomplete, is always noted     *)
(* (render_search, output.rs:166-207).                                     *)
NobodyIsSilent ==
  At("exited") /\ command = "search" =>
    \A s \in targets :
      /\ s \in rows \/ notes[s] # Nothing \/ result[s] = "ok_empty"
      /\ result[s] \in {"partial", "not_found", "provider_error"} => notes[s] = result[s]
      /\ result[s] \in ClientError => notes[s] = "client_error"

(* The inductive invariant.  A client that was built may send its token,   *)
(* and only it sends anything; an answer is kept only while it is whole so *)
(* far; a search asks only for what was resolved before it; and main exits *)
(* before it has asked anything, when a search cannot be resolved, or with *)
(* a code and a table that were read off settled requests.                 *)
ClientBooks ==
  /\ client = "built" => SchemeError(builder) = "none"
  /\ Asked # {} => client = "built"
  /\ bearing # {} => bearing \subseteq Asked /\ builder.token

AnswerBooks ==
  \A r \in Requests :
    /\ got[r] <= Limit
    /\ stage[r] \in {"idle", "sent"} => got[r] = 0
    /\ stage[r] = "sent" => body[r] \in {"plain", "envelope"}
    /\ stage[r] = "reading" => body[r] \in Envelopes \cup {"invalid"}
    /\ stage[r] = "done" => result[r] \in Envelopes \cup ClientError
    /\ result[r] \in Envelopes =>
         stage[r] = "done" /\ success[r] /\ got[r] = size[r] /\ result[r] = body[r]

SearchBooks ==
  /\ targets \subseteq configured /\ (requested # {} => targets \subseteq requested)
  /\ targets # {} => command = "search" /\ At(pc) /\ pc \in {"search", "render", "exited"}
  /\ Asked \subseteq targets \cup {Main}
  /\ At("status") => Main \in Asked /\ command = "search"
  /\ driver = "cli" /\ command = "search" =>
       body[Main] \in {Nothing, "plain", "ok", "invalid"}

Settled ==
  /\ stage[Main] = "done" /\ \A s \in targets : stage[s] = "done"
  /\ command = "search" => result[Main] = "ok"

NeverAsked == Asked = {} /\ code \in {0, 1, 2} /\ (code = 0 => command = "help")

Unresolved ==
  /\ command = "search" /\ targets = {} /\ Asked = {Main} /\ stage[Main] = "done" /\ code = 1
  /\ result[Main] \in ClientError \/ NoSuchSupplier

Rendered ==
  /\ Settled /\ code = exit_code
  /\ command = "search" =>
       /\ rows = {s \in targets : result[s] \in {"ok", "partial"}}
       /\ \A s \in targets : notes[s] = note(s)

ExitBooks ==
  /\ At(pc) /\ pc \in {"parse", "url", "token", "open", "read", "build", "execute"} =>
       Asked = {} /\ targets = {}
  /\ At("search") => stage[Main] = "done" /\ result[Main] = "ok" /\ command = "search"
  /\ At("render") => Main \in Asked
  /\ At("render") /\ command = "search" => Settled
  /\ At("exited") => (NeverAsked /\ targets = {}) \/ Unresolved \/ Rendered
  /\ pc # "exited" => code = 0

IInv == TypeOK /\ ClientBooks /\ AnswerBooks /\ SearchBooks /\ ExitBooks
        /\ BundleIsBounded

(* Every run of the command ends, with all its requests settled, unless it *)
(* was given a pipe for a CA bundle: nothing bounds that wait.             *)
CliExits ==
  driver = "cli" /\ bundle.file # "pipe" ~> pc = "exited" /\ \A r \in Requests : stage[r] \in {"idle", "done"}
=============================================================================
