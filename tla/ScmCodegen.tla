----------------------------- MODULE ScmCodegen -----------------------------
(***************************************************************************)
(* The generator of the Rust bindings (rust/src/scm-codegen): it reads the *)
(* JSON Schemas and the catalog of the contract, bundles each catalog root *)
(* with every schema it reaches, and then either writes the two generated  *)
(* directories of scm-contracts or, with --check, compares them.           *)
(*                                                                         *)
(* The data is reduced to what the bundles tell apart.  The body of a      *)
(* schema is the list of the external $ref it holds, in document order;    *)
(* a rewritten reference is the name of the definition it points to.  The  *)
(* projections that adapt a bundle to typify never touch a reference: they *)
(* are modelled in WireTypes, by the Rust type they give each field.       *)
(* What typify cannot express is a fact of the contract (untypable).       *)
(*                                                                         *)
(* Outside a run people edit the contract and the directories; a run can   *)
(* be killed between any two steps, inside a write included.               *)
(***************************************************************************)
EXTENDS Naturals, Sequences, Functions

CONSTANTS
  Ids,         (* schema identities a reference may name                    *)
  Titles,      (* declaration names: stems of the schema files              *)
  Modules,     (* names of Rust files                                       *)
  ModuleOf,    (* the snake case of a title                                 *)
  Prefixes,    (* names of bundled definitions                              *)
  PrefixOf,    (* an identity with every odd character made "_"             *)
  Strays,      (* names of files the generator does not know                *)
  Contracts,   (* the contracts that come by                                *)
  MaxTroubles, (* bound: edits and kills of a behaviour                     *)
  NoSchema, None, Torn, Irregular, Edited

(* A schema file: its $id (NoSchema when it has none), its references, and *)
(* whether it is a regular .json file.                                     *)
SchemaFile == [id : Ids \cup {NoSchema}, refs : Seq(Ids), regular : BOOLEAN]
Root       == [id : Ids, title : Titles]
Contract   == [files : [Titles -> SchemaFile \cup {None}],
               roots : Seq(Root),
               untypable : SUBSET Titles]

(* Files are named by their directory and their name.                      *)
Binding(title)  == <<"generated", ModuleOf[title]>>
Registry        == <<"generated", "mod">>
Resource(title) == <<"schema", title>>
Paths == ({"generated"} \X (Modules \cup {"mod"} \cup Strays))
         \cup ({"schema"} \X (Titles \cup Strays))

Bundle == [refs : Seq(Prefixes), defs : [Ids -> Seq(Prefixes) \cup {None}]]

(* What a file may hold.  Torn is a file being written.                    *)
Junk == {Torn, Irregular, Edited}
Text(p) == IF p = Registry THEN Seq(Root) \X SUBSET Ids
           ELSE IF p[1] = "schema" THEN Seq(Ids)
           ELSE Bundle

ASSUME CodegenAssumption ==
  /\ Contracts \subseteq Contract
  /\ \A c \in Contracts : \A j, k \in DOMAIN c.roots :
       c.roots[j].title = c.roots[k].title => j = k
  /\ ModuleOf \in [Titles -> Modules]
  /\ "mod" \notin Modules
  /\ IsInjective(ModuleOf)
  /\ Strays \cap (Modules \cup Titles \cup {"mod"}) = {}
  /\ PrefixOf \in [Ids -> Prefixes]
  /\ MaxTroubles \in Nat
  /\ NoSchema \notin Ids
  /\ None \notin SchemaFile \cup Seq(Prefixes)
  /\ \A p \in Paths, x \in Junk \cup {None} : x \notin Text(p)
  /\ None \notin Junk \cup Paths

VARIABLES
  contract,  (* contracts/scm/v1/generated: schemas and catalog             *)
  files,     (* the two output directories                                  *)
  phase,     (* where main is, "idle" between runs                          *)
  check,     (* the --check flag of the run                                 *)
  result,    (* what the last run said of the directories as they are       *)
  bound,     (* catalog roots bound so far                                  *)
  pending,   (* the worklist of bundle_external_references                  *)
  bundled,   (* identities it has bundled (keys of references and bundled)  *)
  outputs,   (* path -> text of the outputs map, None where it has no key   *)
  todo,      (* directory entries or outputs still to visit                 *)
  writing,   (* the output fs::write has truncated, None otherwise          *)
  troubles   (* counts MaxTroubles                                          *)

run  == <<phase, check, bound, pending, bundled, outputs, todo, writing>>
vars == <<contract, files, result, run, troubles>>

----------------------------------------------------------------------------
(* load_schemas reads every entry and wants each to be a regular .json     *)
(* file with an identity of its own; there must be one at least.           *)
Present(c) == {t \in Titles : c.files[t] # None}

Loadable(c) ==
  /\ Present(c) # {}
  /\ \A t \in Present(c) : c.files[t].regular /\ c.files[t].id # NoSchema
  /\ \A t, u \in Present(c) : c.files[t].id = c.files[u].id => t = u

Has(c, i)  == \E t \in Present(c) : c.files[t].id = i
Refs(c, i) == c.files[CHOOSE t \in Present(c) : c.files[t].id = i].refs

(* A reference becomes #/$defs/<prefix>.                                   *)
Rewrite(refs) == [k \in DOMAIN refs |-> PrefixOf[refs[k]]]

(* The bundle of root r when the worklist has collected the set S.         *)
BundleOf(c, r, S) ==
  [refs |-> Rewrite(Refs(c, r)),
   defs |-> [i \in Ids |-> IF i \in S THEN Rewrite(Refs(c, i)) ELSE None]]

(* The registry lists the roots in catalog order and every schema.         *)
RegistryOf(c) == <<c.roots, {c.files[t].id : t \in Present(c)}>>

NoOutputs  == [p \in Paths |-> None]
Entries(d) == {p \in Paths : p[1] = d /\ files[p] # None}
Outputs    == {p \in Paths : outputs[p] # None}

----------------------------------------------------------------------------
Init ==
  /\ contract \in Contracts
  /\ files = NoOutputs
  /\ phase = "idle" /\ check = FALSE /\ result = "unknown"
  /\ bound = 0 /\ pending = <<>> /\ bundled = {}
  /\ outputs = NoOutputs /\ todo = {} /\ writing = None
  /\ troubles = 0

(* The process is gone, and what it held in memory with it.                *)
Exit(verdict) ==
  /\ phase' = "idle" /\ result' = verdict
  /\ bound' = 0 /\ pending' = <<>> /\ bundled' = {}
  /\ outputs' = NoOutputs /\ todo' = {} /\ writing' = None
  /\ UNCHANGED <<contract, files>>

Fail == Exit("failed") /\ UNCHANGED <<check, troubles>>

(* main, up to the loop over the roots.                                    *)
Start(flag) ==
  /\ phase = "idle"
  /\ check' = flag
  /\ IF Loadable(contract) THEN phase' = "roots" /\ result' = "running"
                           ELSE phase' = "idle"  /\ result' = "failed"
  /\ UNCHANGED <<contract, files, bound, pending, bundled, outputs, todo, writing, troubles>>

RootId    == contract.roots[bound + 1].id
RootTitle == contract.roots[bound + 1].title

(* The next root: its own references start the worklist.                   *)
BeginRoot ==
  /\ phase = "roots" /\ bound < Len(contract.roots)
  /\ IF Has(contract, RootId)
       THEN /\ phase' = "bundle"
            /\ pending' = Refs(contract, RootId) /\ bundled' = {}
            /\ UNCHANGED <<contract, files, check, result, bound, outputs, todo, writing, troubles>>
       ELSE Fail

Top  == pending[Len(pending)]
Rest == SubSeq(pending, 1, Len(pending) - 1)

(* Mutant: prefixes are compared with those of schemas outside the bundle. *)
Collides_Anywhere(i) == \E j \in Ids \ {i} : Has(contract, j) /\ PrefixOf[j] = PrefixOf[i]

Collides(i) == \E j \in bundled : PrefixOf[j] = PrefixOf[i]

(* Mutant: an identity met before goes back on the worklist. *)
Skip_Spins ==
  /\ phase = "bundle" /\ pending # <<>> /\ Top \in bundled
  /\ UNCHANGED vars

Skip ==
  /\ phase = "bundle" /\ pending # <<>> /\ Top \in bundled
  /\ pending' = Rest
  /\ UNCHANGED <<contract, files, phase, check, result, bound, bundled, outputs, todo, writing, troubles>>

(* Mutant: the references of a bundled schema are not followed. *)
Collect_Shallow ==
  /\ phase = "bundle" /\ pending # <<>> /\ Top \notin bundled
  /\ pending' = Rest /\ bundled' = bundled \cup {Top}
  /\ UNCHANGED <<contract, files, phase, check, result, bound, outputs, todo, writing, troubles>>

Collect ==
  /\ phase = "bundle" /\ pending # <<>> /\ Top \notin bundled
  /\ IF Has(contract, Top) /\ ~Collides(Top)
       THEN /\ pending' = Rest \o Refs(contract, Top)
            /\ bundled' = bundled \cup {Top}
            /\ UNCHANGED <<contract, files, phase, check, result, bound, outputs, todo, writing, troubles>>
       ELSE Fail

(* rewrite_external_references, the projection and typify.                 *)
Resolved ==
  \A i \in bundled \cup {RootId} : Range(Refs(contract, i)) \subseteq bundled

EndRoot ==
  /\ phase = "bundle" /\ pending = <<>>
  /\ IF Resolved /\ RootTitle \notin contract.untypable
       THEN /\ phase' = "roots" /\ bound' = bound + 1
            /\ outputs' = [outputs EXCEPT ![Binding(RootTitle)] =
                                            BundleOf(contract, RootId, bundled)]
            /\ UNCHANGED <<contract, files, check, result, pending, bundled, todo, writing, troubles>>
       ELSE Fail

(* All roots are bound: the registry and the schema resources follow, and  *)
(* the first directory is read.                                            *)
WithRegistry(o) ==
  [p \in Paths |->
     IF p = Registry THEN RegistryOf(contract)
     ELSE IF \E t \in Present(contract) : p = Resource(t) THEN contract.files[p[2]].refs
     ELSE o[p]]

EndRoots ==
  /\ phase = "roots" /\ bound = Len(contract.roots)
  /\ outputs' = WithRegistry(outputs)
  /\ phase' = "bindings" /\ todo' = Entries("generated")
  /\ UNCHANGED <<contract, files, check, result, bound, pending, bundled, writing, troubles>>

Pass(p, text) ==
  /\ files' = [files EXCEPT ![p] = text] /\ todo' = todo \ {p}
  /\ UNCHANGED <<contract, phase, check, result, bound, pending, bundled, outputs,
                 writing, troubles>>

(* Mutants: strays stay; strays go before the flag is looked at; the       *)
(* directory is cleared whatever is expected in it.                        *)
Inspect_KeepsStrays(p) ==
  /\ phase \in {"bindings", "resources"} /\ p \in todo
  /\ IF files[p] = Irregular THEN Fail ELSE Pass(p, files[p])
Inspect_RemovesFirst(p) ==
  /\ phase \in {"bindings", "resources"} /\ p \in todo
  /\ IF files[p] = Irregular THEN Fail ELSE Pass(p, IF p \in Outputs THEN files[p] ELSE None)
Inspect_Clears(p) ==
  /\ phase \in {"bindings", "resources"} /\ p \in todo
  /\ IF files[p] = Irregular \/ (check /\ p \notin Outputs) THEN Fail
     ELSE Pass(p, IF check THEN files[p] ELSE None)

(* enforce_inventory on one entry: a stray file is removed, or reported.   *)
Inspect(p) ==
  /\ phase \in {"bindings", "resources"} /\ p \in todo
  /\ IF files[p] = Irregular \/ (check /\ p \notin Outputs)
       THEN Fail
       ELSE Pass(p, IF p \in Outputs THEN files[p] ELSE None)

EndInventory ==
  /\ todo = {}
  /\ \/ phase = "bindings"  /\ phase' = "resources" /\ todo' = Entries("schema")
     \/ phase = "resources" /\ phase' = "outputs"   /\ todo' = Outputs
  /\ UNCHANGED <<contract, files, check, result, bound, pending, bundled, outputs, writing, troubles>>

(* write_or_check.  The paths of the map come in one fixed order.          *)
First(S) == CHOOSE p \in S : TRUE

Verify(p) ==
  /\ phase = "outputs" /\ check /\ todo # {} /\ p = First(todo)
  /\ IF files[p] = outputs[p]
       THEN Pass(p, files[p])
       ELSE Fail

(* fs::write truncates the file and then writes it.                        *)
Truncate(p) ==
  /\ phase = "outputs" /\ ~check /\ todo # {} /\ p = First(todo)
  /\ writing = None /\ writing' = p
  /\ files' = [files EXCEPT ![p] = Torn]
  /\ UNCHANGED <<contract, phase, check, result, bound, pending, bundled, outputs, todo,
                 troubles>>

Fill(p) ==
  /\ phase = "outputs" /\ ~check /\ p \in todo /\ writing = p
  /\ files' = [files EXCEPT ![p] = outputs[p]]
  /\ todo' = todo \ {p} /\ writing' = None
  /\ UNCHANGED <<contract, phase, check, result, bound, pending, bundled, outputs, troubles>>

Finish ==
  /\ phase = "outputs" /\ todo = {}
  /\ Exit("ok") /\ UNCHANGED <<check, troubles>>

----------------------------------------------------------------------------
Trouble == troubles < MaxTroubles /\ troubles' = troubles + 1

Kill ==
  /\ Trouble /\ phase # "idle"
  /\ Exit("unknown") /\ UNCHANGED check

(* Someone recompiles the TypeSpec sources, or edits, adds or removes an   *)
(* output by hand: what the last run said no longer counts.                *)
Recompile(c) ==
  /\ Trouble /\ phase = "idle"
  /\ contract' = c /\ result' = "unknown"
  /\ UNCHANGED <<files, run>>

Touch(p, x) ==
  /\ Trouble /\ phase = "idle" /\ files[p] # x
  /\ files' = [files EXCEPT ![p] = x] /\ result' = "unknown"
  /\ UNCHANGED <<contract, run>>

Bundling  == BeginRoot \/ Skip \/ Collect \/ EndRoot \/ EndRoots
Comparing == EndInventory \/ Finish \/ \E p \in Paths : Inspect(p) \/ Verify(p)
Writing   == \E p \in Paths : Truncate(p) \/ Fill(p)
Step      == Bundling \/ Comparing \/ Writing

Next ==
  \/ \E flag \in BOOLEAN : Start(flag)
  \/ Step
  \/ Kill
  \/ \E c \in Contracts : Recompile(c)
  \/ \E p \in Paths, x \in {None, Irregular, Edited} : Touch(p, x)

Spec == Init /\ [][Next]_vars /\ WF_vars(Step)

----------------------------------------------------------------------------
(* The types of the state: the worklist and what it collected are          *)
(* identities, outputs and files live at the paths of the two directories. *)
TypeOK ==
  /\ contract \in Contracts
  /\ files = [p \in Paths |-> files[p]] /\ outputs = [p \in Paths |-> outputs[p]]
  /\ \A p \in Paths : files[p] \in Junk \cup {None} \cup Text(p)
  /\ \A p \in Paths : outputs[p] \in {None} \cup Text(p)
  /\ phase \in {"idle", "roots", "bundle", "bindings", "resources", "outputs"}
  /\ check \in BOOLEAN
  /\ result \in {"unknown", "running", "ok", "failed"}
  /\ bound \in 0..Len(contract.roots)
  /\ phase = "bundle" => bound < Len(contract.roots)
  /\ pending \in Seq(Ids) /\ bundled \subseteq Ids
  /\ todo \subseteq Paths /\ writing \in Paths \cup {None}
  /\ troubles \in 0..MaxTroubles

(* What a bundle has to hold, said without an algorithm: the least set of  *)
(* identities with every reference of the root and of its own members.     *)
IsClosed(c, r, S) == \A j \in S \cup {r} : Has(c, j) => Range(Refs(c, j)) \subseteq S
Reach(c, r) == {j \in Ids : \A S \in SUBSET Ids : IsClosed(c, r, S) => j \in S}

(* A root has a bundle when all it reaches exists under names of its own.  *)
Bindable(c, k) ==
  LET root == c.roots[k]  reached == Reach(c, root.id) IN
  /\ Has(c, root.id) /\ root.title \notin c.untypable
  /\ \A i \in reached : Has(c, i)
  /\ \A i, j \in reached : PrefixOf[i] = PrefixOf[j] => i = j

(* The directories the contract stands for, and the contracts that have    *)
(* none.                                                                   *)
BoundUpTo(c, n) ==
  [p \in Paths |->
     IF \E k \in 1..n : p = Binding(c.roots[k].title)
       THEN LET k == CHOOSE k \in 1..n : p = Binding(c.roots[k].title)
            IN  BundleOf(c, c.roots[k].id, Reach(c, c.roots[k].id))
       ELSE None]

Expected(c) ==
  LET bindings == BoundUpTo(c, Len(c.roots))
  IN  [p \in Paths |->
         IF p = Registry THEN RegistryOf(c)
         ELSE IF \E t \in Present(c) : p = Resource(t) THEN c.files[p[2]].refs
         ELSE bindings[p]]

Defective(c) ==
  \/ ~Loadable(c)
  \/ \E k \in DOMAIN c.roots : ~Bindable(c, k)

(* When the worklist of a root is empty the bundle is exact: no reference  *)
(* dangles, so the second "unresolved external reference" check never      *)
(* bails, and no schema is bundled that the root does not reach, however   *)
(* the schemas refer to each other (main.rs:212-250).                      *)
BundleExact ==
  phase = "bundle" /\ pending = <<>> => bundled = Reach(contract, RootId) /\ Resolved

(* Halfway, every reference of what is bundled is bundled or waits, nothing *)
(* waits that the root does not reach, and prefixes tell identities apart. *)
Worklist ==
  phase = "bundle" =>
    LET met == bundled \cup Range(pending) IN
    /\ \A i \in bundled \cup {RootId} :
         Has(contract, i) /\ Range(Refs(contract, i)) \subseteq met
    /\ met \subseteq Reach(contract, RootId)
    /\ \A i, j \in bundled : PrefixOf[i] = PrefixOf[j] => i = j

(* The outputs grow root by root towards those of the contract, ...        *)
OutputsGrow ==
  /\ phase = "idle" => bound = 0 /\ outputs = NoOutputs
  /\ phase \in {"roots", "bundle"} => outputs = BoundUpTo(contract, bound)
  /\ phase \in {"bindings", "resources", "outputs"} =>
       bound = Len(contract.roots) /\ outputs = Expected(contract)
  /\ phase # "idle" => Loadable(contract) /\ \A k \in 1..bound : Bindable(contract, k)

(* ... and the files follow: strays of an inspected entry are gone, then   *)
(* what was written or compared agrees.                                    *)
FilesFollow ==
  /\ phase \in {"bindings", "resources", "outputs"} =>
       \A p \in Paths : outputs[p] = None /\ files[p] # None =>
          \/ phase = "bindings" /\ (p[1] = "schema" \/ p \in todo)
          \/ phase = "resources" /\ p \in todo
  /\ phase \in {"bindings", "resources"} => \A p \in todo : files[p] # None
  /\ phase = "outputs" =>
       /\ todo \subseteq Outputs
       /\ \A p \in Outputs : p \in todo \/ files[p] = outputs[p]
  /\ writing # None => phase = "outputs" /\ ~check /\ writing \in todo

Cause ==
  \/ Defective(contract)
  \/ \E p \in Paths : files[p] = Irregular
  \/ check /\ files # Expected(contract)

Verdicts ==
  /\ result = "running" <=> phase # "idle"
  /\ result = "ok" => files = Expected(contract)
  /\ result = "failed" => Cause

IInv == TypeOK /\ Worklist /\ OutputsGrow /\ FilesFollow /\ Verdicts

(* A run that reports success, with --check or without, after any history  *)
(* of killed runs and hand edits, leaves or found exactly the files of the *)
(* contract: none stale, missing, torn or left over (main.rs:414-457;      *)
(* docs/contracts/README.md:36).                                           *)
OkIsTrue == result = "ok" => files = Expected(contract)

(* And it fails for a cause one can act on: the contract has no bindings,  *)
(* an output is not a regular file, or --check met other files.            *)
FailureHasACause == result = "failed" => Cause

(* --check leaves both directories alone (main.rs:430, 445).               *)
CheckNeverWrites == [][check /\ phase # "idle" => files' = files]_vars

(* A run changes a file only once every root is bound, and only towards    *)
(* what the contract stands for: a contract that cannot be generated       *)
(* leaves the directories as they are, and a file that belongs there is    *)
(* never removed.                                                          *)
WritesTowardsExpected ==
  [][phase # "idle" => \A p \in Paths : files'[p] # files[p] =>
        files'[p] \in {Torn, Expected(contract)[p]} /\ ~Defective(contract)]_vars

(* Every run ends, whatever cycles the references make.                    *)
RunsEnd == phase # "idle" ~> phase = "idle"
=============================================================================
