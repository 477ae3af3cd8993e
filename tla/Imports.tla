------------------------------ MODULE Imports -------------------------------
(***************************************************************************)
(* The resolution of .psy files in parse/hcl: the two depth-first walks    *)
(* over import{} blocks, collectPlugins (Plugins) and resolveFile (Parse), *)
(* and what a file's own resources and pipelines resolve to.               *)
(*                                                                         *)
(* A file's content is chosen when it is loaded.  A dotted reference is    *)
(* the sequence of its segments.  Go's map iteration is a free choice of   *)
(* the next alias, and of the order in which references enter a refTree.   *)
(***************************************************************************)
EXTENDS Integers, Sequences, SequencesExt, FiniteSets, FiniteSetsExt, Functions

CONSTANTS
  File,      \* normalised paths
  EntryFile, \* the file that the command was given
  Contents,  \* what a file may hold, for each of the two walks
  Provides,  \* the resource kinds of each loaded plugin
  MaxSeconds \* the largest timeout that is a time.Duration

Verb == {"produce", "consume", "transform"}

\* For the provers, which do not know that a literal is a string.
ASSUME LiteralsAreStrings == Verb \union {"imports", "pipeline", "undefined"} \subseteq STRING

\* What blocks hold: a plugin, a resource, and a pipeline.  A reference is a
\* path, or one element of a slot of an imported pipeline, counted from 1; a
\* pipeline lists references or takes such a slot as a whole, and has at most
\* one reference for its seed.
PluginBlock == [name : STRING, source : STRING, tag : STRING, mode : STRING]
Block == [verb : Verb, plugin : STRING, kind : STRING, name : STRING, valid : BOOLEAN]
Path == Seq(STRING)
Reference == [indexed : {FALSE}, path : Path]
               \union [indexed : {TRUE}, alias : STRING, pipe : STRING, verb : Verb, index : Nat]
Listing == [whole : {FALSE}, refs : Seq(Reference)]
             \union [whole : {TRUE}, alias : STRING, pipe : STRING, verb : Verb]
IsPipelineBlock(p) ==
  /\ p.name \in STRING /\ p.parallel \in Int /\ p.seconds \in Int
  /\ DOMAIN p.lists \subseteq Verb /\ Range(p.lists) \subseteq Listing
  /\ p.from \in Seq(Reference) /\ Len(p.from) <= 1

ASSUME ImportsAssumption ==
  /\ EntryFile \in File /\ "none" \notin File /\ MaxSeconds \in Nat
  /\ \A w \in {"plugins", "parse"} : \A c \in Contents[w] :
       /\ DOMAIN c.imports \subseteq STRING /\ Range(c.imports) \subseteq File
       /\ c.plugins \in Seq(PluginBlock) /\ c.resources \in Seq(Block)
       /\ c.pipelines \in Seq(Range(c.pipelines)) /\ \A p \in Range(c.pipelines) : IsPipelineBlock(p)
       /\ c.fault \in {"none", "load", "imports", "locals"}

VARIABLES
  walk,      \* which of the two walks this is
  content,   \* what the files loaded so far hold
  calling,   \* the file whose turn it is, or "none"
  frames,    \* the call stack: files, with the aliases not followed yet
  visiting,  \* the files of the walk that have been entered and not left
  settled,   \* files (collectPlugins) or the keys of cache (resolveFile)
  result,    \* the fileResult of the settled files
  decls,     \* the plugin specs by name
  found,     \* out: the specs in the order they were met
  loads,     \* history: the loads of each file
  failure    \* why the walk failed, "none" before it has ended, or "ok"

importsState == <<walk, content, calling, frames, visiting, settled, result,
                  decls, found, loads, failure>>

Ended == failure # "none"
Top == Last(frames)
Aliases(f) == content[f].imports
With(g, x, v) == [y \in DOMAIN g \union {x} |-> IF y = x THEN v ELSE g[y]]

ImportsInit ==
  /\ walk \in {"plugins", "parse"} /\ content = <<>> /\ calling = EntryFile
  /\ frames = <<>> /\ visiting = {} /\ settled = {} /\ result = <<>>
  /\ decls = <<>> /\ found = <<>> /\ loads = [f \in File |-> 0] /\ failure = "none"

\* An error returns through every frame, and each deletes its own mark.
FailWalk(why) ==
  /\ failure' = why /\ calling' = "none" /\ frames' = <<>> /\ visiting' = {}
  /\ UNCHANGED <<walk, settled, result>>

-----------------------------------------------------------------------------
(* The walk itself.                                                        *)

\* The file has been resolved before: its result is used again.
CallsSettled ==
  /\ ~Ended /\ calling \in settled /\ calling' = "none"
  /\ UNCHANGED <<walk, content, frames, visiting, settled, result, decls, found, loads, failure>>

FindsCycle ==
  /\ ~Ended /\ calling \in visiting \ settled /\ FailWalk("cycle")
  /\ UNCHANGED <<content, decls, found, loads>>

\* gatherOne and parsePluginSpec; resolveFile leaves the plugins aside.
PluginSpecs(c) == IF walk = "plugins" THEN c.plugins ELSE <<>>

\* The specs of a file, in order, against those of the files before it: a
\* repeat folds into the first, and stops the walk when it differs at all.
Start == [decls |-> decls, found |-> found, clash |-> FALSE]
Declare(state, spec) ==
  IF state.clash THEN state
  ELSE IF spec.name \in DOMAIN state.decls
  THEN [decls |-> state.decls, found |-> state.found, clash |-> state.decls[spec.name] # spec]
  ELSE [decls |-> With(state.decls, spec.name, spec), found |-> Append(state.found, spec),
        clash |-> FALSE]
DeclareAll(state, specs) ==
  LET after[n \in 0..Len(specs)] == IF n = 0 THEN state ELSE Declare(after[n - 1], specs[n])
  IN after[Len(specs)]

\* load, gatherOne, the file's plugins (collectPlugins only) and import{}.
LoadsFile ==
  /\ ~Ended /\ calling \in File \ (settled \union visiting)
  /\ loads' = [loads EXCEPT ![calling] = @ + 1]
  /\ \E c \in IF calling \in DOMAIN content THEN {content[calling]} ELSE Contents[walk] :
       LET after == DeclareAll(Start, PluginSpecs(c))
       IN /\ content' = With(content, calling, c)
          /\ IF c.fault = "load" THEN UNCHANGED <<decls, found>>
             ELSE decls' = after.decls /\ found' = after.found
          /\ \/ c.fault = "load" /\ FailWalk("load")
             \/ c.fault # "load" /\ after.clash /\ FailWalk("conflict")
             \/ c.fault = "imports" /\ ~after.clash /\ FailWalk("imports")
             \/ /\ c.fault \notin {"load", "imports"} /\ ~after.clash
                /\ visiting' = visiting \union {calling} /\ calling' = "none"
                /\ frames' = Append(frames, [file |-> calling, todo |-> DOMAIN c.imports])
                /\ UNCHANGED <<walk, settled, result, failure>>

FollowsImport ==
  /\ ~Ended /\ calling = "none" /\ frames # <<>>
  /\ \E alias \in Top.todo :
       /\ calling' = Aliases(Top.file)[alias]
       /\ frames' = [frames EXCEPT ![Len(frames)].todo = @ \ {alias}]
  /\ UNCHANGED <<walk, content, visiting, settled, result, decls, found, loads, failure>>

\* The result is kept, and the deferred delete runs.
Leaves(f, r) ==
  /\ settled' = settled \union {f} /\ visiting' = visiting \ {f}
  /\ result' = With(result, f, r)
  /\ frames' = Front(frames) /\ failure' = IF Len(frames) = 1 THEN "ok" ELSE "none"

CollectReturns ==
  /\ ~Ended /\ walk = "plugins" /\ calling = "none" /\ frames # <<>> /\ Top.todo = {}
  /\ Leaves(Top.file, "collected")
  /\ UNCHANGED <<walk, content, calling, decls, found, loads>>
-----------------------------------------------------------------------------
(* What one file resolves to, once its imports have.                       *)

\* lookup: a qualified kind names its plugin, a bare one must have one owner.
Owners(b) == {p \in DOMAIN Provides : b.kind \in Provides[p] /\ b.plugin \in {"none", p}}

RestOf(b) == (IF b.plugin = "none" THEN <<>> ELSE <<b.plugin>>) \o <<b.kind, b.name>>
RefOf(b) == <<b.verb>> \o RestOf(b)

\* makeBinding: the resource of a block of file f.
BindingOf(f, b) ==
  [ref |-> RefOf(b), plugin |-> CHOOSE p \in Owners(b) : TRUE, file |-> f]

Own(f, verb) == {b \in Range(content[f].resources) : b.verb = verb}

BindingFails(f) ==
  LET blocks == content[f].resources
  IN \/ content[f].fault = "locals"
     \/ \E b \in Range(blocks) : Cardinality(Owners(b)) # 1 \/ ~b.valid
     \/ \E i, j \in 1..Len(blocks) : i < j /\ RefOf(blocks[i]) = RefOf(blocks[j])

\* refTree.insert, on the paths of the tree's leaves and branches.
NoTree == [leaves |-> {}, branches |-> {}, conflict |-> FALSE]
Above(path) == Prefixes(path) \ {<<>>, path}
Grown(tree, path) ==
  [tree EXCEPT !.leaves = @ \union {path}, !.branches = @ \union Above(path)]

\* Mutant: a leaf on the way is taken for a branch.
InsertThrough(tree, path) ==
  IF tree.conflict \/ path \in tree.leaves \union tree.branches
  THEN [tree EXCEPT !.conflict = TRUE]
  ELSE Grown(tree, path)

\* A leaf must be new, and nothing on the way to it may be a leaf.
Insert(tree, path) ==
  IF tree.conflict \/ path \in tree.leaves \union tree.branches
       \/ Above(path) \cap tree.leaves # {}
  THEN [tree EXCEPT !.conflict = TRUE]
  ELSE Grown(tree, path)

InsertAll(paths) ==
  LET tree[n \in 0..Len(paths)] == IF n = 0 THEN NoTree ELSE Insert(tree[n - 1], paths[n])
  IN tree[Len(paths)]
OrdersOf(S) == {s \in [1..Cardinality(S) -> S] : Range(s) = S}

\* makeRefCtx: each reference in full and without its verb, next to local.*,
\* env.* and imports.*.
BothPaths(order) ==
  [k \in 1..2 * Len(order) |->
     LET b == order[(k + 1) \div 2] IN IF k % 2 = 1 THEN RefOf(b) ELSE RestOf(b)]
RefCtxAdmits(order) ==
  LET tree == InsertAll(BothPaths(order))
      roots == {p[1] : p \in tree.leaves \union tree.branches}
  IN ~tree.conflict /\ roots \cap {"local", "env", "imports"} = {}

\* buildImportsValue: the references of an imported file, without their verb.
ImportAdmits(order) == ~InsertAll([i \in DOMAIN order |-> RestOf(order[i])]).conflict

Child(f, alias) == result[Aliases(f)[alias]]
SlotKey(alias, p, verb, i) == <<"imports", alias, "pipeline", p, verb, i>>
Qualified(alias, ref) == <<"imports", alias>> \o ref

\* The keys that a path may evaluate to in the context of a verb: the file's
\* own references of that verb, and those of its imports whatever their verb.
KeysAt(f, verb, path) ==
  {RefOf(b) : b \in {c \in Own(f, verb) : path \in {RefOf(c), RestOf(c)}}}
  \union {k \in UNION {{Qualified(a, r.ref) : r \in UNION Range(Child(f, a).own)} :
                        a \in DOMAIN Aliases(f)} : k = path}

\* The value of a reference.  An element that is not there has a key too,
\* which stands for nothing.
KeyOf(f, verb, ref) ==
  IF ref.indexed THEN SlotKey(ref.alias, ref.pipe, ref.verb, ref.index)
  ELSE IF KeysAt(f, verb, ref.path) = {} THEN <<"undefined">>
  ELSE CHOOSE k \in KeysAt(f, verb, ref.path) : TRUE

\* The pipeline of an import that x names, and the slot of it.
ImportsPipeline(f, x) ==
  x.alias \in DOMAIN Aliases(f) /\ x.pipe \in DOMAIN Child(f, x.alias).pipelines
ImportedSlot(f, x) == Child(f, x.alias).pipelines[x.pipe].slots[x.verb]

\* evalRefList: a list of references, or a slot of an imported pipeline as a
\* whole (refListVal).
KeyList(f, verb, x) ==
  IF ~x.whole THEN [i \in DOMAIN x.refs |-> KeyOf(f, verb, x.refs[i])]
  ELSE IF ImportsPipeline(f, x)
  THEN [i \in DOMAIN ImportedSlot(f, x) |-> SlotKey(x.alias, x.pipe, x.verb, i)]
  ELSE <<<<"undefined">>>>

\* lookupBindings of a verb: the resources with their keys.
LookupBindings(f, verb) ==
  {<<RefOf(b), BindingOf(f, b)>> : b \in Own(f, verb)}
  \union (UNION {{<<Qualified(a, r.ref), r>> : r \in Child(f, a).own[verb]} : a \in DOMAIN Aliases(f)})
  \union (UNION {UNION {{<<SlotKey(a, p, verb, i), Child(f, a).pipelines[p].slots[verb][i]>> :
                           i \in DOMAIN Child(f, a).pipelines[p].slots[verb]} :
                        p \in DOMAIN Child(f, a).pipelines} : a \in DOMAIN Aliases(f)})

\* resolveRefs.
Known(f, verb, key) == \E e \in LookupBindings(f, verb) : e[1] = key
At(f, verb, key) == (CHOOSE e \in LookupBindings(f, verb) : e[1] = key)[2]
ResolveRefs(f, verb, keys) == [i \in DOMAIN keys |-> At(f, verb, keys[i])]

\* makePipeline.
Resolved(f, p, verb) ==
  IF verb \in DOMAIN p.lists THEN ResolveRefs(f, verb, KeyList(f, verb, p.lists[verb])) ELSE <<>>
SeedKeys(f, p) == KeyList(f, "produce", [whole |-> FALSE, refs |-> p.from])
Remote(p) == p.from # <<>>

\* The lists of some verbs are known.
ListsKnown(f, p, verbs) ==
  \A verb \in DOMAIN p.lists \cap verbs :
    \A k \in Range(KeyList(f, verb, p.lists[verb])) : Known(f, verb, k)

Accepts(f, p) ==
  /\ "consume" \in DOMAIN p.lists /\ ListsKnown(f, p, Verb)
  /\ Remote(p) # ("produce" \in DOMAIN p.lists)
  /\ IF Remote(p)
     THEN /\ Known(f, "produce", SeedKeys(f, p)[1])
          /\ p.seconds \in 0..MaxSeconds /\ p.parallel > 0
     ELSE Resolved(f, p, "produce") # <<>> /\ p.parallel >= 0

\* What a path of the context of produce may lead through or end at: local.*
\* and env.*, the references, and the parts of an import, empty ones too.
Paths(f) ==
  {<<"local">>, <<"env">>, <<"imports">>}
  \union UNION {{RefOf(b), RestOf(b)} : b \in Own(f, "produce")}
  \union UNION {{Qualified(a, r.ref) : r \in UNION Range(Child(f, a).own)}
                 \union {<<"imports", a, part>> : part \in Verb \union {"pipeline"}}
                 \union {<<"imports", a, "pipeline", n, part>> :
                           n \in DOMAIN Child(f, a).pipelines,
                           part \in Verb \union {"exit-on-error"}} :
               a \in DOMAIN Aliases(f)}

\* makePipeline panics over a seed that is there and is no reference: it takes
\* the value for a string (AsString), and it comes to the seed once the
\* consumers and the transformers are known.
SeedPanics(f, p) ==
  /\ "consume" \in DOMAIN p.lists /\ ListsKnown(f, p, {"consume", "transform"})
  /\ Remote(p) /\ "produce" \notin DOMAIN p.lists /\ ~p.from[1].indexed
  /\ KeysAt(f, "produce", p.from[1].path) = {}
  /\ \E path \in Paths(f) : IsPrefix(p.from[1].path, path)

PipelineOf(f, p) ==
  [slots |-> [verb \in Verb |-> Resolved(f, p, verb)],
   seed |-> ResolveRefs(f, "produce", SeedKeys(f, p)),
   parallel |-> IF p.parallel = 0 THEN Len(Resolved(f, p, "produce")) ELSE p.parallel]

PipelinesFail(f) ==
  LET ps == content[f].pipelines
  IN \/ \E p \in Range(ps) : ~Accepts(f, p)
     \/ \E i, j \in 1..Len(ps) : i < j /\ ps[i].name = ps[j].name

\* The pipelines are made in order, and the first that fails decides.
Panics(f) ==
  LET ps == content[f].pipelines
  IN \E n \in 1..Len(ps) :
       /\ SeedPanics(f, ps[n]) /\ \A i \in 1..n - 1 : Accepts(f, ps[i])
       /\ \A i, j \in 1..n - 1 : i < j => ps[i].name # ps[j].name

ResultOf(f) ==
  [own |-> [verb \in Verb |-> {BindingOf(f, b) : b \in Own(f, verb)}],
   pipelines |-> [n \in {p.name : p \in Range(content[f].pipelines)} |->
                    PipelineOf(f, CHOOSE p \in Range(content[f].pipelines) : p.name = n)]]

\* resolveFile after its imports: each check may stop it, in this order.  The
\* trees are built in any order of the references.
ImportsConflict(f) ==
  \E a \in DOMAIN Aliases(f), verb \in Verb :
     \E order \in OrdersOf(Own(Aliases(f)[a], verb)) : ~ImportAdmits(order)
ImportsAdmitted(f) ==
  \A a \in DOMAIN Aliases(f), verb \in Verb :
     \E order \in OrdersOf(Own(Aliases(f)[a], verb)) : ImportAdmits(order)
RefsConflict(f) == \E verb \in Verb : \E order \in OrdersOf(Own(f, verb)) : ~RefCtxAdmits(order)
RefsAdmitted(f) == \A verb \in Verb : \E order \in OrdersOf(Own(f, verb)) : RefCtxAdmits(order)

Outcomes(f) ==
  (IF ImportsConflict(f) THEN {"import ref"} ELSE {}) \union
  (IF ~ImportsAdmitted(f) THEN {}
   ELSE IF BindingFails(f) THEN {"binding"}
   ELSE (IF RefsConflict(f) THEN {"ref"} ELSE {}) \union
        (IF ~RefsAdmitted(f) THEN {} ELSE IF ~PipelinesFail(f) THEN {"resolved"}
         ELSE IF Panics(f) THEN {"panic"} ELSE {"pipeline"}))

ResolveReturns ==
  /\ ~Ended /\ walk = "parse" /\ calling = "none" /\ frames # <<>> /\ Top.todo = {}
  /\ \E outcome \in Outcomes(Top.file) :
       IF outcome = "resolved"
       THEN Leaves(Top.file, ResultOf(Top.file)) /\ UNCHANGED <<walk, calling>>
       ELSE FailWalk(outcome)
  /\ UNCHANGED <<content, decls, found, loads>>

ImportsNext ==
  \/ CallsSettled \/ FindsCycle \/ LoadsFile \/ FollowsImport
  \/ CollectReturns \/ ResolveReturns

ImportsSpec == ImportsInit /\ [][ImportsNext]_importsState
-----------------------------------------------------------------------------
(* Properties.                                                             *)

Frame == [file : File, todo : SUBSET STRING]
Resource == [ref : Path, plugin : DOMAIN Provides, file : File]
Resolution(r) ==
  /\ r.own \in [Verb -> SUBSET Resource]
  /\ \A n \in DOMAIN r.pipelines :
       r.pipelines[n].slots \in [Verb -> Seq(Resource)] /\ r.pipelines[n].seed \in Seq(Resource)

ImportsTypeOK ==
  /\ walk \in {"plugins", "parse"} /\ calling \in File \union {"none"}
  /\ DOMAIN content \subseteq File /\ \A f \in DOMAIN content : content[f] \in Contents[walk]
  /\ frames \in Seq(Frame) /\ loads \in [File -> Nat]
  /\ visiting \subseteq DOMAIN content /\ settled \subseteq DOMAIN content
  /\ DOMAIN result = settled /\ (walk = "parse" => \A f \in settled : Resolution(result[f]))
  /\ found \in Seq(PluginBlock)
  /\ failure \in {"none", "ok", "load", "imports", "cycle", "conflict",
                   "binding", "ref", "pipeline", "panic"}

\* The marks are those of the open frames, and no file is read twice: neither
\* a shared import nor an error leaves a mark behind.
MarksMatchFrames ==
  /\ visiting = {frames[i].file : i \in DOMAIN frames}
  /\ IsFiniteSet(visiting) /\ Cardinality(visiting) = Len(frames)
  /\ visiting \cap settled = {} /\ (Ended => frames = <<>>)
  /\ \A f \in File : loads[f] <= 1 /\ (loads[f] = 1 => f \in DOMAIN content)

Targets(f) == Range(Aliases(f))

\* The call stack is a path of imports that leads to the file whose turn it
\* is, and what a frame has followed is settled, but for the file it waits for.
FramesArePath ==
  /\ \A i \in 1..Len(frames) - 1 : frames[i + 1].file \in Targets(frames[i].file)
  /\ calling # "none" /\ frames # <<>> => calling \in Targets(Top.file)
  /\ \A i \in 1..Len(frames) :
       LET f == frames[i].file
           awaited == IF i < Len(frames) THEN frames[i + 1].file ELSE calling
       IN /\ frames[i].todo \subseteq DOMAIN Aliases(f)
          /\ \A a \in DOMAIN Aliases(f) \ frames[i].todo : Aliases(f)[a] \in settled \union {awaited}

AcyclicIn(F) == \A S \in SUBSET F : S = {} \/ \E f \in S : Targets(f) \cap S = {}

\* What is settled imports nothing else and never itself, and is all that was
\* met, apart from the open frames.
SettledIsClosed ==
  /\ failure \in {"none", "ok"} => DOMAIN content = visiting \union settled
  /\ \A f \in settled : Targets(f) \subseteq settled
  /\ AcyclicIn(settled)

Specs == UNION {Range(content[f].plugins) : f \in DOMAIN content}

\* A name is declared once, as what was found under it; and what was found is
\* what the files say, whatever order they were met in.
FoundIsDeclared ==
  /\ DOMAIN decls = {found[i].name : i \in DOMAIN found}
  /\ \A i \in DOMAIN found : decls[found[i].name] = found[i]
  /\ \A i, j \in DOMAIN found : found[i].name = found[j].name => i = j
  /\ walk = "plugins" /\ failure \in {"none", "ok"} => Range(found) = Specs

\* The paths under which a verb's references are reachable clash.
Reserved(p) == p[1] \in {"local", "env", "imports"}
Ambiguous(f, verb) ==
  LET paths == {<<b, RefOf(b)>> : b \in Own(f, verb)} \union {<<b, RestOf(b)>> : b \in Own(f, verb)}
  IN \E p, q \in paths : (p # q /\ IsPrefix(p[2], q[2])) \/ Reserved(p[2])

\* The outcome is the files', never the iteration order's: a walk that ends
\* well has met every file that can be reached, no cycle, each plugin once
\* and no two paths of which one hides the other; a walk that fails over one
\* of these has met it.
OutcomeIsOrderFree ==
  /\ failure = "ok" =>
       /\ settled = DOMAIN content /\ AcyclicIn(DOMAIN content)
       /\ \A f \in settled : Targets(f) \subseteq settled
       /\ walk = "plugins" => /\ Range(found) = Specs
                              /\ \A i, j \in DOMAIN found : found[i].name = found[j].name => i = j
  /\ walk = "parse" => \A f \in settled, verb \in Verb : ~Ambiguous(f, verb)
  /\ failure = "cycle" => ~AcyclicIn(DOMAIN content)
  /\ failure = "conflict" => \E s, t \in Specs : s # t /\ s.name = t.name
  /\ failure = "ref" => \E f \in DOMAIN content, verb \in Verb : Ambiguous(f, verb)

\* A resource of a pipeline is a block of its verb, in a file that was resolved.
Declared(r, verb) ==
  /\ r.ref[1] = verb /\ r.file \in settled
  /\ \E b \in Own(r.file, verb) : r = BindingOf(r.file, b)

\* A reference names a resource: a path one of the file itself, in full or
\* without the verb, or one that a direct import declares; an element of an
\* imported pipeline's slot the resource which that pipeline runs there,
\* however deep it took it from.
Names(f, verb, ref, r) ==
  IF ref.indexed
  THEN /\ ImportsPipeline(f, ref) /\ ref.index \in DOMAIN ImportedSlot(f, ref)
       /\ r = ImportedSlot(f, ref)[ref.index]
  ELSE \/ r.file = f /\ r.ref \in {ref.path, <<verb>> \o ref.path}
       \/ \E a \in DOMAIN Aliases(f) : r.file = Aliases(f)[a] /\ ref.path = Qualified(a, r.ref)

Lists(f, verb, refs, slot) ==
  Len(slot) = Len(refs) /\ \A i \in DOMAIN refs : Names(f, verb, refs[i], slot[i])

\* What a pipeline runs is what its file says: resources of the slot's verb
\* that some file declares, one for each reference in the order of the list,
\* the seed included; and exactly the imported pipeline's where a slot is taken
\* whole.  It has either producers or a seed, and a place in the pool.
Means(f, p, q) ==
  /\ q.parallel \in Nat \ {0} /\ (q.seed = <<>>) = (q.slots["produce"] # <<>>)
  /\ \A verb \in Verb : \A r \in Range(q.slots[verb]) : Declared(r, verb)
  /\ \A r \in Range(q.seed) : Declared(r, "produce")
  /\ Lists(f, "produce", p.from, q.seed)
  /\ \A verb \in DOMAIN p.lists :
       LET x == p.lists[verb]
       IN IF x.whole THEN ImportsPipeline(f, x) /\ q.slots[verb] = ImportedSlot(f, x)
          ELSE Lists(f, verb, x.refs, q.slots[verb])

PipelinesMeanWhatTheySay ==
  \A f \in IF walk = "parse" THEN settled ELSE {} :
    /\ \A verb \in Verb : result[f].own[verb] = {BindingOf(f, b) : b \in Own(f, verb)}
    /\ DOMAIN result[f].pipelines = {p.name : p \in Range(content[f].pipelines)}
    /\ \A p \in Range(content[f].pipelines) : Means(f, p, result[f].pipelines[p.name])

ImportInv ==
  /\ ImportsTypeOK /\ MarksMatchFrames /\ FramesArePath /\ SettledIsClosed /\ FoundIsDeclared
  /\ OutcomeIsOrderFree /\ PipelinesMeanWhatTheySay
=============================================================================
