---------------------------- MODULE PluginStore -----------------------------
(***************************************************************************)
(* The plugin store and the lock file of package plugins: Build, as one    *)
(* `psyduck init` runs it, and Load, as one run does, on the same          *)
(* directory.  A binary is its version, which stands for its bytes and for *)
(* their hash; Short is the part of the hash that names the slot.  Both    *)
(* files are written in place: between the truncation and the last byte    *)
(* they are torn, and a process may stop in between.                       *)
(***************************************************************************)
EXTENDS Naturals, Sequences, SequencesExt, FiniteSets

CONSTANTS
  Plugin,    \* plugin names
  Version,   \* what a build can produce
  Short,     \* the first characters of a version's hash
  SpecLists, \* the plugin blocks of a file to choose from, at every init
  MaxInits   \* bound: how often init is started

\* A plugin block, as far as fetch tells blocks apart.
PluginSpec ==
  [name : Plugin, kind : {"local", "remote"}, mode : {"go", "bun", "bin"}, dir : BOOLEAN]

\* Parsing admits a plugin name once, and a version is never one of the marks
\* of a file that holds none.
ASSUME StoreAssumption ==
  /\ MaxInits \in Nat
  /\ DOMAIN Short = Version /\ Version \cap {"absent", "torn"} = {}
  /\ SpecLists \subseteq Seq(PluginSpec)
  /\ \A l \in SpecLists : \A i, j \in 1..Len(l) : l[i].name = l[j].name => i = j

VARIABLES
  slots,     \* the store: what the file of a slot holds
  lock,      \* the lock file: "missing", "torn" or "whole", and its entries
  initAt,    \* where init is
  specs,     \* the plugins it has yet to fetch
  built,     \* the binary that it writes
  locked,    \* the entries it has so far
  inits,     \* how often it was started
  initOutcome, \* history: how the latest init ended
  loadAt,    \* where Load is
  listed,    \* history: the entries of the lock file that the run has read
  wants,     \* those of them that it has yet to load
  verified,  \* the entry whose file was hashed
  clients    \* the subprocesses launched: entries, with what is running

initVars == <<initAt, specs, built, locked, inits, initOutcome>>
loadVars == <<loadAt, listed, wants, verified, clients>>
storeVars == <<slots, lock, initVars, loadVars>>

None == [name |-> "none", hash |-> "none"]
Entry == [name : Plugin, hash : Version]
Slot == Plugin \X {Short[v] : v \in Version}

\* binPath.
SlotOf(e) == <<e.name, Short[e.hash]>>

WholeLock(es) == [state |-> "whole", entries |-> es]
NoLock(why) == [state |-> why, entries |-> {}]

StoreInit ==
  /\ slots = [s \in Slot |-> "absent"] /\ lock = NoLock("missing")
  /\ initAt = "idle" /\ specs = <<>> /\ built = None /\ locked = {} /\ inits = 0
  /\ initOutcome = "none"
  /\ loadAt = "idle" /\ listed = {} /\ wants = {} /\ verified = None /\ clients = {}

-----------------------------------------------------------------------------
(* init: Store.Build and WriteLock.                                        *)

\* What fetch can handle at all: a directory is built, a bare file is taken
\* as it is when buildmode says so, and a clone is always a directory.
Fetchable(spec) ==
  \/ spec.kind = "local" /\ spec.mode \in {"go", "bun"} /\ spec.dir
  \/ spec.kind = "local" /\ spec.mode = "bin" /\ ~spec.dir
  \/ spec.kind = "remote" /\ spec.mode \in {"go", "bun"}

InitStarts ==
  /\ initAt = "idle" /\ inits < MaxInits
  /\ inits' = inits + 1 /\ initAt' = "fetch" /\ initOutcome' = "none"
  /\ specs' \in SpecLists /\ built' = None /\ locked' = {}
  /\ UNCHANGED <<slots, lock, loadVars>>

\* Clone, checkout, resolve and build: all of it in a temporary directory.
Fetches ==
  /\ initAt = "fetch" /\ specs # <<>> /\ Fetchable(Head(specs))
  /\ initAt' = "store" /\ \E v \in Version : built' = [name |-> Head(specs).name, hash |-> v]
  /\ UNCHANGED <<slots, lock, specs, locked, inits, initOutcome, loadVars>>

InitEnds(how) ==
  /\ initAt' = "idle" /\ initOutcome' = how /\ specs' = <<>> /\ built' = None /\ locked' = {}
  /\ UNCHANGED inits

\* Any tool may fail, and then nothing was stored for this plugin.
FetchFails ==
  /\ initAt = "fetch" /\ specs # <<>> /\ InitEnds("failed")
  /\ UNCHANGED <<slots, lock, loadVars>>

Running(s) == \E c \in clients : SlotOf(c.entry) = s

\* storeBinary: the file is truncated; one that is being executed is busy.
OpensSlot ==
  /\ initAt = "store" /\ ~Running(SlotOf(built))
  /\ slots' = [slots EXCEPT ![SlotOf(built)] = "torn"] /\ initAt' = "writing"
  /\ UNCHANGED <<lock, specs, built, locked, inits, initOutcome, loadVars>>

SlotIsBusy ==
  /\ initAt = "store" /\ Running(SlotOf(built)) /\ InitEnds("failed")
  /\ UNCHANGED <<slots, lock, loadVars>>

WritesSlot ==
  /\ initAt = "writing"
  /\ slots' = [slots EXCEPT ![SlotOf(built)] = built.hash]
  /\ locked' = locked \cup {built} /\ built' = None /\ specs' = Tail(specs) /\ initAt' = "fetch"
  /\ UNCHANGED <<lock, inits, initOutcome, loadVars>>

\* WriteLock, after the last plugin was stored.
OpensLock ==
  /\ initAt = "fetch" /\ specs = <<>>
  /\ lock' = NoLock("torn") /\ initAt' = "locking"
  /\ UNCHANGED <<slots, specs, built, locked, inits, initOutcome, loadVars>>

WritesLock ==
  /\ initAt = "locking"
  /\ lock' = WholeLock(locked) /\ InitEnds("done")
  /\ UNCHANGED <<slots, loadVars>>

\* The process is killed, or a write fails: what is on the disk stays.
InitStops ==
  /\ initAt # "idle" /\ InitEnds("failed")
  /\ UNCHANGED <<slots, lock, loadVars>>

InitProcess ==
  \/ InitStarts \/ Fetches \/ FetchFails \/ OpensSlot \/ SlotIsBusy \/ WritesSlot
  \/ OpensLock \/ WritesLock \/ InitStops

-----------------------------------------------------------------------------
(* A run: ReadLock and Store.Load.                                         *)

ReadsLock ==
  /\ loadAt = "idle"
  /\ IF lock.state = "whole"
     THEN loadAt' = "load" /\ wants' = lock.entries /\ listed' = lock.entries
     ELSE loadAt' = "failed" /\ UNCHANGED <<wants, listed>>
  /\ UNCHANGED <<slots, lock, initVars, verified, clients>>

\* verifyHash.
Verifies(e) ==
  /\ loadAt = "load" /\ e \in wants /\ slots[SlotOf(e)] = e.hash
  /\ loadAt' = "dial" /\ verified' = e
  /\ UNCHANGED <<slots, lock, initVars, listed, wants, clients>>

\* Mutant: a plugin that does not load leaves running what was launched before it.
LoadFailsLeaky ==
  /\ loadAt' = "failed" /\ verified' = None /\ listed' = {} /\ wants' = {}
  /\ UNCHANGED clients

\* Every way to fail tears down what was launched.
LoadFails ==
  loadAt' = "failed" /\ verified' = None /\ listed' = {} /\ wants' = {} /\ clients' = {}

VerifyFails(e) ==
  /\ loadAt = "load" /\ e \in wants /\ slots[SlotOf(e)] # e.hash /\ LoadFails
  /\ UNCHANGED <<slots, lock, initVars>>

\* rpc.Dial executes what the slot holds by then.
Dials ==
  /\ loadAt = "dial" /\ slots[SlotOf(verified)] \in Version
  /\ clients' = clients \cup {[entry |-> verified, runs |-> slots[SlotOf(verified)]]}
  /\ wants' = wants \ {verified} /\ verified' = None /\ loadAt' = "load"
  /\ UNCHANGED <<slots, lock, initVars, listed>>

\* A torn file does not execute, nor does every plugin survive its handshake.
DialFails ==
  /\ loadAt = "dial" /\ LoadFails
  /\ UNCHANGED <<slots, lock, initVars>>

Loaded ==
  /\ loadAt = "load" /\ wants = {} /\ loadAt' = "loaded"
  /\ UNCHANGED <<slots, lock, initVars, listed, wants, verified, clients>>

\* Store.Close, or CleanupClients as the process exits; and the next run.
RunOver ==
  /\ loadAt \in {"loaded", "failed"}
  /\ loadAt' = "idle" /\ listed' = {} /\ clients' = {}
  /\ UNCHANGED <<slots, lock, initVars, wants, verified>>

Load ==
  \/ ReadsLock \/ Dials \/ DialFails \/ Loaded
  \/ \E e \in wants : Verifies(e) \/ VerifyFails(e)

StoreNext == InitProcess \/ Load \/ RunOver
StoreSpec == StoreInit /\ [][StoreNext]_storeVars

-----------------------------------------------------------------------------
(* Properties.                                                             *)

StoreTypeOK ==
  /\ slots \in [Slot -> Version \cup {"absent", "torn"}]
  /\ lock.state \in {"missing", "torn", "whole"} /\ lock.entries \subseteq Entry
  /\ initAt \in {"idle", "fetch", "store", "writing", "locking"}
  /\ initOutcome \in {"none", "done", "failed"}
  /\ specs \in Seq(PluginSpec) /\ locked \subseteq Entry /\ inits \in 0..MaxInits
  /\ built \in Entry \cup {None} /\ (initAt \in {"store", "writing"} => built \in Entry /\ specs # <<>>)
  /\ loadAt \in {"idle", "load", "dial", "loaded", "failed"}
  /\ wants \subseteq Entry /\ listed \subseteq Entry /\ verified \in Entry \cup {None}
  /\ loadAt = "dial" => verified \in Entry
  /\ \A c \in clients : c.entry \in Entry /\ c.runs \in Version

Collide(v, w) == v # w /\ Short[v] = Short[w]

\* A slot only ever holds a version of its own short hash.
SlotsFit == \A s \in Slot : slots[s] \in Version => Short[slots[s]] = s[2]

\* The entries that init has collected are in the store, and of other names
\* than what it has yet to fetch, so nothing it does can take them away.
EntriesAreStored ==
  /\ \A e \in locked : slots[SlotOf(e)] = e.hash
  /\ \A e, f \in locked : e.name = f.name => e = f
  /\ \A e \in locked : \A i \in 1..Len(specs) : specs[i].name # e.name
  /\ \A i, j \in 1..Len(specs) : specs[i].name = specs[j].name => i = j
  /\ initAt \in {"store", "writing"} => built.name = Head(specs).name

\* What a whole lock names is there, whatever init was doing when it stopped:
\* but for a slot that was torn, or taken by a version whose hash begins alike.
LockIsBacked ==
  \A e \in lock.entries :
    LET held == slots[SlotOf(e)] IN held = e.hash \/ held = "torn" \/ Collide(held, e.hash)

\* A slot is torn only while it is written or after an init that failed, and
\* an init that comes to its end leaves a lock that loads, for as long as no
\* other one starts.
InitHeals ==
  (initOutcome = "done" /\ initAt = "idle") =>
     \A e \in lock.entries : lock.state = "whole" /\ slots[SlotOf(e)] = e.hash

\* A run launches what the lock names, or a version that collides with it,
\* although the file is hashed first and executed afterwards.
LaunchedIsLocked ==
  \A c \in clients : c.runs = c.entry.hash \/ Collide(c.runs, c.entry.hash)

Launched == {c.entry : c \in clients}

\* A run launches all that the lock file listed when it was read, although an
\* init may rewrite the file meanwhile; or nothing stays launched, when one
\* plugin does not load or when the run is over.
LoadIsAllOrNothing ==
  /\ loadAt \in {"idle", "failed"} => clients = {}
  /\ loadAt \in {"load", "dial"} => Launched \cup wants = listed
  /\ loadAt = "dial" => verified \in wants
  /\ loadAt = "loaded" => Launched = listed

\* Build and Load on one directory: whatever init was doing when it stopped, a
\* run launches exactly what a lock file listed, or nothing at all, and an init
\* that comes to its end repairs what another one left torn.
StoreInv ==
  /\ StoreTypeOK /\ SlotsFit /\ EntriesAreStored /\ LockIsBacked
  /\ InitHeals /\ LaunchedIsLocked /\ LoadIsAllOrNothing

=============================================================================
