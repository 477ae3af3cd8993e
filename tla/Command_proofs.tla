--------------------------- MODULE Command_proofs ---------------------------
(***************************************************************************)
(* The invariant of the plugin store, for any plugins, versions, short     *)
(* hashes, plugin blocks and number of inits; and that of `psyduck run` on *)
(* a store, for any finite set of pipelines and any number of consumers    *)
(* and transformers in each.                                               *)
(***************************************************************************)
EXTENDS Command, FiniteSetTheorems, TLAPS

-----------------------------------------------------------------------------
(* The plugin store.                                                       *)

\* A slot is a name and a short hash: two entries share one only if they share
\* the name, and their versions are the same or begin alike.
LEMMA SlotTypes ==
  ASSUME NEW e \in Entry
  PROVE  /\ SlotOf(e) \in Slot /\ SlotOf(e)[1] = e.name /\ SlotOf(e)[2] = Short[e.hash]
         /\ e.name \in Plugin /\ e.hash \in Version
BY DEF SlotOf, Slot, Entry

\* A file that is torn or absent holds no version.
LEMMA MarksAreNoVersions == "torn" \notin Version /\ "absent" \notin Version
BY StoreAssumption

\* The first block of a list and the rest of it.
LEMMA SpecsAfterOne ==
  ASSUME NEW l \in Seq(PluginSpec), l # <<>>
  PROVE  /\ Head(l) \in PluginSpec /\ Head(l) = l[1] /\ Tail(l) \in Seq(PluginSpec)
         /\ Len(Tail(l)) = Len(l) - 1 /\ 1 \in 1..Len(l)
         /\ \A i \in 1..Len(Tail(l)) : Tail(l)[i] = l[i + 1] /\ i + 1 \in 1..Len(l)
OBVIOUS

-----------------------------------------------------------------------------
LEMMA StoreInitInv == StoreInit => StoreInv
<1> SUFFICES ASSUME StoreInit PROVE StoreInv
  OBVIOUS
<1> USE DEF StoreInit
<1>2. StoreTypeOK
  BY StoreAssumption DEF StoreTypeOK, NoLock
<1>3. SlotsFit
  BY MarksAreNoVersions DEF SlotsFit
<1>4. EntriesAreStored
  BY DEF EntriesAreStored
<1>5. LockIsBacked /\ InitHeals /\ LaunchedIsLocked /\ LoadIsAllOrNothing
  BY DEF LockIsBacked, InitHeals, LaunchedIsLocked, LoadIsAllOrNothing, Launched, NoLock
<1> QED
  BY <1>2, <1>3, <1>4, <1>5 DEF StoreInv

-----------------------------------------------------------------------------
(* Types.                                                                  *)

\* An init that ends, however it does, leaves nothing of itself.
LEMMA InitEndsTypes ==
  ASSUME StoreTypeOK, NEW how \in {"done", "failed"}, InitEnds(how)
  PROVE  /\ initAt' = "idle" /\ specs' \in Seq(PluginSpec) /\ locked' = {} /\ inits' \in 0..MaxInits
         /\ built' = None /\ initOutcome' = how
BY DEF StoreTypeOK, InitEnds

LEMMA StoreTypeStep == StoreTypeOK /\ [StoreNext]_storeVars => StoreTypeOK'
<1> SUFFICES ASSUME StoreTypeOK, [StoreNext]_storeVars PROVE StoreTypeOK'
  OBVIOUS
<1> USE DEF StoreTypeOK
<1>1. CASE InitStarts
  BY <1>1, StoreAssumption DEF InitStarts, loadVars
<1>2. CASE Fetches
  <2>1. Head(specs).name \in Plugin
    BY <1>2, SpecsAfterOne DEF Fetches, PluginSpec
  <2> QED
    BY <1>2, <2>1 DEF Fetches, loadVars, Entry
<1>3. CASE FetchFails
  BY <1>3, InitEndsTypes DEF FetchFails, loadVars
<1>4. CASE OpensSlot
  BY <1>4, SlotTypes DEF OpensSlot, loadVars
<1>5. CASE SlotIsBusy
  BY <1>5, InitEndsTypes DEF SlotIsBusy, loadVars
<1>6. CASE WritesSlot
  <2>1. built \in Entry /\ built.hash \in Version
    BY <1>6, SlotTypes DEF WritesSlot
  <2>2. specs' \in Seq(PluginSpec)
    BY <1>6, SpecsAfterOne DEF WritesSlot
  <2> QED
    BY <1>6, <2>1, <2>2 DEF WritesSlot, loadVars
<1>7. CASE OpensLock
  BY <1>7 DEF OpensLock, loadVars, NoLock
<1>8. CASE WritesLock
  BY <1>8, InitEndsTypes DEF WritesLock, loadVars, WholeLock
<1>9. CASE InitStops
  BY <1>9, InitEndsTypes DEF InitStops, loadVars
<1>10. CASE ReadsLock
  BY <1>10 DEF ReadsLock, initVars
<1>11. ASSUME NEW e \in wants, Verifies(e) PROVE StoreTypeOK'
  BY <1>11 DEF Verifies, initVars
<1>12. ASSUME NEW e \in wants, VerifyFails(e) PROVE StoreTypeOK'
  BY <1>12 DEF VerifyFails, LoadFails, initVars
<1>13. CASE Dials
  BY <1>13 DEF Dials, initVars
<1>14. CASE DialFails
  BY <1>14 DEF DialFails, LoadFails, initVars
<1>15. CASE Loaded
  BY <1>15 DEF Loaded, initVars
<1>16. CASE RunOver
  BY <1>16 DEF RunOver, initVars
<1>17. CASE UNCHANGED storeVars
  BY <1>17 DEF storeVars, initVars, loadVars
<1> QED
  BY <1>1, <1>2, <1>3, <1>4, <1>5, <1>6, <1>7, <1>8, <1>9, <1>10, <1>11, <1>12, <1>13, <1>14,
     <1>15, <1>16, <1>17 DEF StoreNext, InitProcess, Load

-----------------------------------------------------------------------------
(* The invariant, one part after the other.                                *)

\* What an action of init or of a run leaves alone, in one place.
LEMMA StoreFrames ==
  /\ Load \/ RunOver => UNCHANGED <<slots, lock, initVars>>
  /\ InitProcess => UNCHANGED loadVars
  /\ InitStarts \/ Fetches \/ FetchFails \/ SlotIsBusy \/ InitStops => UNCHANGED <<slots, lock>>
  /\ OpensSlot \/ WritesSlot => UNCHANGED lock
  /\ OpensLock \/ WritesLock => UNCHANGED slots
<1>1. Load \/ RunOver => UNCHANGED <<slots, lock, initVars>>
  BY DEF Load, ReadsLock, Dials, DialFails, Loaded, Verifies, VerifyFails, RunOver
<1>2. InitProcess => UNCHANGED loadVars
  BY DEF InitProcess, InitStarts, Fetches, FetchFails, OpensSlot, SlotIsBusy, WritesSlot,
         OpensLock, WritesLock, InitStops
<1> QED
  BY <1>1, <1>2 DEF InitStarts, Fetches, FetchFails, OpensSlot, SlotIsBusy, WritesSlot,
         OpensLock, WritesLock, InitStops

LEMMA SlotsFitStep ==
  StoreTypeOK /\ SlotsFit /\ [StoreNext]_storeVars => SlotsFit'
<1> SUFFICES ASSUME StoreTypeOK, SlotsFit, [StoreNext]_storeVars PROVE SlotsFit'
  OBVIOUS
<1>1. CASE OpensSlot
  BY <1>1, MarksAreNoVersions, SlotTypes DEF OpensSlot, SlotsFit, StoreTypeOK
<1>2. CASE WritesSlot
  BY <1>2, SlotTypes DEF WritesSlot, SlotsFit, StoreTypeOK
<1>3. CASE UNCHANGED slots
  BY <1>3 DEF SlotsFit
<1> QED
  BY <1>1, <1>2, <1>3, StoreFrames DEF StoreNext, InitProcess, storeVars

\* An init that stops, or that has nothing collected, owes nothing.
LEMMA NothingCollected ==
  ASSUME locked = {}, specs = <<>>, initAt = "idle"
  PROVE  EntriesAreStored
BY DEF EntriesAreStored

LEMMA EntriesStep ==
  StoreTypeOK /\ EntriesAreStored /\ [StoreNext]_storeVars => EntriesAreStored'
<1> SUFFICES ASSUME StoreTypeOK, EntriesAreStored, [StoreNext]_storeVars PROVE EntriesAreStored'
  OBVIOUS
<1>1. CASE InitStarts
  <2>1. locked' = {} /\ specs' \in SpecLists /\ initAt' = "fetch"
    BY <1>1 DEF InitStarts
  <2>2. \A i, j \in 1..Len(specs') : specs'[i].name = specs'[j].name => i = j
    BY <2>1, StoreAssumption
  <2> QED
    BY <2>1, <2>2 DEF EntriesAreStored
<1>2. CASE Fetches
  BY <1>2 DEF Fetches, EntriesAreStored
<1>3. CASE OpensSlot
  <2>1. \A e \in locked : SlotOf(e) # SlotOf(built)
    <3> SUFFICES ASSUME NEW e \in locked PROVE SlotOf(e) # SlotOf(built)
      OBVIOUS
    <3>1. built.name = specs[1].name /\ 1 \in 1..Len(specs)
      BY <1>3, SpecsAfterOne DEF OpensSlot, EntriesAreStored, StoreTypeOK
    <3>2. e.name # built.name
      BY <3>1 DEF EntriesAreStored
    <3> QED
      BY <3>2 DEF SlotOf
  <2>2. \A e \in locked : slots'[SlotOf(e)] = e.hash
    BY <1>3, <2>1, SlotTypes DEF OpensSlot, EntriesAreStored, StoreTypeOK
  <2> QED
    BY <1>3, <2>2 DEF OpensSlot, EntriesAreStored
<1>4. CASE WritesSlot
  <2>1. /\ built \in Entry /\ built.name = specs[1].name /\ specs' = Tail(specs)
        /\ Len(specs') = Len(specs) - 1 /\ 1 \in 1..Len(specs) /\ Len(specs) \in Nat
        /\ \A i \in 1..Len(specs') : specs'[i] = specs[i + 1] /\ i + 1 \in 1..Len(specs)
    BY <1>4, SpecsAfterOne DEF WritesSlot, EntriesAreStored, StoreTypeOK
  <2>2. locked' = locked \cup {built} /\ initAt' = "fetch"
        /\ slots' = [slots EXCEPT ![SlotOf(built)] = built.hash]
    BY <1>4 DEF WritesSlot
  <2>3. \A e \in locked : e.name # built.name
    BY <2>1 DEF EntriesAreStored
  <2>4. \A e \in locked' : slots'[SlotOf(e)] = e.hash
    BY <2>1, <2>2, <2>3, SlotTypes DEF EntriesAreStored, StoreTypeOK, SlotOf
  <2>5. \A e, f \in locked' : e.name = f.name => e = f
    BY <2>2, <2>3 DEF EntriesAreStored
  <2>6. \A e \in locked' : \A i \in 1..Len(specs') : specs'[i].name # e.name
    <3> SUFFICES ASSUME NEW e \in locked', NEW i \in 1..Len(specs') PROVE specs'[i].name # e.name
      OBVIOUS
    <3>1. specs'[i] = specs[i + 1] /\ i + 1 \in 1..Len(specs) /\ i + 1 # 1
      BY <2>1
    <3>2. CASE e \in locked
      BY <3>1, <3>2 DEF EntriesAreStored
    <3>3. CASE e = built
      BY <2>1, <3>1, <3>3 DEF EntriesAreStored
    <3> QED
      BY <2>2, <3>2, <3>3
  <2>7. \A i, j \in 1..Len(specs') : specs'[i].name = specs'[j].name => i = j
    <3> SUFFICES ASSUME NEW i \in 1..Len(specs'), NEW j \in 1..Len(specs'),
                        specs'[i].name = specs'[j].name
                 PROVE  i = j
      OBVIOUS
    <3>1. /\ specs'[i] = specs[i + 1] /\ i + 1 \in 1..Len(specs)
          /\ specs'[j] = specs[j + 1] /\ j + 1 \in 1..Len(specs)
      BY <2>1
    <3>2. i + 1 = j + 1
      BY <3>1 DEF EntriesAreStored
    <3> QED
      BY <2>1, <3>2
  <2> QED
    BY <2>2, <2>4, <2>5, <2>6, <2>7 DEF EntriesAreStored
<1>5. CASE OpensLock
  BY <1>5 DEF OpensLock, EntriesAreStored
<1>6. CASE FetchFails \/ SlotIsBusy \/ WritesLock \/ InitStops
  BY <1>6, NothingCollected DEF FetchFails, SlotIsBusy, WritesLock, InitStops, InitEnds, EntriesAreStored
<1>7. CASE UNCHANGED <<slots, lock, initVars>>
  BY <1>7 DEF EntriesAreStored, initVars
<1> QED
  BY <1>1, <1>2, <1>3, <1>4, <1>5, <1>6, <1>7, StoreFrames DEF StoreNext, InitProcess, storeVars

\* A slot that is written holds the version of each of its entries, or one
\* that collides with it.
LEMMA LockIsBackedStep ==
  StoreTypeOK /\ EntriesAreStored /\ LockIsBacked /\ [StoreNext]_storeVars => LockIsBacked'
<1> SUFFICES ASSUME StoreTypeOK, EntriesAreStored, LockIsBacked, [StoreNext]_storeVars
             PROVE  LockIsBacked'
  OBVIOUS
<1>1. CASE OpensSlot
  BY <1>1, SlotTypes DEF OpensSlot, LockIsBacked, StoreTypeOK
<1>2. CASE WritesSlot
  <2> SUFFICES ASSUME NEW e \in lock.entries
               PROVE  LET held == slots'[SlotOf(e)]
                      IN held = e.hash \/ held = "torn" \/ Collide(held, e.hash)
    BY <1>2 DEF WritesSlot, LockIsBacked
  <2>1. e \in Entry /\ built \in Entry /\ slots' = [slots EXCEPT ![SlotOf(built)] = built.hash]
    BY <1>2 DEF WritesSlot, StoreTypeOK
  <2>2. CASE SlotOf(e) = SlotOf(built)
    BY <2>1, <2>2, SlotTypes DEF StoreTypeOK, Collide
  <2>3. CASE SlotOf(e) # SlotOf(built)
    BY <2>1, <2>3, SlotTypes DEF StoreTypeOK, LockIsBacked
  <2> QED
    BY <2>2, <2>3
<1>3. CASE OpensLock
  BY <1>3 DEF OpensLock, LockIsBacked, NoLock
<1>4. CASE WritesLock
  BY <1>4 DEF WritesLock, LockIsBacked, WholeLock, EntriesAreStored
<1>5. CASE UNCHANGED <<slots, lock>>
  BY <1>5 DEF LockIsBacked
<1> QED
  BY <1>1, <1>2, <1>3, <1>4, <1>5, StoreFrames DEF StoreNext, InitProcess, storeVars

LEMMA InitHealsStep ==
  StoreTypeOK /\ EntriesAreStored /\ InitHeals /\ [StoreNext]_storeVars => InitHeals'
<1> SUFFICES ASSUME StoreTypeOK, EntriesAreStored, InitHeals, [StoreNext]_storeVars PROVE InitHeals'
  OBVIOUS
<1>1. CASE InitStarts \/ Fetches \/ OpensSlot \/ WritesSlot \/ OpensLock
  BY <1>1 DEF InitStarts, Fetches, OpensSlot, WritesSlot, OpensLock, InitHeals
<1>2. CASE FetchFails \/ SlotIsBusy \/ InitStops
  BY <1>2 DEF FetchFails, SlotIsBusy, InitStops, InitEnds, InitHeals
<1>3. CASE WritesLock
  BY <1>3 DEF WritesLock, WholeLock, EntriesAreStored, InitHeals
<1>4. CASE UNCHANGED <<slots, lock, initVars>>
  BY <1>4 DEF InitHeals, initVars
<1> QED
  BY <1>1, <1>2, <1>3, <1>4, StoreFrames DEF StoreNext, InitProcess, storeVars

\* What the slot of a verified entry holds by the time it is executed has its
\* short hash, and so is the locked version or one that collides with it.
LEMMA LaunchStep ==
  StoreTypeOK /\ SlotsFit /\ LaunchedIsLocked /\ [StoreNext]_storeVars => LaunchedIsLocked'
<1> SUFFICES ASSUME StoreTypeOK, SlotsFit, LaunchedIsLocked, [StoreNext]_storeVars
             PROVE  LaunchedIsLocked'
  OBVIOUS
<1>1. CASE Dials
  <2>1. verified \in Entry /\ slots[SlotOf(verified)] \in Version
    BY <1>1 DEF Dials, StoreTypeOK
  <2>2. Short[slots[SlotOf(verified)]] = Short[verified.hash]
    BY <2>1, SlotTypes DEF SlotsFit
  <2> DEFINE new == [entry |-> verified, runs |-> slots[SlotOf(verified)]]
  <2>3. new.runs = new.entry.hash \/ Collide(new.runs, new.entry.hash)
    BY <2>2 DEF Collide
  <2>4. clients' = clients \cup {new}
    BY <1>1 DEF Dials
  <2> QED
    BY <2>3, <2>4 DEF LaunchedIsLocked
<1>2. CASE clients' \subseteq clients
  BY <1>2 DEF LaunchedIsLocked
<1>3. [StoreNext]_storeVars /\ ~Dials => clients' \subseteq clients
  BY StoreFrames DEF StoreNext, Load, ReadsLock, DialFails, Loaded, Verifies, VerifyFails, LoadFails,
     RunOver, storeVars, loadVars
<1> QED
  BY <1>1, <1>2, <1>3

\* A plugin is launched or wanted as long as it is listed, step by step.
LEMMA AllOrNothingStep ==
  LoadIsAllOrNothing /\ [StoreNext]_storeVars => LoadIsAllOrNothing'
<1> SUFFICES ASSUME LoadIsAllOrNothing, [StoreNext]_storeVars PROVE LoadIsAllOrNothing'
  OBVIOUS
<1> USE DEF LoadIsAllOrNothing, Launched
<1>1. CASE ReadsLock
  BY <1>1 DEF ReadsLock
<1>2. CASE \E e \in wants : Verifies(e) \/ VerifyFails(e)
  BY <1>2 DEF Verifies, VerifyFails, LoadFails
<1>3. CASE Dials
  <2>1. loadAt = "dial" /\ verified \in wants /\ Launched \cup wants = listed
    BY <1>3 DEF Dials
  <2> DEFINE new == [entry |-> verified, runs |-> slots[SlotOf(verified)]]
  <2>2. clients' = clients \cup {new} /\ wants' = wants \ {verified} /\ loadAt' = "load"
        /\ listed' = listed
    BY <1>3 DEF Dials
  <2>3. new.entry = verified
    OBVIOUS
  <2>4. {c.entry : c \in clients'} = {c.entry : c \in clients} \cup {verified}
    <3> HIDE DEF new
    <3> QED
      BY <2>2, <2>3
  <2> QED
    BY <2>1, <2>2, <2>4
<1>4. CASE DialFails \/ Loaded \/ RunOver
  BY <1>4 DEF DialFails, LoadFails, Loaded, RunOver
<1>5. CASE UNCHANGED loadVars
  BY <1>5 DEF loadVars
<1> QED
  BY <1>1, <1>2, <1>3, <1>4, <1>5, StoreFrames DEF StoreNext, Load, storeVars

-----------------------------------------------------------------------------
(* The theorems.                                                           *)

LEMMA StoreInvStep == StoreInv /\ [StoreNext]_storeVars => StoreInv'
BY StoreTypeStep, SlotsFitStep, EntriesStep, LockIsBackedStep, InitHealsStep, LaunchStep,
   AllOrNothingStep DEF StoreInv

\* The whole invariant: whatever init was doing when it was killed, the lock
\* file names what the store holds but for a torn or a colliding slot, an init
\* that comes to its end leaves a lock that loads, and a load that fails
\* leaves no plugin running (Build, WriteLock and Load of package plugins).
THEOREM StoreInvHolds == StoreSpec => []StoreInv
<1>1. StoreInit => StoreInv
  BY StoreInitInv
<1>2. StoreInv /\ [StoreNext]_storeVars => StoreInv'
  BY StoreInvStep
<1> QED
  BY <1>1, <1>2, PTL DEF StoreSpec

\* A run launches what the lock file it read names, although Load hashes the
\* file first and executes it by name afterwards: for as long as no two
\* versions begin alike, what runs is the version that was locked.
THEOREM LaunchIsExact ==
  ASSUME \A v, w \in Version : Short[v] = Short[w] => v = w
  PROVE  StoreSpec => [](\A c \in clients : c.runs = c.entry.hash)
<1>1. StoreInv => \A c \in clients : c.runs = c.entry.hash
  BY DEF StoreInv, StoreTypeOK, LaunchedIsLocked, Collide, Entry
<1> QED
  BY <1>1, StoreInvHolds, PTL

-----------------------------------------------------------------------------
(* The command.                                                            *)

Returned == {p \in Pipe : pipe[p] = "returned"}

\* The parts that are inductive together with the types.
CommandParts == CommandTypeOK /\ CommandProgress

-----------------------------------------------------------------------------
(* A command is one run on the plugin store.                               *)

LEMMA CommandStepsTheStore == [CommandNext]_commandVars => [StoreNext]_storeVars
BY DEF CommandNext, CommandDue, LoadStep, LoadsPlugins, ParseFails, Parses, StartsBuild, Binds,
   BindFails, Builds, RunsAll, Collects, CleansUp, Interrupt, PipelineReturns, ClosesInstance,
   StoreNext, commandVars

\* What is proved of the store and of Load holds in every command: whatever
\* main does, it drives Load and Close only in the order that Store expects.
THEOREM CommandKeepsStoreInv == CommandSpec => []StoreInv
<1>1. StoreInv /\ [CommandNext]_commandVars => StoreInv'
  BY CommandStepsTheStore, StoreInvStep
<1> QED
  BY <1>1, PTL DEF CommandSpec

-----------------------------------------------------------------------------
LEMMA CommandInitParts == CommandInit /\ StoreInv /\ loadAt = "idle" => CommandParts
<1> SUFFICES ASSUME CommandInit, loadAt = "idle" PROVE CommandParts
  OBVIOUS
<1> USE CommandAssumption DEF CommandInit
<1>1. CommandTypeOK
  <2>1. results \in Seq([pipe : Pipe, ok : BOOLEAN]) /\ wrong \in Seq(Pipe) /\ collected \in 0..Len(results)
    OBVIOUS
  <2>2. pipe \in [Pipe -> {"unbuilt", "running", "returned"}]
    OBVIOUS
  <2> QED
    BY <2>1, <2>2 DEF CommandTypeOK, NoPipe
<1>2. LoadComesFirst /\ Phases
  BY DEF LoadComesFirst, Phases
<1>3. OpenIsBound
  BY DEF OpenIsBound, Stream, NoPipe
<1>4. FirstErrorIsKept
  <2>1. {p \in Pipe : pipe[p] = "returned"} = {}
    OBVIOUS
  <2>2. Len(results) = 0 /\ collected = 0 /\ failed = NoPipe /\ wrong = <<>> /\ outcome = "none"
    OBVIOUS
  <2> HIDE DEF CommandInit
  <2> QED
    BY <2>1, <2>2, FS_EmptySet DEF FirstErrorIsKept
<1> QED
  BY <1>1, <1>2, <1>3, <1>4 DEF CommandParts, CommandProgress

\* What the actions leave alone.
LEMMA CommandFrames ==
  /\ LoadStep => UNCHANGED commandState
  /\ LoadsPlugins => UNCHANGED <<storeVars, buildVars, open, runVars, interrupted>>
  /\ ParseFails => UNCHANGED <<storeVars, buildVars, open, runVars, interrupted>>
  /\ CleansUp => UNCHANGED <<buildVars, open, runVars, outcome, interrupted>>
BY DEF LoadStep, LoadsPlugins, ParseFails, CleansUp

-----------------------------------------------------------------------------
LEMMA CommandTypeStep == CommandParts /\ [CommandNext]_commandVars => CommandTypeOK'
<1> SUFFICES ASSUME CommandParts, [CommandNext]_commandVars PROVE CommandTypeOK'
  OBVIOUS
<1> CommandTypeOK
  BY DEF CommandParts
<1> USE DEF CommandTypeOK
<1>1. CASE LoadStep
  BY <1>1 DEF LoadStep, commandState, buildVars, runVars
<1>2. CASE LoadsPlugins
  BY <1>2 DEF LoadsPlugins, Answer, buildVars, runVars
<1>3. CASE ParseFails
  BY <1>3 DEF ParseFails, Answer, buildVars, runVars
<1>4. CASE Parses
  BY <1>4 DEF Parses, runVars, CommandParts, CommandProgress, OpenIsBound
<1>5. CASE StartsBuild
  BY <1>5 DEF StartsBuild, Answer, runVars
<1>6. CASE Binds
  BY <1>6 DEF Binds, runVars
<1>7. CASE BindFails
  BY <1>7 DEF BindFails, Answer, buildVars, runVars
<1>8. CASE Builds
  BY <1>8 DEF Builds, runVars
<1>9. CASE RunsAll
  BY <1>9 DEF RunsAll, buildVars
<1>10. ASSUME NEW p \in Pipe, PipelineReturns(p) PROVE CommandTypeOK'
  <2>1. results' \in Seq([pipe : Pipe, ok : BOOLEAN]) /\ Len(results) <= Len(results')
    <3>1. PICK r \in [pipe : Pipe, ok : BOOLEAN] : results' = Append(results, r)
      BY <1>10 DEF PipelineReturns
    <3> QED
      BY <3>1
  <2>2. wrong' \in Seq(Pipe)
    <3>1. wrong' = wrong \/ wrong' = Append(wrong, p)
      BY <1>10 DEF PipelineReturns
    <3> QED
      BY <3>1
  <2>3. collected' \in 0..Len(results')
    BY <1>10, <2>1 DEF PipelineReturns
  <2> QED
    BY <1>10, <2>1, <2>2, <2>3 DEF PipelineReturns, buildVars
<1>11. ASSUME NEW p \in Pipe, ClosesInstance(p) PROVE CommandTypeOK'
  BY <1>11 DEF ClosesInstance, buildVars, runVars
<1>12. CASE Collects
  <2>1. results[collected + 1] \in [pipe : Pipe, ok : BOOLEAN] /\ collected' \in 0..Len(results')
    <3> DEFINE R == [pipe : Pipe, ok : BOOLEAN]
    <3>1. results \in Seq(R) /\ collected + 1 \in 1..Len(results) /\ collected' = collected + 1
          /\ results' = results
      BY <1>12 DEF Collects
    <3> HIDE DEF R
    <3>2. results[collected + 1] \in R /\ collected' \in 0..Len(results')
      BY <3>1
    <3> QED
      BY <3>2 DEF R
  <2> QED
    BY <1>12, <2>1 DEF Collects, Answer, buildVars
<1>13. CASE Interrupt
  BY <1>13 DEF Interrupt, buildVars, runVars
<1>14. CASE CleansUp
  BY <1>14 DEF CleansUp, buildVars, runVars
<1>15. CASE UNCHANGED commandVars
  BY <1>15 DEF commandVars, commandState, buildVars, runVars
<1> QED
  BY <1>1, <1>2, <1>3, <1>4, <1>5, <1>6, <1>7, <1>8, <1>9, <1>10, <1>11, <1>12, <1>13, <1>14, <1>15
  DEF CommandNext, CommandDue

LEMMA LoadComesFirstStep ==
  CommandParts /\ [CommandNext]_commandVars => LoadComesFirst'
<1> SUFFICES ASSUME CommandParts, [CommandNext]_commandVars PROVE LoadComesFirst'
  OBVIOUS
<1> LoadComesFirst /\ CommandTypeOK
  BY DEF CommandParts, CommandProgress
<1> USE DEF LoadComesFirst
<1>1. CASE LoadStep
  BY <1>1 DEF LoadStep, commandState
<1>2. CASE CleansUp
  BY <1>2 DEF CleansUp, RunOver
<1>3. CASE LoadsPlugins \/ ParseFails \/ Parses \/ StartsBuild \/ Binds \/ BindFails \/ Builds \/ RunsAll
  BY <1>3 DEF LoadsPlugins, ParseFails, Parses, StartsBuild, Binds, BindFails, Builds, RunsAll,
     Answer, storeVars, loadVars
<1>4. CASE Collects \/ Interrupt \/ \E p \in Pipe : PipelineReturns(p) \/ ClosesInstance(p)
  BY <1>4 DEF Collects, Interrupt, PipelineReturns, ClosesInstance, Answer, storeVars, loadVars
<1>5. CASE UNCHANGED commandVars
  BY <1>5 DEF commandVars, commandState, storeVars, loadVars
<1> QED
  BY <1>1, <1>2, <1>3, <1>4, <1>5 DEF CommandNext, CommandDue

-----------------------------------------------------------------------------
\* As many results as pipelines that have returned, and no more of them than
\* were selected: with one result of each of these, all of them have returned.
LEMMA AllHaveReturned ==
  ASSUME CommandTypeOK, Phases, Len(results) = Cardinality(Returned),
         NEW n \in 0..Len(results), n = Cardinality(selected)
  PROVE  n = Len(results) /\ \A p \in selected : pipe[p] = "returned"
<1>1. IsFiniteSet(selected) /\ Returned \subseteq selected
  BY CommandAssumption, FS_Subset DEF CommandTypeOK, Phases, Returned
<1>2. IsFiniteSet(Returned) /\ Cardinality(Returned) <= Cardinality(selected)
  BY <1>1, FS_Subset
<1>3. Cardinality(Returned) \in Nat /\ Cardinality(selected) \in Nat
  BY <1>1, <1>2, FS_CardinalityType
<1>4. Cardinality(Returned) = Cardinality(selected)
  BY <1>2, <1>3
<1>5. Returned = selected
  BY <1>1, <1>4, FS_Subset
<1> QED
  BY <1>4, <1>5 DEF Returned

LEMMA PhasesStep == CommandParts /\ [CommandNext]_commandVars => Phases'
<1> SUFFICES ASSUME CommandParts, [CommandNext]_commandVars PROVE Phases'
  OBVIOUS
<1> Phases /\ CommandTypeOK /\ FirstErrorIsKept
  BY DEF CommandParts, CommandProgress
<1>1. CASE LoadStep \/ LoadsPlugins \/ ParseFails
  BY <1>1, CommandFrames DEF LoadStep, LoadsPlugins, ParseFails, Answer, Phases, CommandTypeOK,
     commandState, buildVars, runVars
<1>2. CASE Parses
  BY <1>2 DEF Parses, Phases, CommandTypeOK, runVars
<1>3. CASE StartsBuild
  BY <1>3 DEF StartsBuild, Answer, Phases, CommandTypeOK, runVars
<1>4. CASE Binds \/ BindFails
  BY <1>4 DEF Binds, BindFails, Answer, Phases, CommandTypeOK, buildVars, runVars
<1>5. CASE Builds
  BY <1>5 DEF Builds, Phases, CommandTypeOK, runVars
<1>6. CASE RunsAll
  BY <1>6 DEF RunsAll, Phases, CommandTypeOK, buildVars
<1>7. ASSUME NEW p \in Pipe, PipelineReturns(p) PROVE Phases'
  <2>1. /\ pipe[p] = "running" /\ pipe' = [pipe EXCEPT ![p] = "returned"]
        /\ UNCHANGED <<cmd, selected, unbuilt, building, outcome>>
    BY <1>7 DEF PipelineReturns, buildVars
  <2> QED
    BY <2>1 DEF Phases, CommandTypeOK
<1>8. ASSUME NEW p \in Pipe, ClosesInstance(p) PROVE Phases'
  BY <1>8 DEF ClosesInstance, Phases, buildVars, runVars
<1>9. CASE Collects
  <2>1. /\ cmd = "run" /\ collected + 1 \in 0..Len(results) /\ collected' = collected + 1
        /\ UNCHANGED <<pipe, selected, unbuilt, building>>
    BY <1>9 DEF Collects, CommandTypeOK, buildVars
  <2>2. CASE collected' = Cardinality(selected)
    <3>1. \A p \in selected : pipe[p] = "returned"
      BY <2>1, <2>2, AllHaveReturned DEF FirstErrorIsKept, Returned
    <3>2. cmd' = "cleanup"
      BY <1>9, <2>2 DEF Collects, Answer
    <3>3. \A p \in Pipe : pipe[p] # "running"
      BY <3>1 DEF Phases, CommandTypeOK
    <3> QED
      BY <2>1, <3>1, <3>2, <3>3 DEF Phases
  <2>3. CASE collected' # Cardinality(selected)
    BY <1>9, <2>1, <2>3 DEF Collects, Phases
  <2> QED
    BY <2>2, <2>3
<1>10. CASE Interrupt
  BY <1>10 DEF Interrupt, Phases, buildVars, runVars
<1>11. CASE CleansUp
  BY <1>11 DEF CleansUp, Phases, buildVars, runVars
<1>12. CASE UNCHANGED commandVars
  BY <1>12 DEF commandVars, commandState, buildVars, runVars, Phases
<1> QED
  BY <1>1, <1>2, <1>3, <1>4, <1>5, <1>6, <1>7, <1>8, <1>9, <1>10, <1>11, <1>12
  DEF CommandNext, CommandDue

-----------------------------------------------------------------------------
LEMMA OpenIsBoundStep == CommandParts /\ [CommandNext]_commandVars => OpenIsBound'
<1> SUFFICES ASSUME CommandParts, [CommandNext]_commandVars PROVE OpenIsBound'
  OBVIOUS
<1> OpenIsBound /\ CommandTypeOK /\ Phases
  BY DEF CommandParts, CommandProgress
<1>1. CASE Parses
  BY <1>1 DEF Parses, OpenIsBound, CommandTypeOK, Phases
<1>2. CASE StartsBuild
  <2>1. /\ building = NoPipe /\ building' \in unbuilt /\ toBind' \in [Stream -> 0..MaxBinds]
        /\ UNCHANGED <<open, unbuilt>> /\ open[building'] = 0 /\ cmd' \in {"build", "cleanup"}
    BY <1>2, CommandAssumption DEF StartsBuild, Answer, OpenIsBound, CommandTypeOK, NoPipe
  <2>2. MaxBinds \in Nat /\ toBind'["consumers"] \in 0..MaxBinds /\ toBind'["transformers"] \in 0..MaxBinds
    BY <2>1, CommandAssumption DEF Stream
  <2> QED
    BY <2>1, <2>2, CommandAssumption DEF OpenIsBound, CommandTypeOK, NoPipe
<1>3. CASE Binds
  <2>1. PICK s \in Stream : toBind[s] > 0 /\ toBind' = [toBind EXCEPT ![s] = @ - 1]
    BY <1>3 DEF Binds
  <2>2. /\ building \in unbuilt /\ building \in Pipe /\ open' = [open EXCEPT ![building] = @ + 1]
        /\ UNCHANGED <<unbuilt, building, cmd>> /\ cmd = "build"
    BY <1>3 DEF Binds, CommandTypeOK
  <2>3. /\ MaxBinds \in Nat /\ open[building] \in Nat
        /\ toBind["consumers"] \in 0..MaxBinds /\ toBind["transformers"] \in 0..MaxBinds
        /\ open[building] + toBind["consumers"] + toBind["transformers"] <= 2 * MaxBinds
    BY <2>2, CommandAssumption DEF OpenIsBound, Stream, NoPipe
  <2>4. toBind' \in [Stream -> 0..MaxBinds]
    BY <2>1, <2>3 DEF OpenIsBound, Stream
  <2>5. toBind'["consumers"] + toBind'["transformers"] = toBind["consumers"] + toBind["transformers"] - 1
    BY <2>1, <2>3 DEF OpenIsBound, Stream
  <2>6. open'[building] = open[building] + 1
    BY <2>2 DEF OpenIsBound
  <2>7. toBind'["consumers"] \in Nat /\ toBind'["transformers"] \in Nat
    BY <2>4, CommandAssumption DEF Stream
  <2>8. open'[building] + toBind'["consumers"] + toBind'["transformers"] <= 2 * MaxBinds
    BY <2>3, <2>5, <2>6, <2>7
  <2>9. open' \in [Pipe -> 0..(2 * MaxBinds)]
    BY <2>2, <2>3, <2>6, <2>7, <2>8 DEF OpenIsBound
  <2> QED
    BY <2>2, <2>4, <2>8, <2>9 DEF OpenIsBound
<1>4. CASE Builds
  BY <1>4 DEF Builds, OpenIsBound, runVars
<1>5. ASSUME NEW p \in Pipe, ClosesInstance(p) PROVE OpenIsBound'
  <2>1. /\ pipe[p] # "unbuilt" /\ open[p] \in 1..(2 * MaxBinds)
        /\ open' = [open EXCEPT ![p] = @ - 1] /\ UNCHANGED <<cmd, unbuilt, building, toBind>>
    BY <1>5, CommandAssumption DEF ClosesInstance, OpenIsBound, buildVars
  <2>2. unbuilt = {} /\ building = NoPipe /\ cmd \notin {"load", "parse"}
    BY <2>1 DEF Phases
  <2> QED
    BY <2>1, <2>2, CommandAssumption DEF OpenIsBound
<1>6. CASE UNCHANGED <<open, buildVars>> /\ (cmd' = cmd \/ cmd' \notin {"load", "parse"} \/ cmd = "load")
  BY <1>6 DEF OpenIsBound, buildVars
<1> QED
  BY <1>1, <1>2, <1>3, <1>4, <1>5, <1>6 DEF CommandNext, CommandDue, LoadStep, LoadsPlugins, ParseFails,
     BindFails, RunsAll, Collects, CleansUp, Interrupt, PipelineReturns, Answer, commandVars, commandState

-----------------------------------------------------------------------------
(* The first error.                                                        *)

\* A pipeline returns: its result is the last one, and the first error is the
\* same as before, or this one if there was none.
LEMMA ReturnStep ==
  ASSUME CommandParts, NEW p \in Pipe, PipelineReturns(p)
  PROVE  FirstErrorIsKept'
<1> CommandTypeOK /\ Phases /\ FirstErrorIsKept
  BY DEF CommandParts, CommandProgress
<1>1. /\ pipe[p] = "running" /\ pipe' = [pipe EXCEPT ![p] = "returned"]
      /\ UNCHANGED <<collected, failed, outcome>>
  BY DEF PipelineReturns
<1>2. PICK r \in [pipe : Pipe, ok : BOOLEAN] :
        /\ results' = Append(results, r) /\ r.pipe = p
        /\ wrong' = IF r.ok THEN wrong ELSE Append(wrong, p)
  <2>1. [pipe |-> p, ok |-> TRUE] \in [pipe : Pipe, ok : BOOLEAN]
        /\ [pipe |-> p, ok |-> FALSE] \in [pipe : Pipe, ok : BOOLEAN]
    OBVIOUS
  <2> QED
    BY <2>1 DEF PipelineReturns
<1> DEFINE R == [pipe : Pipe, ok : BOOLEAN]
<1> PICK n \in Nat : n = Len(results)
  BY DEF CommandTypeOK
<1>3. /\ results \in Seq(R) /\ wrong \in Seq(Pipe) /\ n \in Nat /\ collected \in 0..n
  BY DEF CommandTypeOK
<1>4. /\ Len(results') = n + 1 /\ results'[n + 1] = r
      /\ \A i \in 1..n : results'[i] = results[i]
  <2> HIDE DEF R
  <2> QED
    BY <1>2, <1>3 DEF R
<1> HIDE DEF R
<1>5. Len(results') = Cardinality({q \in Pipe : pipe'[q] = "returned"})
  <2>1. {q \in Pipe : pipe'[q] = "returned"} = Returned \cup {p} /\ p \notin Returned
    BY <1>1 DEF Returned, CommandTypeOK
  <2>2. IsFiniteSet(Returned)
    BY CommandAssumption, FS_Subset DEF Returned
  <2>3. Cardinality(Returned \cup {p}) = Cardinality(Returned) + 1
    BY <2>1, <2>2, FS_AddElement
  <2> QED
    BY <1>4, <2>1, <2>3 DEF FirstErrorIsKept, Returned
<1>6. \A i \in 1..n : IsFirstError(i) => IsFirstError(i)'
  BY <1>3, <1>4 DEF IsFirstError
<1>7. /\ failed' = NoPipe => \A i \in 1..collected' : results'[i].ok
      /\ failed' # NoPipe => \E i \in 1..collected' : IsFirstError(i)' /\ failed' = results'[i].pipe
  <2>1. \A i \in 1..collected : i \in 1..n
    BY <1>3
  <2> QED
    BY <1>1, <1>4, <1>6, <2>1 DEF FirstErrorIsKept
<1>8. /\ wrong' = <<>> => \A i \in 1..(n + 1) : results'[i].ok
      /\ wrong' # <<>> => \E i \in 1..(n + 1) : IsFirstError(i)' /\ Head(wrong') = results'[i].pipe
  <2>1. \A i \in 1..(n + 1) : i \in 1..n \/ i = n + 1
    BY <1>3
  <2>2. CASE wrong # <<>>
    <3>1. wrong' # <<>> /\ Head(wrong') = Head(wrong)
      BY <1>2, <1>3, <2>2
    <3>2. PICK i \in 1..n : IsFirstError(i) /\ Head(wrong) = results[i].pipe
      BY <2>2 DEF FirstErrorIsKept
    <3> QED
      BY <1>3, <1>4, <1>6, <3>1, <3>2
  <2>3. CASE wrong = <<>> /\ r.ok
    BY <1>2, <1>4, <2>1, <2>3 DEF FirstErrorIsKept
  <2>4. CASE wrong = <<>> /\ ~r.ok
    <3>1. wrong' # <<>> /\ Head(wrong') = p
      BY <1>2, <2>4
    <3>2. \A i \in 1..n : results'[i].ok
      BY <1>4, <2>4 DEF FirstErrorIsKept
    <3>3. IsFirstError(n + 1)'
      BY <1>3, <1>4, <2>4, <3>2 DEF IsFirstError
    <3>4. n + 1 \in 1..(n + 1) /\ Head(wrong') = results'[n + 1].pipe
      BY <1>2, <1>4, <3>1
    <3> QED
      BY <3>1, <3>3, <3>4 DEF IsFirstError
  <2> QED
    BY <1>2, <2>2, <2>3, <2>4
<1>9. outcome = "none" \/ outcome \notin {"nil", "pipeline"}
  BY <1>1 DEF Phases, CommandTypeOK
<1> QED
  BY <1>1, <1>4, <1>5, <1>7, <1>8, <1>9 DEF FirstErrorIsKept

\* run receives one more result, and keeps its error if it is the first.
LEMMA CollectStep ==
  ASSUME CommandParts, Collects
  PROVE  FirstErrorIsKept'
<1> CommandTypeOK /\ Phases /\ FirstErrorIsKept
  BY DEF CommandParts, CommandProgress
<1> DEFINE r == results[collected + 1]
<1>1. /\ cmd = "run" /\ collected \in Nat /\ Len(results) \in Nat /\ collected + 1 <= Len(results)
      /\ collected' = collected + 1 /\ UNCHANGED <<results, pipe, wrong, selected>>
      /\ failed' = IF failed = NoPipe /\ ~r.ok THEN r.pipe ELSE failed
  BY DEF Collects, CommandTypeOK, buildVars
<1>2. \A i \in 1..collected' : i \in 1..collected \/ i = collected + 1
  BY <1>1
<1>3. /\ failed' = NoPipe => \A i \in 1..collected' : results[i].ok
      /\ failed' # NoPipe => \E i \in 1..collected' : IsFirstError(i) /\ failed' = results[i].pipe
  <2>1. CASE failed # NoPipe
    BY <1>1, <2>1 DEF FirstErrorIsKept
  <2>2. CASE failed = NoPipe /\ r.ok
    BY <1>1, <1>2, <2>2 DEF FirstErrorIsKept
  <2>3. CASE failed = NoPipe /\ ~r.ok
    <3>1. results[collected + 1].pipe \in Pipe
      <4> DEFINE R == [pipe : Pipe, ok : BOOLEAN]
      <4>1. results \in Seq(R) /\ collected + 1 \in 1..Len(results)
        BY <1>1 DEF CommandTypeOK
      <4> HIDE DEF R
      <4>2. results[collected + 1] \in R
        BY <4>1
      <4> QED
        BY <4>2 DEF R
    <3>2. failed' # NoPipe /\ failed' = results[collected + 1].pipe
      BY <1>1, <2>3, <3>1, CommandAssumption DEF NoPipe
    <3>3. IsFirstError(collected + 1)
      BY <1>1, <2>3 DEF IsFirstError, FirstErrorIsKept
    <3> QED
      BY <1>1, <3>2, <3>3
  <2> QED
    BY <2>1, <2>2, <2>3
<1>4. \A i : IsFirstError(i)' <=> IsFirstError(i)
  BY <1>1 DEF IsFirstError
<1>5. /\ outcome' = "nil" => failed' = NoPipe /\ collected' = Len(results)
      /\ outcome' = "pipeline" => failed' # NoPipe
  <2>1. CASE collected' = Cardinality(selected)
    <3>1. collected' = Len(results)
      BY <1>1, <2>1, AllHaveReturned DEF FirstErrorIsKept, Returned
    <3> QED
      BY <2>1, <3>1 DEF Collects, Answer
  <2>2. CASE collected' # Cardinality(selected)
    BY <1>1, <2>2 DEF Collects, Phases
  <2> QED
    BY <2>1, <2>2
<1> QED
  BY <1>1, <1>3, <1>4, <1>5 DEF FirstErrorIsKept

LEMMA FirstErrorStep == CommandParts /\ [CommandNext]_commandVars => FirstErrorIsKept'
<1> SUFFICES ASSUME CommandParts, [CommandNext]_commandVars PROVE FirstErrorIsKept'
  OBVIOUS
<1> FirstErrorIsKept /\ CommandTypeOK /\ Phases
  BY DEF CommandParts, CommandProgress
<1>1. CASE Collects \/ \E p \in Pipe : PipelineReturns(p)
  BY <1>1, ReturnStep, CollectStep
<1>2. CASE RunsAll
  <2>1. UNCHANGED <<results, collected, failed, wrong, outcome>>
    BY <1>2 DEF RunsAll
  <2>2. \A p \in Pipe : pipe'[p] = "returned" <=> pipe[p] = "returned"
    BY <1>2 DEF RunsAll, Phases, CommandTypeOK
  <2>3. {p \in Pipe : pipe'[p] = "returned"} = {p \in Pipe : pipe[p] = "returned"}
    BY <2>2
  <2>4. \A i : IsFirstError(i)' <=> IsFirstError(i)
    BY <2>1 DEF IsFirstError
  <2> QED
    BY <2>1, <2>3, <2>4 DEF FirstErrorIsKept
<1>3. CASE UNCHANGED runVars /\ (outcome' = outcome \/ outcome' \notin {"nil", "pipeline"})
  BY <1>3 DEF FirstErrorIsKept, IsFirstError, runVars
<1>4. [CommandNext]_commandVars /\ ~RunsAll /\ ~Collects /\ ~(\E p \in Pipe : PipelineReturns(p))
        => UNCHANGED runVars /\ (outcome' = outcome \/ outcome' \notin {"nil", "pipeline"})
  BY DEF CommandNext, CommandDue, LoadStep, LoadsPlugins, ParseFails, Parses, StartsBuild, Binds,
     BindFails, Builds, CleansUp, Interrupt, ClosesInstance, Answer, commandVars, commandState
<1> QED
  BY <1>1, <1>2, <1>3, <1>4

-----------------------------------------------------------------------------
(* What follows, and the theorems.                                         *)

LEMMA PartsAreEnough ==
  CommandParts /\ StoreInv => PluginsOutlivePipelines /\ AllOrNoneRun /\ AnswerIsFirstError
<1> SUFFICES ASSUME CommandParts, StoreInv
             PROVE  PluginsOutlivePipelines /\ AllOrNoneRun /\ AnswerIsFirstError
  OBVIOUS
<1> CommandTypeOK /\ LoadComesFirst /\ Phases /\ FirstErrorIsKept /\ LoadIsAllOrNothing
  BY DEF CommandParts, CommandProgress, StoreInv
<1>1. PluginsOutlivePipelines
  <2>1. ASSUME NEW p \in Pipe, pipe[p] = "running" PROVE cmd = "run"
    BY <2>1 DEF Phases, CommandTypeOK
  <2> QED
    BY <2>1 DEF PluginsOutlivePipelines, LoadComesFirst, LoadIsAllOrNothing
<1>2. AllOrNoneRun
  BY DEF AllOrNoneRun, Phases
<1>3. AnswerIsFirstError
  <2>1. collected \in 0..Len(results) /\ Len(results) \in Nat
    BY DEF CommandTypeOK
  <2>2. ASSUME outcome = "nil" PROVE wrong = <<>> /\ \A p \in selected : pipe[p] = "returned"
    BY <2>1, <2>2 DEF FirstErrorIsKept, IsFirstError, Phases
  <2>3. ASSUME outcome = "pipeline" PROVE wrong # <<>> /\ failed = Head(wrong)
    <3>1. PICK i \in 1..collected : IsFirstError(i) /\ failed = results[i].pipe
      BY <2>3 DEF FirstErrorIsKept
    <3>2. i \in 1..Len(results) /\ wrong # <<>>
      BY <2>1, <3>1 DEF FirstErrorIsKept, IsFirstError
    <3>3. PICK j \in 1..Len(results) : IsFirstError(j) /\ Head(wrong) = results[j].pipe
      BY <3>2 DEF FirstErrorIsKept
    <3>4. i = j
      <4>1. CASE i < j
        BY <3>1, <3>2, <3>3, <4>1 DEF IsFirstError
      <4>2. CASE j < i
        BY <3>1, <3>2, <3>3, <4>2 DEF IsFirstError
      <4> QED
        BY <3>2, <3>3, <4>1, <4>2
    <3> QED
      BY <3>1, <3>2, <3>3, <3>4
  <2> QED
    BY <2>2, <2>3 DEF AnswerIsFirstError
<1> QED
  BY <1>1, <1>2, <1>3

\* run and main (main.go): no pipeline starts unless every selected one was
\* built, the plugins of a run are all loaded before it starts and killed only
\* after the last pipeline returned, and the command answers nil only if every
\* pipeline did, else the first error that any of them returned.
THEOREM CommandInvHolds == CommandSpec => []CommandInv
<1>1. CommandInit /\ StoreInv /\ loadAt = "idle" => CommandParts
  BY CommandInitParts
<1>2. CommandParts /\ [CommandNext]_commandVars => CommandParts'
  BY CommandTypeStep, LoadComesFirstStep, PhasesStep, OpenIsBoundStep, FirstErrorStep
  DEF CommandParts, CommandProgress
<1>3. CommandParts /\ StoreInv => CommandInv
  BY PartsAreEnough DEF CommandInv, CommandParts
<1>4. CommandSpec => []StoreInv
  BY CommandKeepsStoreInv
<1> QED
  BY <1>1, <1>2, <1>3, <1>4, PTL DEF CommandSpec

=============================================================================
