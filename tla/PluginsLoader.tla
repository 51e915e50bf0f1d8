----------------------------- MODULE PluginsLoader -----------------------------
(***************************************************************************)
(* The hot-plug loader: PluginsLoader.cpp and PluginEntry.                 *)
(*                                                                         *)
(* Somebody outside the program writes and deletes plugin files.  The main *)
(* thread loads the directory once, starts a watcher that scans it again   *)
(* and again, and in the end stops the watcher and unloads everything.     *)
(* Request threads take a snapshot of the list of plugins, call into the   *)
(* plugins without any lock, and let the snapshot go.                      *)
(*                                                                         *)
(* A file is named by its path.  Its content is a record: the stamp is the *)
(* fingerprint (mtime and size; two writes never have the same one), gives *)
(* is what loading it ends in: an instance and its GetType(), a failure,   *)
(* or an exception out of the plugin's own code.  A copy of a file has a   *)
(* name of its own, and so has the entry that runs it: two instances of    *)
(* one content are two entries.  The order of the list is left out.        *)
(***************************************************************************)
EXTENDS Naturals, FiniteSets

CONSTANTS
    Path,       \* the paths at which plugin files may be
    Type,       \* the plugin types
    Request,    \* the threads that serve requests
    MaxEdits,   \* bound: how often somebody writes or deletes a file
    MaxCopies,  \* bound: copies of one content in .staging at a time
    MaxBroken   \* bound: copies that fail half way

ASSUME PathAssumption == Path # {} /\ IsFiniteSet(Path)
ASSUME TypeAssumption == Type \cap {"failure", "exception"} = {}
ASSUME BoundsAssumption == MaxEdits \in Nat /\ MaxCopies \in Nat /\ MaxBroken \in Nat

VARIABLES
    disk,             \* the plugins directory: the content at every path
    edits,            \* how many times it was edited
    staging,          \* the copies in .staging
    broken,           \* history: the copies that failed half way
    m_plugins,        \* the list the requests see
    m_failedPlugins,  \* the fingerprint recorded for a path that failed to load
    tried,            \* history: the stamp the call had read that made the record
    m_watching,       \* the flag of the watcher
    phase,            \* where the loading thread is, or the watcher
    currentFiles,     \* what the scan found in the directory
    toUpdate,         \* paths to load again
    toAdd,            \* paths to load for the first time
    load,             \* the CreatePluginInstance that is under way
    updatedInstances, \* instances loaded for toUpdate
    newInstances,     \* instances loaded for toAdd
    oldEntries,       \* entries taken off the list and not yet let go
    marked,           \* the types to announce
    alive,            \* the entries that are constructed and not destroyed
    snapshot,         \* the entries every request holds
    main,             \* the main thread: "load", "run", "join" or "unloaded"
    told              \* for every type, the entries at its last announcement

files == <<disk, edits>>
copies == <<staging, broken>>
failures == <<m_failedPlugins, tried>>
scan == <<currentFiles, toUpdate, toAdd, oldEntries, marked>>
instances == <<updatedInstances, newInstances>>
vars == <<disk, edits, staging, broken, m_plugins, m_failedPlugins, tried,
          m_watching, phase, currentFiles, toUpdate, toAdd, load,
          updatedInstances, newInstances, oldEntries, marked, alive, snapshot,
          main, told>>

-----------------------------------------------------------------------------

\* No fingerprint, and the content of a path where no file is.
None == 0
Absent == [stamp |-> None]
Content == [stamp : 1..MaxEdits, gives : Type \cup {"failure", "exception"}]
Exists(p) == disk[p] # Absent

\* A copy: of which path and stamp, and which of the copies of that content (the
\* clock in its name never reads the same twice).
Copy == Path \X (1..MaxEdits) \X (1..MaxCopies)

\* A PluginEntry: lastModified and fileSize are the stamp, runs is the content
\* of its staging copy, the one dlopen loaded, and nth tells which copy that is.
Entry == [path : Path, stamp : 1..MaxEdits, runs : {c \in Content : c.gives \in Type},
          nth : 1..MaxCopies]
OfType(entries, t) == {e \in entries : e.runs.gives = t}
TypesOf(entries) == {e.runs.gives : e \in entries}
CopiesOf(entries) == {<<e.path, e.runs.stamp, e.nth>> : e \in entries}

\* CreatePluginInstance: no call, or a call and the step it is about to take.
Idle == [step |-> "idle"]
Call(p, step, pre, copy, nth) ==
    [path |-> p, step |-> step, pre |-> pre, copy |-> copy, nth |-> nth]
Calls == [path : Path, step : {"fingerprint", "copy", "compare", "open", "record"},
          pre : 0..MaxEdits, copy : Content \cup {Absent}, nth : 0..MaxCopies]

\* The staging copy of the call under way, while it has no entry to own it.
CallCopy == <<load.path, load.copy.stamp, load.nth>>

\* The shared_ptrs that exist; an entry is destroyed with the last of them.
Held == m_plugins \cup updatedInstances \cup newInstances \cup oldEntries
            \cup UNION {snapshot[r] : r \in Request}

TypeOK ==
    /\ disk \in [Path -> Content \cup {Absent}]
    /\ edits \in 0..MaxEdits
    /\ staging \subseteq Copy
    /\ broken \subseteq Copy
    /\ m_plugins \subseteq Entry
    /\ m_failedPlugins \in [Path -> 0..MaxEdits]
    /\ tried \in [Path -> 0..MaxEdits]
    /\ m_watching \in BOOLEAN
    /\ phase \in {"loading", "asleep", "listed", "reloading", "swapped",
                  "cleaning", "announcing", "ended"}
    /\ currentFiles \in [Path -> 0..MaxEdits]
    /\ toUpdate \subseteq Path
    /\ toAdd \subseteq Path
    /\ load \in Calls \cup {Idle}
    /\ updatedInstances \subseteq Entry
    /\ newInstances \subseteq Entry
    /\ oldEntries \subseteq Entry
    /\ marked \subseteq Type
    /\ alive \subseteq Entry
    /\ snapshot \in [Request -> SUBSET Entry]
    /\ main \in {"load", "run", "join", "unloaded"}
    /\ told \in [Type -> SUBSET Entry]

\* LoadPlugins is about to go through a directory somebody has filled.
Init ==
    /\ disk \in [Path -> {Absent} \cup {c \in Content : c.stamp = 1}]
    /\ edits = IF MaxEdits = 0 THEN 0 ELSE 1
    /\ staging = {}
    /\ broken = {}
    /\ m_plugins = {}
    /\ m_failedPlugins = [p \in Path |-> None]
    /\ tried = [p \in Path |-> None]
    /\ m_watching = FALSE
    /\ phase = "loading"
    /\ currentFiles = [p \in Path |-> None]
    /\ toUpdate = {}
    /\ toAdd = {p \in Path : Exists(p)}
    /\ load = Idle
    /\ updatedInstances = {}
    /\ newInstances = {}
    /\ oldEntries = {}
    /\ marked = {}
    /\ alive = {}
    /\ snapshot = [r \in Request |-> {}]
    /\ main = "load"
    /\ told = [t \in Type |-> {}]

-----------------------------------------------------------------------------
\* The directory changes under the loader's feet.

Write(p) ==
    /\ edits < MaxEdits
    /\ edits' = edits + 1
    /\ \E c \in Content : c.stamp = edits' /\ disk' = [disk EXCEPT ![p] = c]
    /\ UNCHANGED <<copies, m_plugins, failures, m_watching, phase, scan,
                   load, instances, alive, snapshot, main, told>>

Delete(p) ==
    /\ edits < MaxEdits
    /\ Exists(p)
    /\ edits' = edits + 1
    /\ disk' = [disk EXCEPT ![p] = Absent]
    /\ UNCHANGED <<copies, m_plugins, failures, m_watching, phase, scan,
                   load, instances, alive, snapshot, main, told>>

-----------------------------------------------------------------------------
\* CreatePluginInstance, one path at a time; the directory may change between
\* any two of its steps.

Loading == phase \in {"loading", "reloading"}

\* What the last shared_ptr of an entry does when it goes: the destructor
\* unloads the library and removes the staging copy.
Destroy(dead) ==
    /\ alive' = alive \ dead
    /\ staging' = staging \ CopiesOf(dead)
    /\ UNCHANGED broken

\* The destructors that run when only the shared_ptrs to kept remain.
DestroyUnheld(kept) == Destroy(alive \ kept)

\* Mutant: the snapshots hold nothing.
StillListed == m_plugins

\* What is held when the locals of a scan are gone.
StillHeld == m_plugins \cup UNION {snapshot[r] : r \in Request}

\* Phase 2 takes the updates first, then the additions.
Begin(p) ==
    /\ Loading
    /\ load = Idle
    /\ p \in IF toUpdate # {} THEN toUpdate ELSE toAdd
    /\ load' = Call(p, "fingerprint", None, Absent, 0)
    /\ UNCHANGED <<files, copies, m_plugins, failures, m_watching, phase,
                   scan, instances, alive, snapshot, main, told>>

\* The path is dealt with: whatever became of the call, the loop goes on.
Finished ==
    /\ load' = Idle
    /\ IF toUpdate # {}
       THEN toUpdate' = toUpdate \ {load.path} /\ UNCHANGED toAdd
       ELSE toAdd' = toAdd \ {load.path} /\ UNCHANGED toUpdate
    /\ UNCHANGED <<currentFiles, oldEntries, marked>>

\* kLoadFailed: the caller goes on to record the failure.
Failed == load' = [load EXCEPT !.step = "record"]

Fingerprint ==
    /\ load.step = "fingerprint"
    /\ IF Exists(load.path)
       THEN load' = Call(load.path, "copy", disk[load.path].stamp, Absent, 0)
       ELSE Failed
    /\ UNCHANGED <<files, copies, m_plugins, failures, m_watching, phase,
                   scan, instances, alive, snapshot, main, told>>

\* Mutant: the error of the copy is dropped.
CopiedAnyway == TRUE

\* copy_file says whether there was a file to copy.
Copied == Exists(load.path)

\* The names that no file of .staging has.
FreshNames ==
    {nth \in 1..MaxCopies : <<load.path, disk[load.path].stamp, nth>> \notin staging}

\* A copy takes the content that is there.  One that fails half way (the disk is
\* full, the file cannot be read on) stays, for nobody removes it.
CopyToStaging ==
    /\ load.step = "copy"
    /\ \/ /\ Copied
          /\ FreshNames # {}
          /\ LET nth == CHOOSE n \in FreshNames : TRUE
             IN /\ load' = Call(load.path, "compare", load.pre, disk[load.path], nth)
                /\ staging' = staging \cup {<<load.path, disk[load.path].stamp, nth>>}
          /\ UNCHANGED broken
       \/ ~Copied /\ Failed /\ UNCHANGED copies
       \/ /\ Exists(load.path)
          /\ Cardinality(broken) < MaxBroken
          /\ FreshNames # {}
          /\ LET nth == CHOOSE n \in FreshNames : TRUE
             IN /\ staging' = staging \cup {<<load.path, disk[load.path].stamp, nth>>}
                /\ broken' = broken \cup {<<load.path, disk[load.path].stamp, nth>>}
          /\ Failed
    /\ UNCHANGED <<files, m_plugins, failures, m_watching, phase,
                   scan, instances, alive, snapshot, main, told>>

\* Mutant: only that the file is there is looked at.
SameSize == Exists(load.path)

\* The file did not change while it was copied.
SameAsBefore == disk[load.path].stamp = load.pre

\* Mutant: the copy stays.
KeepCopy == UNCHANGED copies

\* kSourceChangedDuringCopy: the copy is thrown away and nothing is recorded.
DiscardCopy == staging' = staging \ {CallCopy} /\ UNCHANGED broken

Compare ==
    /\ load.step = "compare"
    /\ IF SameAsBefore
       THEN /\ load' = [load EXCEPT !.step = "open"]
            /\ UNCHANGED <<copies, scan>>
       ELSE DiscardCopy /\ Finished
    /\ UNCHANGED <<files, m_plugins, failures, m_watching, phase,
                   instances, alive, snapshot, main, told>>

\* The entry of an instance that works: the path has no record of failure.
Loaded(entry) ==
    /\ load.copy.gives \in Type
    /\ alive' = alive \cup {entry}
    /\ IF toUpdate # {}
       THEN updatedInstances' = updatedInstances \cup {entry} /\ UNCHANGED newInstances
       ELSE newInstances' = newInstances \cup {entry} /\ UNCHANGED updatedInstances
    /\ m_failedPlugins' = [m_failedPlugins EXCEPT ![load.path] = None]
    /\ Finished
    /\ UNCHANGED <<copies, phase, m_watching, main>>

\* dlopen, dlsym, Initialize or the callback that sets notifications says no: the
\* new entry goes, and its staging copy with it.
LoadFails(entry) ==
    /\ load.copy.gives = "failure"
    /\ Failed
    /\ Destroy({entry})
    /\ UNCHANGED <<m_failedPlugins, instances, scan, phase, m_watching, main>>

\* LoadPlugins has returned, one way or the other, and StartWatching is called.
StartWatching ==
    /\ phase' = "asleep"
    /\ m_watching' = TRUE
    /\ main' = "run"

\* CreatePlugin or Initialize throws.  The handler is that of the whole of
\* LoadPlugins or of the whole scan: what was loaded so far is destroyed, the
\* other paths wait for the next scan, and no failure is recorded.
LoadThrows(entry) ==
    /\ load.copy.gives = "exception"
    /\ load' = Idle
    /\ toUpdate' = {}
    /\ toAdd' = {}
    /\ updatedInstances' = {}
    /\ newInstances' = {}
    /\ Destroy((alive \ StillHeld) \cup {entry})
    /\ IF phase = "loading" THEN StartWatching
       ELSE phase' = "asleep" /\ UNCHANGED <<m_watching, main>>
    /\ UNCHANGED <<m_failedPlugins, currentFiles, oldEntries, marked>>

Open ==
    /\ load.step = "open"
    /\ LET entry == [path |-> load.path, stamp |-> load.pre, runs |-> load.copy,
                     nth |-> load.nth]
       IN Loaded(entry) \/ LoadFails(entry) \/ LoadThrows(entry)
    /\ UNCHANGED <<files, m_plugins, tried, snapshot, told>>

\* The caller reads the fingerprint of the path anew; a path that is gone
\* makes last_write_time throw, and nothing is recorded.
RecordFailure ==
    /\ load.step = "record"
    /\ IF Exists(load.path)
       THEN /\ m_failedPlugins' = [m_failedPlugins EXCEPT ![load.path] = disk[load.path].stamp]
            /\ tried' = [tried EXCEPT ![load.path] = load.pre]
       ELSE UNCHANGED failures
    /\ Finished
    /\ UNCHANGED <<files, copies, m_plugins, m_watching, phase, instances,
                   alive, snapshot, main, told>>

LoadStep ==
    \/ \E p \in Path : Begin(p)
    \/ Fingerprint \/ CopyToStaging \/ Compare \/ Open \/ RecordFailure

AllLoaded == load = Idle /\ toUpdate = {} /\ toAdd = {}

-----------------------------------------------------------------------------
\* The main thread before it serves: LoadPlugins, then StartWatching.

Publish ==
    /\ phase = "loading"
    /\ AllLoaded
    /\ m_plugins' = newInstances
    /\ newInstances' = {}
    /\ told' = [t \in Type |-> OfType(newInstances, t)]
    /\ StartWatching
    /\ UNCHANGED <<files, copies, failures, scan, load, updatedInstances,
                   alive, snapshot>>

-----------------------------------------------------------------------------
\* The watcher: WatchLoop and ScanForChanges.

WatchEnds ==
    /\ phase = "asleep"
    /\ ~m_watching
    /\ phase' = "ended"
    /\ UNCHANGED <<files, copies, m_plugins, failures, m_watching, scan,
                   load, instances, alive, snapshot, main, told>>

\* A file that goes while the directory is listed makes the listing throw, and
\* the scan leaves everything to the next one: a Delete before this step.
ListFiles ==
    /\ phase = "asleep"
    /\ m_watching
    /\ currentFiles' = [p \in Path |-> disk[p].stamp]
    /\ phase' = "listed"
    /\ UNCHANGED <<files, copies, m_plugins, failures, m_watching,
                   toUpdate, toAdd, oldEntries, marked, load, instances, alive,
                   snapshot, main, told>>

\* Phase 1, under the shared lock.
Listed(p) == currentFiles[p] # None
Rejected(p) == m_failedPlugins[p] = currentFiles[p]
HasEntry(p) == \E e \in m_plugins : e.path = p
PathsToUpdate ==
    {e.path : e \in {f \in m_plugins : /\ Listed(f.path)
                                       /\ f.stamp # currentFiles[f.path]
                                       /\ ~Rejected(f.path)}}
PathsToDelete == {e.path : e \in {f \in m_plugins : ~Listed(f.path)}}

\* Mutant: an unchanged file stays in currentFiles.
AddUnchangedToo ==
    {p \in Path : /\ Listed(p) /\ ~Rejected(p)
                  /\ \A e \in m_plugins : e.path = p => e.stamp = currentFiles[p]}

PathsToAdd == {p \in Path : Listed(p) /\ ~HasEntry(p) /\ ~Rejected(p)}

Analyse ==
    /\ phase = "listed"
    /\ toUpdate' = PathsToUpdate
    /\ toAdd' = PathsToAdd
    /\ phase' = IF PathsToUpdate = {} /\ PathsToDelete = {} /\ PathsToAdd = {}
                THEN "asleep" ELSE "reloading"
    /\ UNCHANGED <<files, copies, m_plugins, failures, m_watching,
                   currentFiles, oldEntries, marked, load, instances, alive,
                   snapshot, main, told>>

\* Mutant: what changed goes, reloaded or not.
ReplacedByListing ==
    {e \in m_plugins : Listed(e.path) /\ e.stamp # currentFiles[e.path]}

\* Phase 3, under the unique lock.  An entry that was reloaded is replaced
\* whether or not its file is still there; of the others, those go whose file
\* is gone.
Replaced == {e \in m_plugins : \E u \in updatedInstances : u.path = e.path}

\* Mutant: no entry is removed.
RemovedNever == {}

Removed == {e \in m_plugins \ Replaced : ~Exists(e.path)}

Replacing == {u \in updatedInstances : HasEntry(u.path)}

\* Mutant: the type before an update is not marked.
NewTypesChanged == TypesOf(Replacing \cup Removed \cup newInstances)

TypesChanged == TypesOf(Replaced \cup Replacing \cup Removed \cup newInstances)

Swap ==
    /\ phase = "reloading"
    /\ AllLoaded
    /\ m_plugins' = (m_plugins \ (Replaced \cup Removed)) \cup Replacing \cup newInstances
    /\ oldEntries' = Replaced \cup Removed
    /\ updatedInstances' = {}
    /\ newInstances' = {}
    /\ marked' = TypesChanged
    /\ m_failedPlugins' = [p \in Path |-> IF \E e \in Removed : e.path = p
                                          THEN None ELSE m_failedPlugins[p]]
    /\ DestroyUnheld(Held \ (updatedInstances \ Replacing))
    /\ phase' = "swapped"
    /\ UNCHANGED <<files, tried, m_watching, currentFiles, toUpdate, toAdd, load,
                   snapshot, main, told>>

\* oldEntries.clear(): what no request holds is destroyed here, without a lock.
ClearOld ==
    /\ phase = "swapped"
    /\ oldEntries' = {}
    /\ DestroyUnheld(StillHeld)
    /\ phase' = "cleaning"
    /\ UNCHANGED <<files, m_plugins, failures, m_watching, currentFiles,
                   toUpdate, toAdd, marked, load, instances, snapshot, main, told>>

ForgetDeleted ==
    /\ phase = "cleaning"
    /\ m_failedPlugins' = [p \in Path |-> IF Exists(p) THEN m_failedPlugins[p] ELSE None]
    /\ phase' = "announcing"
    /\ UNCHANGED <<files, copies, m_plugins, tried, m_watching, scan, load, instances,
                   alive, snapshot, main, told>>

Announce ==
    /\ phase = "announcing"
    /\ told' = [t \in Type |-> IF t \in marked THEN OfType(m_plugins, t) ELSE told[t]]
    /\ marked' = {}
    /\ phase' = "asleep"
    /\ UNCHANGED <<files, copies, m_plugins, failures, m_watching,
                   currentFiles, toUpdate, toAdd, oldEntries, load, instances,
                   alive, snapshot, main>>

ScanStep == ListFiles \/ Analyse \/ Swap \/ ClearOld \/ ForgetDeleted \/ Announce

-----------------------------------------------------------------------------
\* A request: GetPluginsSnapshot under the shared lock, calls into the plugins,
\* and the end of the handler, where the snapshot goes.

GetPluginsSnapshot(r) ==
    /\ main = "run"
    /\ snapshot[r] = {}
    /\ snapshot' = [snapshot EXCEPT ![r] = m_plugins]
    /\ UNCHANGED <<files, copies, m_plugins, failures, m_watching, phase,
                   scan, load, instances, alive, main, told>>

ReleaseSnapshot(r) ==
    /\ snapshot[r] # {}
    /\ snapshot' = [snapshot EXCEPT ![r] = {}]
    /\ DestroyUnheld(m_plugins \cup updatedInstances \cup newInstances \cup oldEntries
                        \cup UNION {snapshot[q] : q \in Request \ {r}})
    /\ UNCHANGED <<files, m_plugins, failures, m_watching, phase,
                   scan, load, instances, main, told>>

-----------------------------------------------------------------------------
\* The end of main(): StopWatching clears the flag and joins the thread, then
\* UnloadPlugins.  Connect has waited for every request before.

ClearWatching ==
    /\ main = "run"
    /\ \A r \in Request : snapshot[r] = {}
    /\ main' = "join"
    /\ m_watching' = FALSE
    /\ UNCHANGED <<files, copies, m_plugins, failures, phase, scan, load,
                   instances, alive, snapshot, told>>

\* Mutant: the thread is not joined.
Detached == TRUE

\* m_watchThread.join() has returned.
Joined == phase = "ended"

UnloadPlugins ==
    /\ main = "join"
    /\ Joined
    /\ main' = "unloaded"
    /\ m_plugins' = {}
    /\ DestroyUnheld(updatedInstances \cup newInstances \cup oldEntries
                        \cup UNION {snapshot[r] : r \in Request})
    /\ UNCHANGED <<files, failures, m_watching, phase, scan, load,
                   instances, snapshot, told>>

-----------------------------------------------------------------------------

Edit == \E p \in Path : Write(p) \/ Delete(p)
Serve == \E r \in Request : GetPluginsSnapshot(r) \/ ReleaseSnapshot(r)
Next ==
    \/ Edit \/ Serve
    \/ LoadStep \/ Publish
    \/ ScanStep \/ WatchEnds
    \/ ClearWatching \/ UnloadPlugins

Spec == Init /\ [][Next]_vars

\* The threads run: the loading goes on, the watcher wakes every interval, and
\* a main thread that stops goes on to the end.  Nobody has to edit the
\* directory, and nobody has to stop the program.
Fairness ==
    /\ WF_vars(LoadStep)
    /\ WF_vars(Publish)
    /\ WF_vars(ScanStep)
    /\ WF_vars(WatchEnds)
    /\ WF_vars(UnloadPlugins)
FairSpec == Spec /\ Fairness

-----------------------------------------------------------------------------
\* What the loader promises.

\* The list has one entry for a path, through additions, updates, deletions,
\* files that come back and scans that are abandoned (ScanForChanges:262-287,
\* 341-373): a second instance of a plugin, be it of the same content, would
\* answer for tools the first one already has.
OneEntryPerPath ==
    \A e, f \in m_plugins : e.path = f.path => e = f

\* The fingerprint an entry is compared by belongs to the very content it runs,
\* however the file changed around the copy (CreatePluginInstance:49-85): with
\* any other fingerprint a scan would miss an update, or repeat one.
RunsItsFingerprint ==
    \A e \in Held : e.stamp = e.runs.stamp

\* Whatever a request or the list can reach is constructed, loaded and has its
\* staging copy, while the watcher replaces and destroys entries
\* (ScanForChanges:375, GetPluginsSnapshot:179-182).
InUseIsAlive ==
    /\ Held \subseteq alive
    /\ CopiesOf(Held) \subseteq staging

\* The staging directory holds the copies of the living entries, that of the call
\* under way and those that failed half way, which stay.  Every other way out of
\* CreatePluginInstance, a plugin that throws included, takes its copy along, and
\* none takes a copy that another entry runs (CreatePluginInstance:36-92,
\* ~PluginEntry:54-57).
NoStrayCopy ==
    staging = CopiesOf(alive) \cup broken
                  \cup IF load # Idle /\ load.step \in {"compare", "open"}
                       THEN {CallCopy} ELSE {}

\* Between two scans the clients have been told of every change of the plugins
\* of every type, the type an updated plugin had before included
\* (ScanForChanges:334-349, 386-388).
ChangesAnnounced ==
    phase \in {"asleep", "listed"} /\ main = "run"
        => \A t \in Type : told[t] = OfType(m_plugins, t)

\* A plugin leaves the list only when the program unloads, when its file is
\* gone, or for a successor at the same path that runs a later content: a broken
\* update takes nothing away, and none goes back to a content the list had left,
\* however the file changed while it was scanned, copied and loaded
\* (ScanForChanges:294-309, 341-365).
BrokenUpdateKeepsOld ==
    [][\A e \in m_plugins \ m_plugins' :
           \/ main' = "unloaded"
           \/ ~Exists(e.path)
           \/ \E f \in m_plugins' : f.path = e.path /\ e.runs.stamp < f.runs.stamp]_vars

\* Once main() has unloaded the plugins there are none, and no instance is left
\* that nobody would destroy before the program ends; of their copies those remain
\* that failed half way (StopWatching:218-223, UnloadPlugins:169-177).
UnloadedForGood ==
    main = "unloaded" => m_plugins = {} /\ alive = {} /\ staging = broken

\* What scans leave behind at a path when the list agrees with the directory: a
\* file that is there is served, or was tried and failed; one that is gone is not
\* served.
Served(p) == \E e \in m_plugins : e.path = p /\ e.stamp = disk[p].stamp
FoundToFail(p) == m_failedPlugins[p] = disk[p].stamp /\ tried[p] = disk[p].stamp
Settled(p) == IF Exists(p) THEN Served(p) \/ FoundToFail(p) ELSE ~HasEntry(p)

\* No plugin throws, so no scan is abandoned.
NoneThrows == \A p \in Path : Exists(p) => disk[p].gives # "exception"

\* The record of the path, if there is one, is of the content that was tried.
RecordIsTrue(p) == m_failedPlugins[p] \in {None, tried[p]}

\* While the watcher is on, the list comes to agree with the directory at every
\* path once the files stop changing, whatever happened before, scans that were
\* abandoned and copies that failed included.  Two things the code does stand in
\* the way and are assumed away: a plugin that throws ends every scan, and a
\* fingerprint may be recorded of a content that was not tried (WatchLoop:225-235,
\* ScanForChanges:301-306, 390).
Converges ==
    \A p \in Path :
        (<>[](m_watching /\ NoneThrows /\ RecordIsTrue(p))) => <>[]Settled(p)

-----------------------------------------------------------------------------
\* What the documentation says of the failure cache (hot-plug document, section 9).

\* A file that failed to load and has changed since is loaded again: a plugin
\* that works and stays as it is comes to be served.
ChangedIsRetried ==
    \A p \in Path :
        <>[](m_watching /\ Exists(p) /\ disk[p].gives \in Type) => <>[]Served(p)

=============================================================================
