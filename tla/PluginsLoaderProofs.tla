-------------------------- MODULE PluginsLoaderProofs --------------------------
(***************************************************************************)
(* Safety of PluginsLoader for any paths, types, requests and edits.       *)
(***************************************************************************)
EXTENDS PluginsLoader, TLAPS

(***************************************************************************)
(* What the proofs rest on.  A stamp is younger than everything before it, *)
(* so an entry is never younger than the file at its path, and one that    *)
(* has left the list, or is about to be replaced, is older: a copy that is *)
(* being made is never the copy of an entry that lives.                    *)
(***************************************************************************)

\* The phases and the main thread.
PhaseInv ==
    /\ main = "load" <=> phase = "loading"
    /\ main = "run" <=> m_watching
    /\ main = "unloaded" => phase = "ended"
    /\ phase = "ended" => main \in {"join", "unloaded"}
    /\ main = "load" => m_plugins = {}
    /\ main # "run" => \A r \in Request : snapshot[r] = {}
    /\ ~Loading => /\ load = Idle /\ toUpdate = {} /\ toAdd = {}
                   /\ updatedInstances = {} /\ newInstances = {}
    /\ phase # "swapped" => oldEntries = {}
    /\ main = "unloaded" => m_plugins = {} /\ alive = {} /\ staging = broken
    /\ phase = "loading" => toUpdate = {} /\ updatedInstances = {}

\* No stamp is younger than the last edit.
StampInv ==
    /\ \A p \in Path : disk[p].stamp <= edits
    /\ \A p \in Path : Exists(p) <=> disk[p].stamp # None
    /\ \A p \in Path : currentFiles[p] <= edits
    /\ phase = "listed" => \A p \in Path : Exists(p) => currentFiles[p] <= disk[p].stamp

\* The entries.
OldOnes == alive \ (m_plugins \cup updatedInstances \cup newInstances)

EntryInv ==
    /\ Held \subseteq alive
    /\ \A e \in alive : e.stamp = e.runs.stamp /\ e.stamp <= edits
    /\ \A e \in alive : Exists(e.path) => e.stamp <= disk[e.path].stamp
    /\ \A e \in OldOnes : Exists(e.path) => e.stamp < disk[e.path].stamp
    /\ \A e, f \in alive : e.path = f.path /\ e.stamp = f.stamp => e = f
    /\ \A e, f \in m_plugins : e.path = f.path => e = f
    /\ phase = "listed" => \A e \in m_plugins : currentFiles[e.path] # None
                                                    => e.stamp <= currentFiles[e.path]

\* What is to be loaded and what has been.
LoadedInv ==
    /\ \A p \in toUpdate : HasEntry(p)
    /\ \A p \in toAdd : ~HasEntry(p)
    /\ \A u \in updatedInstances : /\ HasEntry(u.path) /\ u.path \notin toUpdate
                                   /\ u \notin m_plugins
    /\ \A u \in updatedInstances, e \in m_plugins : u.path = e.path => e.stamp < u.stamp
    /\ \A n \in newInstances : ~HasEntry(n.path) /\ n.path \notin toAdd
    /\ \A u, v \in updatedInstances : u.path = v.path => u = v
    /\ \A m, n \in newInstances : m.path = n.path => m = n
    /\ \A e \in alive : e.path \in toUpdate \cup toAdd /\ Exists(e.path)
                            => e.stamp < disk[e.path].stamp
    /\ \A r \in Request : snapshot[r] \cap (updatedInstances \cup newInstances) = {}

\* The call under way.
CallInv ==
    load # Idle =>
        /\ load.path \in IF toUpdate # {} THEN toUpdate ELSE toAdd
        /\ load.pre <= edits
        /\ load.step \in {"copy", "compare", "open"} => load.pre # None
        /\ load.step \in {"compare", "open"} =>
               /\ load.copy \in Content
               /\ load.copy.stamp <= edits
               /\ load.nth \in 1..MaxCopies
               /\ CallCopy \notin broken
               /\ \A e \in alive : e.path = load.path => e.stamp < load.copy.stamp
               /\ Exists(load.path) => load.copy.stamp <= disk[load.path].stamp
        /\ load.step = "compare" =>
               (disk[load.path].stamp = load.pre => load.copy.stamp = load.pre)
        /\ load.step = "open" => load.copy.stamp = load.pre

\* A copy that failed is the copy of no entry.
BrokenInv == broken \cap CopiesOf(alive) = {}

\* What the clients know: the types that are not marked are as announced.
ToldInv ==
    main # "unloaded" =>
        \A t \in Type :
            (phase \in {"swapped", "cleaning", "announcing"} => t \notin marked)
                => told[t] = OfType(m_plugins, t)

IInv == /\ PhaseInv /\ StampInv /\ EntryInv /\ LoadedInv /\ CallInv
        /\ NoStrayCopy /\ BrokenInv /\ ToldInv

-----------------------------------------------------------------------------
(* Types *)

USE PathAssumption, BoundsAssumption DEF None, Absent, Idle, CallCopy

LEMMA InitTyped == Init => TypeOK
<1> SUFFICES ASSUME Init PROVE TypeOK
  OBVIOUS
<1>1. disk \in [Path -> Content \cup {Absent}] /\ edits \in 0..MaxEdits
  BY DEF Init
<1>2. load \in Calls \cup {Idle} /\ toAdd \subseteq Path
  BY DEF Init
<1>3. /\ m_failedPlugins \in [Path -> 0..MaxEdits]
      /\ tried \in [Path -> 0..MaxEdits]
      /\ currentFiles \in [Path -> 0..MaxEdits]
      /\ snapshot \in [Request -> SUBSET Entry]
      /\ told \in [Type -> SUBSET Entry]
  BY DEF Init
<1> QED
  BY <1>1, <1>2, <1>3 DEF Init, TypeOK

\* A stamp is a number of an edit.
LEMMA StampType ==
    ASSUME TypeOK, NEW p \in Path
    PROVE  /\ disk[p].stamp \in 0..MaxEdits
           /\ Exists(p) => disk[p] \in Content /\ disk[p].stamp \in 1..MaxEdits
           /\ Exists(p) <=> disk[p].stamp # None
<1>1. disk[p] \in Content \cup {Absent}
  BY DEF TypeOK
<1> QED
  BY <1>1 DEF Exists, Content

LEMMA EditTyped ==
    ASSUME TypeOK, NEW p \in Path, Write(p) \/ Delete(p) PROVE TypeOK'
<1> USE DEF TypeOK, copies, failures, scan, instances
<1>1. CASE Write(p)
  <2>1. PICK c \in Content : disk' = [disk EXCEPT ![p] = c]
    BY <1>1 DEF Write
  <2>2. disk' \in [Path -> Content \cup {Absent}]
    BY <2>1
  <2>3. edits' \in 0..MaxEdits
    BY <1>1 DEF Write
  <2> QED BY <1>1, <2>2, <2>3 DEF Write
<1>2. CASE Delete(p)
  BY <1>2 DEF Delete
<1> QED BY <1>1, <1>2

LEMMA CallTyped ==
    ASSUME TypeOK, CallInv, LoadStep PROVE TypeOK'
<1> USE DEF TypeOK, files, copies, failures, scan, instances, Finished, Failed
<1>0. load # Idle => load \in Calls
  OBVIOUS
<1>1. ASSUME NEW p \in Path, Begin(p) PROVE TypeOK'
  <2>1. load' \in Calls
    BY <1>1 DEF Begin, Call, Calls
  <2> QED BY <1>1, <2>1 DEF Begin
<1>2. CASE Fingerprint
  <2>1. load \in Calls
    BY <1>0, <1>2 DEF Fingerprint
  <2>2. load' \in Calls
    BY <1>2, <2>1, StampType DEF Fingerprint, Call, Calls
  <2> QED BY <1>2, <2>2 DEF Fingerprint
<1>3. CASE CopyToStaging
  <2>1. load \in Calls
    BY <1>0, <1>3 DEF CopyToStaging
  <2>2. ASSUME NEW nth \in FreshNames, Exists(load.path)
        PROVE  /\ nth \in 1..MaxCopies
               /\ <<load.path, disk[load.path].stamp, nth>> \in Copy
               /\ Call(load.path, "compare", load.pre, disk[load.path], nth) \in Calls
    BY <2>1, <2>2, StampType DEF FreshNames, Copy, Call, Calls
  <2>3. load' \in Calls /\ staging' \subseteq Copy /\ broken' \subseteq Copy
    BY <1>3, <2>1, <2>2 DEF CopyToStaging, Copied, Calls
  <2> QED BY <1>3, <2>3 DEF CopyToStaging
<1>4. CASE Compare
  <2>1. load \in Calls
    BY <1>0, <1>4 DEF Compare
  <2>2. load' \in Calls \cup {Idle}
    BY <1>4, <2>1 DEF Compare, Calls
  <2> QED BY <1>4, <2>2 DEF Compare, DiscardCopy
<1>5. CASE Open
  <2> DEFINE entry == [path |-> load.path, stamp |-> load.pre, runs |-> load.copy,
                       nth |-> load.nth]
  <2>1. load \in Calls
    BY <1>0, <1>5 DEF Open
  <2>2. CASE Loaded(entry)
    <3>1. entry \in Entry
      BY <1>5, <2>1, <2>2 DEF Open, Loaded, CallInv, Calls, Entry
    <3>2. m_failedPlugins' \in [Path -> 0..MaxEdits]
      BY <2>1, <2>2 DEF Loaded, Calls
    <3> HIDE DEF entry
    <3> QED BY <1>5, <2>2, <3>1, <3>2 DEF Open, Loaded
  <2>3. CASE LoadFails(entry)
    <3>1. load' \in Calls
      BY <2>1, <2>3 DEF LoadFails, Calls
    <3> HIDE DEF entry
    <3> QED BY <1>5, <2>3, <3>1 DEF Open, LoadFails, Destroy
  <2>4. CASE LoadThrows(entry)
    <3> HIDE DEF entry
    <3> QED BY <1>5, <2>4 DEF Open, LoadThrows, Destroy, StartWatching
  <2> QED BY <1>5, <2>2, <2>3, <2>4 DEF Open
<1>6. CASE RecordFailure
  <2>1. load \in Calls
    BY <1>0, <1>6 DEF RecordFailure
  <2>2. m_failedPlugins' \in [Path -> 0..MaxEdits] /\ tried' \in [Path -> 0..MaxEdits]
    BY <1>6, <2>1, StampType DEF RecordFailure, Calls
  <2> QED BY <1>6, <2>2 DEF RecordFailure
<1> QED BY <1>1, <1>2, <1>3, <1>4, <1>5, <1>6 DEF LoadStep

LEMMA ScanTyped ==
    ASSUME TypeOK, ScanStep PROVE TypeOK'
<1> USE DEF TypeOK, files, copies, failures, scan, instances
<1>1. CASE ListFiles
  <2>1. currentFiles' \in [Path -> 0..MaxEdits]
    BY <1>1, StampType DEF ListFiles
  <2> QED BY <1>1, <2>1 DEF ListFiles
<1>2. CASE Analyse
  <2>1. toUpdate' \subseteq Path /\ toAdd' \subseteq Path
    BY <1>2 DEF Analyse, PathsToUpdate, PathsToAdd, Entry
  <2> QED BY <1>2, <2>1 DEF Analyse
<1>3. CASE Swap
  <2>1. Replaced \subseteq Entry /\ Removed \subseteq Entry /\ Replacing \subseteq Entry
    BY DEF Replaced, Removed, Replacing
  <2>2. marked' \subseteq Type
    BY <1>3, <2>1 DEF Swap, TypesChanged, TypesOf, Entry, Content
  <2>3. m_failedPlugins' \in [Path -> 0..MaxEdits]
    BY <1>3 DEF Swap
  <2> QED BY <1>3, <2>1, <2>2, <2>3 DEF Swap, DestroyUnheld, Destroy
<1>4. CASE ClearOld
  BY <1>4 DEF ClearOld, DestroyUnheld, Destroy
<1>5. CASE ForgetDeleted
  <2>1. m_failedPlugins' \in [Path -> 0..MaxEdits]
    BY <1>5 DEF ForgetDeleted
  <2> QED BY <1>5, <2>1 DEF ForgetDeleted
<1>6. CASE Announce
  <2>1. told' \in [Type -> SUBSET Entry]
    BY <1>6 DEF Announce, OfType
  <2> QED BY <1>6, <2>1 DEF Announce
<1> QED BY <1>1, <1>2, <1>3, <1>4, <1>5, <1>6 DEF ScanStep

LEMMA Typing ==
    ASSUME TypeOK, CallInv, [Next]_vars PROVE TypeOK'
<1> USE DEF files, copies, failures, scan, instances
<1>1. CASE Publish
  <2>1. told' \in [Type -> SUBSET Entry]
    BY <1>1 DEF TypeOK, Publish, OfType
  <2> QED BY <1>1, <2>1 DEF TypeOK, Publish, StartWatching
<1>2. CASE WatchEnds \/ ClearWatching \/ UnloadPlugins
  BY <1>2 DEF TypeOK, WatchEnds, ClearWatching, UnloadPlugins, DestroyUnheld, Destroy
<1>3. CASE Serve
  BY <1>3 DEF TypeOK, Serve, GetPluginsSnapshot, ReleaseSnapshot, DestroyUnheld, Destroy
<1>4. CASE UNCHANGED vars
  BY <1>4 DEF TypeOK, vars
<1> QED
  BY <1>1, <1>2, <1>3, <1>4, EditTyped, CallTyped, ScanTyped DEF Next, Edit

-----------------------------------------------------------------------------
(* Somebody edits the directory *)

\* Whatever was done at a path, a file that is there afterwards is the old one,
\* or younger than every stamp there was.
Edited ==
    /\ edits \in Nat /\ edits' = edits + 1
    /\ \A p \in Path : Exists(p)' =>
           \/ disk'[p] = disk[p]
           \/ disk'[p].stamp = edits' 
    /\ \A p \in Path : disk'[p].stamp \in Nat /\ (Exists(p)' <=> disk'[p].stamp # None)

LEMMA EditEdited ==
    ASSUME TypeOK, NEW p \in Path, Write(p) \/ Delete(p) PROVE Edited
<1>0. \A q \in Path : /\ disk'[q].stamp \in 0..MaxEdits
                      /\ Exists(q)' <=> disk'[q].stamp # None
  <2>1. TypeOK'
    BY EditTyped
  <2>2. ASSUME NEW q \in Path PROVE disk'[q] \in Content \cup {Absent}
    BY <2>1 DEF TypeOK
  <2> QED BY <2>2 DEF Exists, Content
<1>1. edits \in Nat /\ edits' = edits + 1
  BY DEF TypeOK, Write, Delete
<1>2. CASE Write(p)
  BY <1>0, <1>1, <1>2 DEF TypeOK, Write, Edited
<1>3. CASE Delete(p)
  BY <1>0, <1>1, <1>3 DEF TypeOK, Delete, Edited, Exists
<1> QED BY <1>2, <1>3

LEMMA EditSafe ==
    ASSUME TypeOK, IInv, NEW p \in Path, Write(p) \/ Delete(p) PROVE IInv'
<1> USE DEF IInv, scan, instances, copies
<1>0. /\ Edited
      /\ UNCHANGED <<copies, m_plugins, m_watching, phase, scan,
                     load, instances, alive, snapshot, main, told>>
  BY EditEdited DEF Write, Delete
<1>1. PhaseInv'
  BY <1>0 DEF PhaseInv, Loading
<1>2. StampInv'
  <2>1. \A q \in Path : disk[q].stamp \in 0..MaxEdits /\ currentFiles[q] \in 0..MaxEdits
    BY StampType DEF TypeOK
  <2>2. \A q \in Path : Exists(q)' /\ disk'[q] = disk[q] => Exists(q)
    BY DEF Exists
  <2> QED BY <1>0, <2>1, <2>2 DEF StampInv, Edited
<1>3. EntryInv'
  <2>1. Held' = Held /\ OldOnes' = OldOnes
    BY <1>0 DEF Held, OldOnes
  <2>2. \A e \in alive : e.path \in Path /\ e.stamp \in Nat
    BY DEF TypeOK, Entry
  <2>3. \A q \in Path : Exists(q)' /\ disk'[q] = disk[q] => Exists(q)
    BY DEF Exists
  <2>4. OldOnes \subseteq alive
    BY DEF OldOnes
  <2> QED BY <1>0, <2>1, <2>2, <2>3, <2>4 DEF EntryInv, Edited
<1>4. LoadedInv'
  <2>2. \A e \in alive : e.path \in Path /\ e.stamp \in Nat /\ e.stamp <= edits
    BY DEF TypeOK, Entry, EntryInv
  <2>3. \A q \in Path : Exists(q)' /\ disk'[q] = disk[q] => Exists(q)
    BY DEF Exists
  <2> QED BY <1>0, <2>2, <2>3 DEF LoadedInv, Edited, HasEntry
<1>5. CallInv'
  <2>1. ASSUME load # Idle PROVE load.path \in Path /\ load.pre \in Nat
    BY <2>1 DEF TypeOK, Calls
  <2>2. \A q \in Path : Exists(q)' /\ disk'[q] = disk[q] => Exists(q)
    BY DEF Exists
  <2>3. ASSUME load # Idle, load.step \in {"compare", "open"} PROVE load.copy.stamp \in Nat
    BY <2>3 DEF CallInv, Content
  <2> QED BY <1>0, <2>1, <2>2, <2>3 DEF CallInv, Edited
<1>6. NoStrayCopy' /\ BrokenInv' /\ ToldInv'
  BY <1>0 DEF NoStrayCopy, BrokenInv, CopiesOf, ToldInv, OfType
<1> QED BY <1>1, <1>2, <1>3, <1>4, <1>5, <1>6

-----------------------------------------------------------------------------
(* A call of CreatePluginInstance *)

\* What the steps of a call leave alone before it has made an entry.
NoEntryYet ==
    UNCHANGED <<files, m_plugins, m_watching, phase, currentFiles, oldEntries,
                marked, instances, alive, snapshot, main, told>>

LEMMA NoEntryYetSafe ==
    ASSUME TypeOK, IInv, NoEntryYet, Loading,
           toUpdate' \subseteq toUpdate, toAdd' \subseteq toAdd
    PROVE  PhaseInv' /\ StampInv' /\ EntryInv' /\ LoadedInv' /\ ToldInv'
<1> USE DEF IInv, NoEntryYet, files, instances
<1>1. PhaseInv'
  BY DEF PhaseInv, Loading
<1>2. StampInv' /\ EntryInv'
  BY DEF StampInv, EntryInv, Exists, Held, OldOnes
<1>3. LoadedInv'
  BY DEF LoadedInv, HasEntry, Exists
<1>4. ToldInv'
  BY DEF ToldInv, OfType
<1> QED BY <1>1, <1>2, <1>3, <1>4

\* A call ends with nothing, and its path is dealt with.
LEMMA FinishedEmpty ==
    ASSUME Finished
    PROVE  load' = Idle /\ toUpdate' \subseteq toUpdate /\ toAdd' \subseteq toAdd
BY DEF Finished

\* While there is a call the phase is one of loading.
LEMMA CallLoading == PhaseInv /\ load # Idle => Loading
BY DEF PhaseInv

\* A call that has failed keeps its path and its fingerprint.
LEMMA FailedCall ==
    ASSUME CallInv, load \in Calls, Failed, UNCHANGED <<edits, toUpdate, toAdd>>
    PROVE  CallInv' /\ load' # Idle /\ load'.step = "record"
<1>1. load' = [path |-> load.path, step |-> "record", pre |-> load.pre, copy |-> load.copy,
               nth |-> load.nth]
  BY DEF Failed, Calls
<1>2. load # Idle
  BY DEF Calls
<1> QED BY <1>1, <1>2 DEF CallInv

LEMMA BeginSafe ==
    ASSUME TypeOK, IInv, NEW p \in Path, Begin(p) PROVE IInv'
<1>1. NoEntryYet /\ UNCHANGED <<staging, broken, toUpdate, toAdd>> /\ Loading
  BY DEF Begin, NoEntryYet, scan, copies
<1>2. CallInv'
  BY <1>1 DEF Begin, Call, CallInv, TypeOK, NoEntryYet, files
<1>3. NoStrayCopy' /\ BrokenInv'
  BY <1>1 DEF Begin, Call, IInv, NoStrayCopy, BrokenInv, NoEntryYet
<1> QED BY <1>1, <1>2, <1>3, NoEntryYetSafe DEF IInv

LEMMA FingerprintSafe ==
    ASSUME TypeOK, IInv, Fingerprint PROVE IInv'
<1>1. NoEntryYet /\ UNCHANGED <<staging, broken, toUpdate, toAdd>> /\ Loading
  BY CallLoading DEF Fingerprint, NoEntryYet, scan, copies, IInv
<1>2. load \in Calls
  BY DEF Fingerprint, TypeOK
<1>3. CallInv' /\ NoStrayCopy' /\ BrokenInv'
  <2>1. CASE Exists(load.path)
    <3>1. load' = Call(load.path, "copy", disk[load.path].stamp, Absent, 0)
      BY <2>1 DEF Fingerprint
    <3>2. disk[load.path].stamp # None /\ disk[load.path].stamp <= edits
      BY <1>2, <2>1, StampType DEF Calls, IInv, StampInv
    <3> QED BY <1>1, <1>2, <3>1, <3>2 DEF Call, CallInv, IInv, NoStrayCopy, BrokenInv,
               NoEntryYet, files, Fingerprint
  <2>2. CASE ~Exists(load.path)
    <3>1. load' = [load EXCEPT !.step = "record"]
      BY <2>2 DEF Fingerprint, Failed
    <3>2. CallInv' /\ load' # Idle /\ load'.step = "record"
      BY <1>1, <1>2, <3>1, FailedCall DEF Failed, IInv, NoEntryYet, files
    <3> QED BY <1>1, <3>2 DEF IInv, NoStrayCopy, BrokenInv, NoEntryYet, Fingerprint
  <2> QED BY <2>1, <2>2
<1> QED BY <1>1, <1>3, NoEntryYetSafe DEF IInv

LEMMA CopySafe ==
    ASSUME TypeOK, IInv, CopyToStaging PROVE IInv'
<1>1. NoEntryYet /\ UNCHANGED <<toUpdate, toAdd>> /\ Loading
  BY CallLoading DEF CopyToStaging, NoEntryYet, scan, IInv
<1>2. load \in Calls
  BY DEF CopyToStaging, TypeOK
<1>3. ASSUME NEW nth \in FreshNames, Exists(load.path)
      PROVE  /\ nth \in 1..MaxCopies
             /\ <<load.path, disk[load.path].stamp, nth>> \notin CopiesOf(alive) \cup broken
  BY <1>3 DEF FreshNames, CopyToStaging, IInv, NoStrayCopy
<1>4. staging = CopiesOf(alive) \cup broken
  BY DEF CopyToStaging, IInv, NoStrayCopy
<1>5. CASE \E nth \in FreshNames :
               /\ Exists(load.path)
               /\ load' = Call(load.path, "compare", load.pre, disk[load.path], nth)
               /\ staging' = staging \cup {<<load.path, disk[load.path].stamp, nth>>}
               /\ UNCHANGED broken
  <2> DEFINE c == disk[load.path]
  <2>1. PICK nth \in FreshNames :
            /\ Exists(load.path)
            /\ load' = Call(load.path, "compare", load.pre, c, nth)
            /\ staging' = staging \cup {<<load.path, c.stamp, nth>>}
            /\ UNCHANGED broken
    BY <1>5
  <2>2. c \in Content /\ c.stamp # None /\ c.stamp <= edits
    BY <1>2, <2>1, StampType DEF Calls, IInv, StampInv
  <2>3. load.pre # None /\ load.pre <= edits /\ load.path \in toUpdate \cup toAdd
        /\ load.path \in IF toUpdate # {} THEN toUpdate ELSE toAdd
    BY DEF CopyToStaging, IInv, CallInv
  <2>4. \A e \in alive : e.path = load.path => e.stamp < c.stamp
    BY <2>1, <2>3 DEF IInv, LoadedInv
  <2>5. CallInv'
    BY <1>1, <1>3, <2>1, <2>2, <2>3, <2>4 DEF Call, CallInv, NoEntryYet, files, Content
  <2>6. NoStrayCopy' /\ BrokenInv'
    BY <1>1, <1>4, <2>1 DEF Call, IInv, NoStrayCopy, BrokenInv, NoEntryYet, CopiesOf
  <2> QED BY <1>1, <2>5, <2>6, NoEntryYetSafe DEF IInv
<1>6. CASE \E nth \in FreshNames :
               /\ Exists(load.path)
               /\ staging' = staging \cup {<<load.path, disk[load.path].stamp, nth>>}
               /\ broken' = broken \cup {<<load.path, disk[load.path].stamp, nth>>}
               /\ Failed
  <2>1. CallInv' /\ load' # Idle /\ load'.step = "record"
    BY <1>1, <1>2, <1>6, FailedCall DEF IInv, NoEntryYet, files
  <2>2. NoStrayCopy' /\ BrokenInv'
    BY <1>1, <1>3, <1>4, <1>6, <2>1 DEF IInv, NoStrayCopy, BrokenInv, NoEntryYet
  <2> QED BY <1>1, <2>1, <2>2, NoEntryYetSafe DEF IInv
<1>7. CASE Failed /\ UNCHANGED copies
  <2>1. CallInv' /\ load' # Idle /\ load'.step = "record"
    BY <1>1, <1>2, <1>7, FailedCall DEF IInv, NoEntryYet, files
  <2>2. NoStrayCopy' /\ BrokenInv'
    BY <1>1, <1>4, <1>7, <2>1 DEF IInv, NoStrayCopy, BrokenInv, NoEntryYet, copies
  <2> QED BY <1>1, <2>1, <2>2, NoEntryYetSafe DEF IInv
<1> QED BY <1>5, <1>6, <1>7 DEF CopyToStaging, Copied

\* The copy of the call under way is the copy of no entry.
LEMMA CopyApart ==
    ASSUME TypeOK, IInv, load \in Calls, load.step \in {"compare", "open"}
    PROVE  CallCopy \notin CopiesOf(alive)
<1>1. \A e \in alive : e.path = load.path => e.stamp < load.copy.stamp
  BY DEF IInv, CallInv
<1>2. \A e \in alive : e.stamp = e.runs.stamp /\ e.stamp \in Nat
  BY DEF IInv, EntryInv, TypeOK, Entry
<1>3. load.copy.stamp \in Nat
  BY DEF IInv, CallInv, Content
<1> QED BY <1>1, <1>2, <1>3 DEF CopiesOf

LEMMA CompareSafe ==
    ASSUME TypeOK, IInv, Compare PROVE IInv'
<1>1. NoEntryYet /\ Loading /\ toUpdate' \subseteq toUpdate /\ toAdd' \subseteq toAdd
  BY CallLoading DEF Compare, NoEntryYet, scan, instances, IInv, Finished
<1>2. load \in Calls
  BY DEF Compare, TypeOK
<1>3. CallInv' /\ NoStrayCopy' /\ BrokenInv'
  <2>1. CASE SameAsBefore
    <3>1. /\ load' = [path |-> load.path, step |-> "open", pre |-> load.pre,
                      copy |-> load.copy, nth |-> load.nth]
          /\ UNCHANGED <<staging, broken, toUpdate, toAdd>>
      BY <1>2, <2>1 DEF Compare, Calls, scan, copies
    <3>2. load.copy.stamp = load.pre
      BY <2>1 DEF SameAsBefore, Compare, IInv, CallInv
    <3>3. CallInv'
      BY <1>1, <3>1, <3>2 DEF CallInv, IInv, NoEntryYet, files, Compare, Exists
    <3> QED BY <1>1, <3>1, <3>3 DEF IInv, NoStrayCopy, BrokenInv, NoEntryYet, Compare
  <2>2. CASE ~SameAsBefore
    <3>1. load' = Idle /\ DiscardCopy /\ CallCopy \notin broken
      BY <2>2 DEF Compare, Finished, IInv, CallInv
    <3>2. NoStrayCopy' /\ BrokenInv'
      BY <1>1, <1>2, <3>1, CopyApart DEF DiscardCopy, IInv, NoStrayCopy, BrokenInv,
         NoEntryYet, Compare
    <3> QED BY <3>1, <3>2 DEF CallInv
  <2> QED BY <2>1, <2>2
<1> QED BY <1>1, <1>3, NoEntryYetSafe DEF IInv

LEMMA RecordSafe ==
    ASSUME TypeOK, IInv, RecordFailure PROVE IInv'
<1>1. /\ NoEntryYet /\ Loading /\ toUpdate' \subseteq toUpdate /\ toAdd' \subseteq toAdd
      /\ UNCHANGED <<staging, broken>> /\ load' = Idle
  BY CallLoading DEF RecordFailure, NoEntryYet, instances, copies, IInv, Finished
<1>2. CallInv' /\ NoStrayCopy' /\ BrokenInv'
  BY <1>1 DEF CallInv, IInv, NoStrayCopy, BrokenInv, NoEntryYet, RecordFailure
<1> QED BY <1>1, <1>2, NoEntryYetSafe DEF IInv

-----------------------------------------------------------------------------
(* An entry is made *)

\* The copies of the entries that live on are those that were not taken away.
LEMMA CopiesApart ==
    ASSUME IInv, NEW dead, dead \subseteq alive
    PROVE  CopiesOf(alive \ dead) = CopiesOf(alive) \ CopiesOf(dead)
<1>1. /\ \A e \in alive : e.stamp = e.runs.stamp
      /\ \A e, f \in alive : e.path = f.path /\ e.stamp = f.stamp => e = f
  BY DEF IInv, EntryInv
<1> QED BY <1>1 DEF CopiesOf

\* Destructors remove the copies of the dead entries and no other.
LEMMA DestroyExact ==
    ASSUME TypeOK, IInv, NEW dead, dead \subseteq alive, Destroy(dead),
           load # Idle /\ load.step \in {"compare", "open"} => load \in Calls,
           UNCHANGED load
    PROVE  NoStrayCopy' /\ BrokenInv'
<1>1. CopiesOf(alive \ dead) = CopiesOf(alive) \ CopiesOf(dead)
  BY CopiesApart
<1>2. broken \cap CopiesOf(dead) = {} /\ BrokenInv'
  BY <1>1 DEF IInv, BrokenInv, CopiesOf, Destroy
<1>3. CASE load # Idle /\ load.step \in {"compare", "open"}
  <2>1. CallCopy \notin CopiesOf(dead)
    BY <1>3, CopyApart DEF CopiesOf
  <2> QED BY <1>1, <1>2, <1>3, <2>1 DEF Destroy, NoStrayCopy, IInv
<1>4. CASE ~(load # Idle /\ load.step \in {"compare", "open"})
  BY <1>1, <1>2, <1>4 DEF Destroy, NoStrayCopy, IInv
<1> QED BY <1>3, <1>4

\* The entry that is being made.
Made == [path |-> load.path, stamp |-> load.pre, runs |-> load.copy, nth |-> load.nth]

LEMMA MadeFacts ==
    ASSUME TypeOK, IInv, Open
    PROVE  /\ load \in Calls /\ load.step = "open" /\ Loading
           /\ CopiesOf({Made}) = {CallCopy}
           /\ CallCopy \notin CopiesOf(alive) \cup broken
           /\ staging = CopiesOf(alive) \cup broken \cup {CallCopy}
           /\ Made \notin alive
<1>1. load \in Calls /\ load.step = "open"
  BY DEF Open, TypeOK
<1>2. CopiesOf({Made}) = {CallCopy}
  BY DEF CopiesOf, Made
<1>3. CallCopy \notin CopiesOf(alive) \cup broken
  BY <1>1, CopyApart DEF IInv, CallInv
<1>4. Made \notin alive
  BY <1>2, <1>3 DEF CopiesOf
<1> QED BY <1>1, <1>2, <1>3, <1>4, CallLoading DEF IInv, NoStrayCopy

\* A library that does not load: the entry that was being made goes with its copy.
LEMMA LoadFailsSafe ==
    ASSUME TypeOK, IInv, Open, LoadFails(Made) PROVE IInv'
<1>1. load \in Calls /\ load.step = "open" /\ Loading
  BY MadeFacts
<1>2. Destroy({Made}) /\ UNCHANGED <<files, m_plugins, m_watching, phase, instances, scan,
                                     snapshot, main, told>>
  BY DEF Open, LoadFails
<1>3. alive' = alive /\ staging' = CopiesOf(alive) \cup broken /\ broken' = broken
  BY <1>2, MadeFacts DEF Destroy
<1>4. NoEntryYet /\ UNCHANGED <<toUpdate, toAdd>>
  BY <1>2, <1>3 DEF NoEntryYet, scan
<1>5. CallInv' /\ load' # Idle /\ load'.step = "record"
  BY <1>1, <1>4, FailedCall DEF LoadFails, IInv, NoEntryYet, files
<1>6. NoStrayCopy' /\ BrokenInv'
  BY <1>3, <1>5 DEF NoStrayCopy, BrokenInv, IInv
<1> QED BY <1>1, <1>4, <1>5, <1>6, NoEntryYetSafe DEF IInv

\* A plugin that throws: all that is left is what the list and the requests hold.
LEMMA LoadThrowsSafe ==
    ASSUME TypeOK, IInv, Open, LoadThrows(Made) PROVE IInv'
<1> USE DEF IInv, instances
<1>0. load \in Calls /\ load.step = "open" /\ Loading
  BY MadeFacts
<1>1. /\ load' = Idle /\ toUpdate' = {} /\ toAdd' = {} /\ updatedInstances' = {}
      /\ newInstances' = {} /\ phase' = "asleep"
      /\ Destroy((alive \ StillHeld) \cup {Made})
      /\ UNCHANGED <<files, m_plugins, currentFiles, oldEntries, marked, snapshot, told>>
      /\ IF phase = "loading" THEN m_watching' = TRUE /\ main' = "run"
                               ELSE UNCHANGED <<m_watching, main>>
  BY DEF Open, LoadThrows, StartWatching
<1>2. StillHeld \subseteq alive /\ oldEntries = {}
  BY <1>0 DEF EntryInv, Held, StillHeld, PhaseInv, Loading
<1>3. alive' = StillHeld
  BY <1>1, <1>2, MadeFacts DEF Destroy
<1>4. Held' = StillHeld /\ OldOnes' \subseteq OldOnes
  BY <1>1, <1>2, <1>3 DEF Held, StillHeld, OldOnes, LoadedInv
<1>5. PhaseInv'
  BY <1>0, <1>1, <1>2 DEF PhaseInv, Loading, TypeOK
<1>6. StampInv' /\ LoadedInv' /\ CallInv'
  BY <1>1 DEF StampInv, Exists, files, LoadedInv, CallInv
<1>7. EntryInv'
  BY <1>1, <1>2, <1>3, <1>4 DEF EntryInv, Exists, files
<1>8. NoStrayCopy' /\ BrokenInv'
  <2>1. CopiesOf((alive \ StillHeld) \cup {Made}) = CopiesOf(alive \ StillHeld) \cup {CallCopy}
    BY MadeFacts DEF CopiesOf
  <2>2. CopiesOf(alive \ StillHeld) \subseteq CopiesOf(alive)
    BY DEF CopiesOf
  <2>3. CopiesOf(StillHeld) = CopiesOf(alive) \ CopiesOf(alive \ StillHeld)
    <3>1. alive \ (alive \ StillHeld) = StillHeld
      BY <1>2
    <3> HIDE DEF IInv
    <3> QED BY <3>1, CopiesApart
  <2>4. staging' = CopiesOf(StillHeld) \cup broken /\ broken' = broken
    BY <1>1, <2>1, <2>2, <2>3, MadeFacts DEF Destroy, BrokenInv
  <2>5. broken \cap CopiesOf(StillHeld) = {}
    BY <2>3 DEF BrokenInv
  <2> QED BY <1>1, <1>3, <2>4, <2>5 DEF NoStrayCopy, BrokenInv
<1>9. ToldInv'
  BY <1>0, <1>1 DEF ToldInv, OfType, Loading, PhaseInv, TypeOK
<1> QED BY <1>5, <1>6, <1>7, <1>8, <1>9

LEMMA CopiesOfOneMore ==
    ASSUME NEW entries, NEW e
    PROVE  CopiesOf(entries \cup {e}) = CopiesOf(entries) \cup CopiesOf({e})
BY DEF CopiesOf

LEMMA LoadedSafe ==
    ASSUME TypeOK, IInv, Open, Loaded(Made) PROVE IInv'
<1>1. load \in Calls /\ load.step = "open"
  BY MadeFacts
<1>2. /\ alive' = alive \cup {Made} /\ load' = Idle
      /\ UNCHANGED <<files, staging, broken, m_plugins, m_watching, phase, currentFiles,
                     oldEntries, marked, snapshot, main, told>>
  BY DEF Open, Loaded, Finished, copies
<1>3. /\ load.copy.stamp = load.pre /\ load.pre \in Nat /\ load.pre <= edits
      /\ load.path \in IF toUpdate # {} THEN toUpdate ELSE toAdd
      /\ \A e \in alive : e.path = load.path => e.stamp < load.pre
      /\ Exists(load.path) => load.pre <= disk[load.path].stamp
  BY <1>1 DEF IInv, CallInv, Calls
<1>4. Loading /\ phase # "listed"
  BY <1>1, CallLoading DEF IInv, Loading
<1>5. \/ /\ toUpdate # {} /\ toUpdate' = toUpdate \ {load.path} /\ toAdd' = toAdd
         /\ updatedInstances' = updatedInstances \cup {Made} /\ newInstances' = newInstances
      \/ /\ toUpdate = {} /\ toAdd' = toAdd \ {load.path} /\ toUpdate' = toUpdate
         /\ newInstances' = newInstances \cup {Made} /\ updatedInstances' = updatedInstances
  BY DEF Loaded, Finished
<1>6. m_plugins \subseteq alive /\ updatedInstances \subseteq alive /\ newInstances \subseteq alive
  BY DEF IInv, EntryInv, Held
<1>7. \A e \in alive : e.stamp \in Nat /\ e.path \in Path
  BY DEF TypeOK, Entry
<1>m. Made.path = load.path /\ Made.stamp = load.pre /\ Made.runs = load.copy
  BY DEF Made
<1>8. PhaseInv'
  BY <1>1, <1>2, <1>4, <1>5 DEF IInv, PhaseInv, Loading
<1>9. StampInv'
  BY <1>2 DEF IInv, StampInv, Exists, files
<1>10. EntryInv'
  <2>1. Held' \subseteq alive'
    BY <1>2, <1>5 DEF IInv, EntryInv, Held
  <2>2. OldOnes' \subseteq OldOnes
    BY <1>2, <1>5 DEF OldOnes
  <2> QED BY <1>2, <1>3, <1>4, <1>7, <1>m, <2>1, <2>2 DEF IInv, EntryInv, Exists, files
<1>11. LoadedInv'
  <2>1. \A p \in toUpdate : p \notin toAdd
    BY DEF IInv, LoadedInv
  <2>2. /\ Made \notin m_plugins /\ \A r \in Request : Made \notin snapshot[r]
    BY <1>6, MadeFacts DEF IInv, EntryInv, Held
  <2>3. HasEntry(load.path) <=> toUpdate # {}
    BY <1>3 DEF IInv, LoadedInv
  <2>4. \A p \in Path : HasEntry(p)' <=> HasEntry(p)
    BY <1>2 DEF HasEntry
  <2>5. \A e \in alive' : e.path \in toUpdate' \cup toAdd' /\ Exists(e.path)'
                             => e.stamp < disk'[e.path].stamp
    BY <1>2, <1>3, <1>5, <1>m, <2>1 DEF IInv, LoadedInv, Exists, files
  <2>6. /\ \A p \in toUpdate' : HasEntry(p)'
        /\ \A p \in toAdd' : ~HasEntry(p)'
    BY <1>2, <1>5 DEF IInv, LoadedInv, HasEntry
  <2>7. /\ \A u \in updatedInstances' : HasEntry(u.path)' /\ u.path \notin toUpdate'
                                           /\ u \notin m_plugins'
        /\ \A u \in updatedInstances', e \in m_plugins' : u.path = e.path => e.stamp < u.stamp
        /\ \A u, v \in updatedInstances' : u.path = v.path => u = v
    BY <1>2, <1>3, <1>5, <1>6, <1>m, <2>2, <2>3 DEF IInv, LoadedInv, HasEntry
  <2>8. /\ \A n \in newInstances' : ~HasEntry(n.path)' /\ n.path \notin toAdd'
        /\ \A m, n \in newInstances' : m.path = n.path => m = n
    BY <1>2, <1>3, <1>5, <1>m, <2>3 DEF IInv, LoadedInv, HasEntry
  <2>9. \A r \in Request : snapshot'[r] \cap (updatedInstances' \cup newInstances') = {}
    BY <1>2, <1>5, <2>2 DEF IInv, LoadedInv
  <2> QED BY <2>5, <2>6, <2>7, <2>8, <2>9 DEF LoadedInv
<1>12. CallInv'
  BY <1>2 DEF CallInv
<1>13. NoStrayCopy' /\ BrokenInv'
  <2>1. CopiesOf(alive') = CopiesOf(alive) \cup {CallCopy}
    BY <1>2, MadeFacts, CopiesOfOneMore
  <2>2. staging' = CopiesOf(alive') \cup broken' /\ load' = Idle
    BY <1>2, <2>1, MadeFacts
  <2>3. broken' \cap CopiesOf(alive') = {}
    BY <1>2, <2>1, MadeFacts DEF BrokenInv, IInv
  <2> QED BY <2>2, <2>3 DEF NoStrayCopy, BrokenInv
<1>14. ToldInv'
  BY <1>2 DEF IInv, ToldInv, OfType
<1> QED BY <1>8, <1>9, <1>10, <1>11, <1>12, <1>13, <1>14 DEF IInv

LEMMA CallSafe ==
    ASSUME TypeOK, IInv, LoadStep PROVE IInv'
<1>1. CASE Open
  <2>1. Loaded(Made) \/ LoadFails(Made) \/ LoadThrows(Made)
    BY <1>1 DEF Open, Made
  <2> QED BY <1>1, <2>1, LoadedSafe, LoadFailsSafe, LoadThrowsSafe
<1> QED BY <1>1, BeginSafe, FingerprintSafe, CopySafe, CompareSafe, RecordSafe DEF LoadStep

-----------------------------------------------------------------------------
(* The main thread and the requests *)

LEMMA PublishSafe ==
    ASSUME TypeOK, IInv, Publish PROVE IInv'
<1> USE DEF IInv, files, scan, copies, StartWatching
<1>0. toUpdate = {} /\ toAdd = {} /\ load = Idle /\ m_plugins = {} /\ updatedInstances = {}
  BY DEF Publish, AllLoaded, PhaseInv
<1>1. PhaseInv'
  BY <1>0 DEF Publish, PhaseInv, Loading
<1>2. StampInv'
  BY DEF Publish, StampInv, Exists
<1>3. EntryInv'
  <2>1. Held' = Held /\ OldOnes' = OldOnes
    BY <1>0 DEF Publish, Held, OldOnes
  <2>2. \A e, f \in m_plugins' : e.path = f.path => e = f
    BY DEF Publish, LoadedInv
  <2> QED BY <2>1, <2>2 DEF Publish, EntryInv, Exists
<1>4. LoadedInv' /\ CallInv'
  BY <1>0 DEF Publish, LoadedInv, CallInv
<1>5. NoStrayCopy' /\ BrokenInv' /\ ToldInv'
  BY <1>0 DEF Publish, NoStrayCopy, BrokenInv, ToldInv
<1> QED BY <1>1, <1>2, <1>3, <1>4, <1>5

LEMMA EndSafe ==
    ASSUME TypeOK, IInv, WatchEnds \/ ClearWatching PROVE IInv'
<1> USE DEF IInv, WatchEnds, ClearWatching, files, scan, instances, copies
<1>1. PhaseInv'
  BY DEF TypeOK, PhaseInv, Loading
<1>2. StampInv' /\ EntryInv'
  BY DEF StampInv, EntryInv, Exists, Held, OldOnes
<1>3. LoadedInv' /\ CallInv'
  BY DEF LoadedInv, CallInv, HasEntry, Exists
<1>4. NoStrayCopy' /\ BrokenInv' /\ ToldInv'
  BY DEF NoStrayCopy, BrokenInv, ToldInv
<1> QED BY <1>1, <1>2, <1>3, <1>4

\* Destructors disturb nothing but the entries that die.
LEMMA DestroySafe ==
    ASSUME TypeOK, IInv, NEW kept, DestroyUnheld(kept), Held' \subseteq kept, Held' \subseteq alive,
           UNCHANGED <<files, m_plugins, currentFiles, instances, toUpdate, toAdd, load>>,
           phase' = "listed" => phase = "listed",
           \A r \in Request : snapshot'[r] \subseteq snapshot[r]
    PROVE  StampInv' /\ EntryInv' /\ LoadedInv' /\ CallInv' /\ NoStrayCopy' /\ BrokenInv'
<1> USE DEF IInv, files, instances
<1>0. alive' \subseteq alive /\ Held' \subseteq alive' /\ OldOnes' \subseteq OldOnes /\ broken' = broken
  BY DEF DestroyUnheld, Destroy, OldOnes
<1>1. StampInv'
  BY DEF StampInv, Exists
<1>2. EntryInv'
  BY <1>0 DEF EntryInv, Exists
<1>3. LoadedInv'
  BY <1>0 DEF LoadedInv, HasEntry, Exists
<1>4. CallInv'
  BY <1>0 DEF CallInv, Exists
<1>5. NoStrayCopy' /\ BrokenInv'
  <2>1. load # Idle => load \in Calls
    BY DEF TypeOK
  <2> QED BY <2>1, DestroyExact DEF DestroyUnheld
<1> QED BY <1>1, <1>2, <1>3, <1>4, <1>5

LEMMA ServeSafe ==
    ASSUME TypeOK, IInv, NEW r \in Request, GetPluginsSnapshot(r) \/ ReleaseSnapshot(r)
    PROVE  IInv'
<1> USE DEF IInv
<1>1. CASE GetPluginsSnapshot(r)
  <2> USE <1>1 DEF GetPluginsSnapshot, files, scan, instances, copies
  <2>1. PhaseInv' /\ StampInv'
    BY DEF PhaseInv, StampInv, Exists, Loading
  <2>2. Held' = Held /\ OldOnes' = OldOnes
    <3>1. \A q \in Request : snapshot'[q] = IF q = r THEN m_plugins ELSE snapshot[q]
      BY DEF TypeOK
    <3>2. snapshot[r] = {}
      OBVIOUS
    <3> QED BY <3>1, <3>2 DEF Held, OldOnes
  <2>3. EntryInv'
    BY <2>2 DEF EntryInv, Exists
  <2>4. LoadedInv' /\ CallInv' /\ NoStrayCopy' /\ BrokenInv' /\ ToldInv'
    BY DEF LoadedInv, CallInv, NoStrayCopy, BrokenInv, ToldInv, HasEntry, Exists
  <2> QED BY <2>1, <2>3, <2>4
<1>2. CASE ReleaseSnapshot(r)
  <2> DEFINE kept == m_plugins \cup updatedInstances \cup newInstances \cup oldEntries
                        \cup UNION {snapshot[q] : q \in Request \ {r}}
  <2>1. \A q \in Request : snapshot'[q] = IF q = r THEN {} ELSE snapshot[q]
    BY <1>2 DEF TypeOK, ReleaseSnapshot
  <2>2. Held' \subseteq kept
    BY <1>2, <2>1 DEF ReleaseSnapshot, Held, scan, instances
  <2>3. kept \subseteq alive
    BY DEF EntryInv, Held
  <2>4. StampInv' /\ EntryInv' /\ LoadedInv' /\ CallInv' /\ NoStrayCopy' /\ BrokenInv'
    <3>1. DestroyUnheld(kept) /\ phase' = phase
          /\ UNCHANGED <<files, m_plugins, currentFiles, instances, toUpdate, toAdd, load>>
      BY <1>2 DEF ReleaseSnapshot, scan
    <3>2. \A q \in Request : snapshot'[q] \subseteq snapshot[q]
      BY <2>1
    <3> HIDE DEF kept
    <3> QED BY <3>1, <3>2, <2>2, <2>3, DestroySafe
  <2>5. main \notin {"unloaded"} /\ PhaseInv'
    BY <1>2, <2>1 DEF PhaseInv, ReleaseSnapshot, Loading, scan, instances, TypeOK
  <2>6. ToldInv'
    BY <1>2 DEF ReleaseSnapshot, ToldInv, scan
  <2> QED BY <2>4, <2>5, <2>6
<1> QED BY <1>1, <1>2

LEMMA UnloadSafe ==
    ASSUME TypeOK, IInv, UnloadPlugins PROVE IInv'
<1> USE DEF IInv, UnloadPlugins, Joined, files, scan, instances, copies
<1>0. /\ load = Idle /\ toUpdate = {} /\ toAdd = {} /\ updatedInstances = {}
      /\ newInstances = {} /\ oldEntries = {} /\ \A r \in Request : snapshot[r] = {}
      /\ phase = "ended"
  BY DEF PhaseInv, Loading
<1>1. staging = CopiesOf(alive) \cup broken /\ broken \cap CopiesOf(alive) = {}
  BY <1>0 DEF NoStrayCopy, BrokenInv
<1>2. alive' = {} /\ staging' = broken /\ broken' = broken /\ Held' = {}
  BY <1>0, <1>1 DEF DestroyUnheld, Destroy, Held
<1>3. PhaseInv' /\ StampInv'
  BY <1>0, <1>2 DEF PhaseInv, StampInv, Exists, Loading
<1>4. EntryInv' /\ LoadedInv' /\ CallInv'
  BY <1>0, <1>2 DEF EntryInv, OldOnes, LoadedInv, CallInv
<1>5. NoStrayCopy' /\ BrokenInv' /\ ToldInv'
  BY <1>0, <1>2 DEF NoStrayCopy, BrokenInv, CopiesOf, ToldInv
<1> QED BY <1>3, <1>4, <1>5

-----------------------------------------------------------------------------
(* A scan *)

LEMMA ListSafe ==
    ASSUME TypeOK, IInv, ListFiles PROVE IInv'
<1> USE DEF IInv, ListFiles, files, instances, copies
<1>0. phase = "asleep" /\ phase' = "listed" /\ \A p \in Path : currentFiles'[p] = disk[p].stamp
  OBVIOUS
<1>1. PhaseInv'
  BY DEF PhaseInv, Loading
<1>2. StampInv'
  <2>1. \A p \in Path : disk[p].stamp \in Nat
    BY StampType
  <2> QED BY <1>0, <2>1 DEF StampInv, Exists
<1>3. EntryInv'
  <2>1. Held' = Held /\ OldOnes' = OldOnes /\ m_plugins \subseteq alive
    BY DEF Held, OldOnes, EntryInv
  <2>2. \A e \in m_plugins : currentFiles'[e.path] # None => e.stamp <= currentFiles'[e.path]
    BY <1>0, <2>1, StampType DEF EntryInv, TypeOK, Entry
  <2> QED BY <2>1, <2>2 DEF EntryInv, Exists
<1>4. LoadedInv' /\ CallInv'
  BY DEF PhaseInv, LoadedInv, CallInv, Exists, Loading, HasEntry
<1>5. NoStrayCopy' /\ BrokenInv' /\ ToldInv'
  BY DEF NoStrayCopy, BrokenInv, ToldInv
<1> QED BY <1>1, <1>2, <1>3, <1>4, <1>5

LEMMA AnalyseSafe ==
    ASSUME TypeOK, IInv, Analyse PROVE IInv'
<1> USE DEF IInv, Analyse, files, instances, copies
<1>0. load = Idle /\ updatedInstances = {} /\ newInstances = {} /\ phase = "listed"
  BY DEF PhaseInv, Loading
<1>1. PhaseInv'
  <2>1. phase' = "asleep" => toUpdate' = {} /\ toAdd' = {}
    OBVIOUS
  <2> QED BY <2>1 DEF PhaseInv, Loading
<1>2. StampInv'
  BY DEF StampInv, Exists
<1>3. EntryInv'
  <2>1. Held' = Held /\ OldOnes' = OldOnes /\ m_plugins \subseteq alive
    BY DEF Held, OldOnes, EntryInv
  <2> QED BY <2>1 DEF EntryInv, Exists
<1>4. LoadedInv'
  <2>1. /\ \A p \in toUpdate' : HasEntry(p)'
        /\ \A p \in toAdd' : ~HasEntry(p)'
    BY DEF PathsToUpdate, PathsToAdd, HasEntry
  <2>2. ASSUME NEW e \in alive, e.path \in toUpdate' \cup toAdd', Exists(e.path)
        PROVE  e.stamp < disk[e.path].stamp
    <3>1. /\ e.path \in Path /\ e.stamp \in Nat /\ disk[e.path].stamp \in Nat
          /\ currentFiles[e.path] \in Nat
          /\ currentFiles[e.path] <= disk[e.path].stamp
      BY <1>0, <2>2, StampType DEF TypeOK, Entry, StampInv
    <3>2. CASE e \in OldOnes
      BY <2>2, <3>2 DEF EntryInv
    <3>3. CASE e \in m_plugins
      <4>1. e.path \in PathsToUpdate
        BY <2>1, <2>2, <3>3 DEF HasEntry
      <4>2. PICK f \in m_plugins : /\ e.path = f.path /\ Listed(f.path)
                                   /\ f.stamp # currentFiles[f.path]
        BY <4>1 DEF PathsToUpdate
      <4>3. e = f
        BY <3>3, <4>2 DEF EntryInv
      <4> QED BY <1>0, <3>1, <3>3, <4>2, <4>3 DEF EntryInv, Listed
    <3> QED BY <1>0, <3>2, <3>3 DEF OldOnes
  <2> QED BY <1>0, <2>1, <2>2 DEF LoadedInv, Exists
<1>5. CallInv' /\ NoStrayCopy' /\ BrokenInv' /\ ToldInv'
  BY <1>0 DEF CallInv, NoStrayCopy, BrokenInv, ToldInv
<1> QED BY <1>1, <1>2, <1>3, <1>4, <1>5

LEMMA SettleSafe ==
    ASSUME TypeOK, IInv, ForgetDeleted \/ Announce PROVE IInv'
<1> USE DEF IInv, ForgetDeleted, Announce, files, scan, instances, copies
<1>1. PhaseInv'
  BY DEF PhaseInv, Loading
<1>2. StampInv' /\ EntryInv'
  BY DEF StampInv, EntryInv, Exists, Held, OldOnes
<1>3. LoadedInv' /\ CallInv'
  BY DEF LoadedInv, CallInv, HasEntry, Exists
<1>4. NoStrayCopy' /\ BrokenInv' /\ ToldInv'
  BY DEF NoStrayCopy, BrokenInv, ToldInv, OfType
<1> QED BY <1>1, <1>2, <1>3, <1>4

LEMMA ClearOldSafe ==
    ASSUME TypeOK, IInv, ClearOld PROVE IInv'
<1> USE DEF IInv, ClearOld, files, instances
<1>0. /\ load = Idle /\ updatedInstances = {} /\ newInstances = {} /\ phase = "swapped"
  BY DEF PhaseInv, Loading
<1>1. Held' \subseteq StillHeld /\ Held' \subseteq Held
  BY <1>0 DEF Held, StillHeld
<1>2. Held' \subseteq alive
  BY <1>1 DEF EntryInv
<1>3. StampInv' /\ EntryInv' /\ LoadedInv' /\ CallInv' /\ NoStrayCopy' /\ BrokenInv'
  BY <1>1, <1>2, DestroySafe
<1>4. PhaseInv' /\ ToldInv'
  BY DEF PhaseInv, ToldInv, Loading
<1> QED BY <1>3, <1>4

\* What is reloaded goes in, and only it takes anything off the list.
LEMMA SwapFacts ==
    ASSUME TypeOK, IInv, Swap
    PROVE  /\ load = Idle /\ toUpdate = {} /\ toAdd = {}
           /\ Replacing = updatedInstances
           /\ DestroyUnheld(Held)
           /\ m_plugins' = (m_plugins \ (Replaced \cup Removed)) \cup updatedInstances
                               \cup newInstances
           /\ Held' \subseteq Held
<1> USE DEF Swap, IInv
<1>1. load = Idle /\ toUpdate = {} /\ toAdd = {}
  BY DEF AllLoaded
<1>2. Replacing = updatedInstances
  BY DEF LoadedInv, Replacing
<1>3. Held \ (updatedInstances \ Replacing) = Held
  BY <1>2
<1>4. m_plugins' \cup oldEntries' \subseteq m_plugins \cup updatedInstances \cup newInstances
  BY <1>2 DEF Replaced, Removed
<1>5. Held' \subseteq Held
  BY <1>4 DEF Held
<1> QED BY <1>1, <1>2, <1>3, <1>5

LEMMA SwapSafe ==
    ASSUME TypeOK, IInv, Swap PROVE IInv'
<1> USE DEF IInv
<1>0. /\ phase = "reloading" /\ phase' = "swapped" /\ updatedInstances' = {} /\ newInstances' = {}
      /\ oldEntries' = Replaced \cup Removed /\ marked' = TypesChanged
      /\ UNCHANGED <<files, m_watching, currentFiles, toUpdate, toAdd, load, snapshot, main, told>>
  BY DEF Swap
<1>1. /\ alive' \subseteq alive /\ Held' \subseteq alive' /\ Held \subseteq alive
  BY SwapFacts DEF DestroyUnheld, Destroy, EntryInv
<1>2. PhaseInv'
  BY <1>0, SwapFacts DEF PhaseInv, Loading
<1>3. StampInv'
  BY <1>0 DEF StampInv, Exists, files
<1>4. /\ m_plugins \subseteq alive /\ updatedInstances \subseteq alive /\ newInstances \subseteq alive
      /\ \A e \in alive : e.path \in Path /\ e.stamp \in Nat
      /\ \A p \in Path : disk[p].stamp \in Nat
  BY <1>1, StampType DEF Held, TypeOK, Entry
<1>5. EntryInv'
  <2>1. ASSUME NEW e \in OldOnes', Exists(e.path) PROVE e.stamp < disk[e.path].stamp
    <3>1. e \in alive /\ (e \in OldOnes \/ e \in Replaced \/ e \in Removed)
      <4>1. e \in alive' /\ e \notin m_plugins'
        BY DEF OldOnes
      <4>2. CASE e \in m_plugins
        BY <1>1, <4>1, <4>2, SwapFacts
      <4>3. CASE e \notin m_plugins
        BY <1>1, <4>1, <4>3, SwapFacts DEF OldOnes
      <4> QED BY <4>2, <4>3
    <3>2. CASE e \in OldOnes
      BY <2>1, <3>2 DEF EntryInv
    <3>3. CASE e \in Replaced
      <4>1. PICK u \in updatedInstances : u.path = e.path
        BY <3>3 DEF Replaced
      <4>2. e \in m_plugins
        BY <3>3 DEF Replaced
      <4>3. e.stamp < u.stamp
        BY <4>1, <4>2 DEF LoadedInv
      <4>4. u.stamp <= disk[u.path].stamp
        BY <1>4, <2>1, <4>1 DEF EntryInv
      <4> QED BY <1>4, <3>1, <4>1, <4>3, <4>4
    <3>4. CASE e \in Removed
      BY <2>1, <3>4 DEF Removed
    <3> QED BY <3>1, <3>2, <3>3, <3>4
  <2>2. ASSUME NEW e \in m_plugins', NEW f \in m_plugins', e.path = f.path PROVE e = f
    <3>1. \A g \in m_plugins' : \/ g \in m_plugins /\ ~\E u \in updatedInstances : u.path = g.path
                                \/ g \in updatedInstances
                                \/ g \in newInstances
      BY SwapFacts DEF Replaced
    <3> QED BY <2>2, <3>1 DEF LoadedInv, EntryInv, HasEntry
  <2>3. \A e \in alive' : /\ e.stamp = e.runs.stamp /\ e.stamp <= edits'
                          /\ Exists(e.path)' => e.stamp <= disk'[e.path].stamp
    BY <1>0, <1>1 DEF EntryInv, files, Exists
  <2>4. \A e, f \in alive' : e.path = f.path /\ e.stamp = f.stamp => e = f
    BY <1>1 DEF EntryInv
  <2>5. \A e \in OldOnes' : Exists(e.path)' => e.stamp < disk'[e.path].stamp
    BY <1>0, <2>1 DEF files, Exists
  <2> QED BY <1>0, <1>1, <2>2, <2>3, <2>4, <2>5 DEF EntryInv
<1>6. LoadedInv' /\ CallInv'
  <2>1. load' = Idle /\ toUpdate' = {} /\ toAdd' = {}
    BY <1>0, SwapFacts
  <2> QED BY <1>0, <2>1 DEF LoadedInv, CallInv
<1>7. NoStrayCopy' /\ BrokenInv'
  <2>1. Destroy(alive \ Held) /\ load = Idle /\ load' = load
    BY <1>0, SwapFacts DEF DestroyUnheld
  <2> QED BY <2>1, DestroyExact
<1>8. ToldInv'
  <2>1. ASSUME NEW t \in Type, t \notin marked' PROVE OfType(m_plugins', t) = OfType(m_plugins, t)
    <3>1. \A e \in Replaced \cup Removed \cup updatedInstances \cup newInstances : e.runs.gives # t
      BY <1>0, <2>1, SwapFacts DEF TypesChanged, TypesOf
    <3> QED BY <3>1, SwapFacts DEF OfType
  <2> QED BY <1>0, <2>1 DEF ToldInv
<1> QED BY <1>2, <1>3, <1>5, <1>6, <1>7, <1>8

-----------------------------------------------------------------------------
(* The invariant *)

LEMMA InitSafe == Init => IInv
<1> SUFFICES ASSUME Init PROVE IInv
  OBVIOUS
<1>0. TypeOK
  BY InitTyped
<1>1. PhaseInv
  BY DEF Init, PhaseInv, Loading
<1>2. StampInv
  <2>1. ASSUME NEW p \in Path PROVE disk[p].stamp <= edits
    <3>1. disk[p] = Absent \/ (disk[p] \in Content /\ disk[p].stamp = 1)
      BY DEF Init
    <3>2. CASE disk[p] = Absent
      BY <3>2 DEF Init
    <3>3. CASE disk[p] \in Content /\ disk[p].stamp = 1
      BY <3>3 DEF Init, Content
    <3> QED BY <3>1, <3>2, <3>3
  <2> QED BY <1>0, <2>1, StampType DEF Init, StampInv
<1>3. EntryInv
  BY DEF Init, EntryInv, Held, OldOnes
<1>4. LoadedInv /\ CallInv /\ NoStrayCopy /\ BrokenInv
  BY DEF Init, LoadedInv, HasEntry, CallInv, NoStrayCopy, BrokenInv, CopiesOf
<1>5. ToldInv
  BY DEF Init, ToldInv, OfType
<1> QED BY <1>1, <1>2, <1>3, <1>4, <1>5 DEF IInv

LEMMA Inductive == TypeOK /\ IInv /\ [Next]_vars => (TypeOK /\ IInv)'
<1> SUFFICES ASSUME TypeOK, IInv, [Next]_vars PROVE TypeOK' /\ IInv'
  OBVIOUS
<1>1. TypeOK'
  BY Typing DEF IInv
<1>2. ASSUME ScanStep PROVE IInv'
  BY <1>2, ListSafe, AnalyseSafe, SwapSafe, ClearOldSafe, SettleSafe DEF ScanStep
<1>3. CASE UNCHANGED vars
  <2>1. PhaseInv' /\ StampInv'
    BY <1>3 DEF vars, IInv, PhaseInv, StampInv, Exists, Loading
  <2>2. EntryInv' /\ LoadedInv'
    BY <1>3 DEF vars, IInv, EntryInv, OldOnes, LoadedInv, Exists, Held, HasEntry
  <2>3. CallInv' /\ NoStrayCopy' /\ BrokenInv' /\ ToldInv'
    BY <1>3 DEF vars, IInv, CallInv, Exists, NoStrayCopy, BrokenInv, CopiesOf, ToldInv, OfType
  <2> QED BY <1>1, <2>1, <2>2, <2>3 DEF IInv
<1>4. ASSUME Edit PROVE IInv'
  BY <1>4, EditSafe DEF Edit
<1>5. ASSUME Serve PROVE IInv'
  BY <1>5, ServeSafe DEF Serve
<1>6. ASSUME Publish \/ WatchEnds \/ ClearWatching \/ UnloadPlugins PROVE IInv'
  BY <1>6, PublishSafe, EndSafe, UnloadSafe
<1>7. ASSUME LoadStep PROVE IInv'
  BY <1>7, CallSafe
<1>8. CASE Next
  BY <1>1, <1>2, <1>4, <1>5, <1>6, <1>7, <1>8 DEF Next
<1> QED BY <1>1, <1>3, <1>8

-----------------------------------------------------------------------------
(* The theorems *)

\* Every variable keeps its type, and what the proofs rest on always holds.
THEOREM Invariant == Spec => [](TypeOK /\ IInv)
<1>1. Init => TypeOK /\ IInv
  BY InitTyped, InitSafe
<1> QED BY <1>1, Inductive, PTL DEF Spec

\* The variables of the loader keep their types.
THEOREM TypeCorrect == Spec => []TypeOK
BY Invariant, PTL

\* There is never a second instance of a plugin on the list, not even one of the
\* same content: two copies of it are two entries (ScanForChanges:262-287, 341-373).
THEOREM OneInstance == Spec => []OneEntryPerPath
<1>1. IInv => OneEntryPerPath
  BY DEF IInv, EntryInv, OneEntryPerPath
<1> QED BY <1>1, Invariant, PTL

\* However a file changes around its copy, an entry is compared by the stamp of
\* what it runs (CreatePluginInstance:49-85).
THEOREM FingerprintOfContent == Spec => []RunsItsFingerprint
<1>1. IInv => RunsItsFingerprint
  BY DEF IInv, EntryInv, RunsItsFingerprint
<1> QED BY <1>1, Invariant, PTL

\* Nothing a request or the list can reach is destroyed or loses its copy
\* (ScanForChanges:375, GetPluginsSnapshot:179-182).
THEOREM UseIsSafe == Spec => []InUseIsAlive
<1>1. IInv => InUseIsAlive
  <2> SUFFICES ASSUME IInv PROVE InUseIsAlive
    OBVIOUS
  <2>1. Held \subseteq alive
    BY DEF IInv, EntryInv
  <2>2. CopiesOf(alive) \subseteq staging
    BY DEF IInv, NoStrayCopy
  <2> QED BY <2>1, <2>2 DEF InUseIsAlive, CopiesOf
<1> QED BY <1>1, Invariant, PTL

\* But for a copy that fails half way, no way out of CreatePluginInstance and no
\* destructor leaves a copy behind, and none takes one that is in use
\* (CreatePluginInstance:36-92, ~PluginEntry:54-57).
THEOREM StagingExact == Spec => []NoStrayCopy
<1>1. IInv => NoStrayCopy
  BY DEF IInv
<1> QED BY <1>1, Invariant, PTL

\* Between two scans the clients know the list (ScanForChanges:334-349, 386-388).
THEOREM ClientsKnow == Spec => []ChangesAnnounced
<1>1. IInv => ChangesAnnounced
  BY DEF IInv, ToldInv, ChangesAnnounced
<1> QED BY <1>1, Invariant, PTL

\* After UnloadPlugins no instance is left, and no copy but those that failed half
\* way (UnloadPlugins:169-177).
THEOREM NothingLeft == Spec => []UnloadedForGood
<1>1. IInv => UnloadedForGood
  BY DEF IInv, PhaseInv, UnloadedForGood
<1> QED BY <1>1, Invariant, PTL

\* A scan takes an entry off the list only for a successor with a later content, or
\* because its file is gone (ScanForChanges:294-309, 341-365).
THEOREM OldIsKept == Spec => BrokenUpdateKeepsOld
<1> DEFINE Kept == \A e \in m_plugins \ m_plugins' :
                      \/ main' = "unloaded"
                      \/ ~Exists(e.path)
                      \/ \E f \in m_plugins' : f.path = e.path /\ e.runs.stamp < f.runs.stamp
<1>1. TypeOK /\ IInv /\ [Next]_vars => [Kept]_vars
  <2> SUFFICES ASSUME TypeOK, IInv, Next, NEW e \in m_plugins \ m_plugins',
                      main' # "unloaded", Exists(e.path)
               PROVE  \E f \in m_plugins' : f.path = e.path /\ e.runs.stamp < f.runs.stamp
    OBVIOUS
  <2>1. CASE Swap
    <3>1. e \in Replaced
      BY <2>1, SwapFacts DEF Removed
    <3>2. PICK u \in updatedInstances : u.path = e.path
      BY <3>1 DEF Replaced
    <3>3. u \in m_plugins' /\ e.stamp < u.stamp
      BY <2>1, <3>2, SwapFacts DEF IInv, LoadedInv
    <3>4. e.runs.stamp = e.stamp /\ u.runs.stamp = u.stamp
      BY <3>2 DEF IInv, EntryInv, Held
    <3> QED BY <3>2, <3>3, <3>4
  <2>2. CASE Publish
    BY <2>2 DEF Publish, IInv, PhaseInv
  <2>3. CASE UnloadPlugins
    BY <2>3 DEF UnloadPlugins
  <2>4. CASE ~(Swap \/ Publish \/ UnloadPlugins)
    <3>1. m_plugins' = m_plugins
      <4>1. CASE Edit \/ Serve
        BY <4>1 DEF Edit, Serve, Write, Delete, GetPluginsSnapshot, ReleaseSnapshot
      <4>2. CASE LoadStep
        BY <4>2 DEF LoadStep, Begin, Fingerprint, CopyToStaging, Compare, Open, RecordFailure
      <4>3. CASE ScanStep \/ WatchEnds \/ ClearWatching
        BY <2>4, <4>3 DEF ScanStep, ListFiles, Analyse, ClearOld, ForgetDeleted, Announce,
                          WatchEnds, ClearWatching
      <4> QED BY <2>4, <4>1, <4>2, <4>3 DEF Next
    <3> QED BY <3>1
  <2> QED BY <2>1, <2>2, <2>3, <2>4
<1>2. Spec => [][Kept]_vars
  BY <1>1, Invariant, PTL DEF Spec
<1> QED BY <1>2 DEF BrokenUpdateKeepsOld

================================================================================
