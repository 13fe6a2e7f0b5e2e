---------------------------- MODULE DurableFile -----------------------------
(***************************************************************************)
(* The state file: persist::save a system call at a time and load_into,    *)
(* with calls that fail, a process that is killed and power that goes.     *)
(*                                                                         *)
(* The file system is external.  A kill leaves what is in the page cache;  *)
(* a power cut may leave an older directory, and anything at all in a file *)
(* that was never synced.  A sync carries the changes of the directory     *)
(* before it along, as a journal does.                                     *)
(*                                                                         *)
(* Abstractions.  A document is a value; the legacy ones are those whose   *)
(* speed migrate_spd changes (SpeedScale), and none is ever commanded      *)
(* (spd_max =< 35).  Torn stands for all that serde_json refuses.          *)
(***************************************************************************)
EXTENDS Naturals

CONSTANTS Documents, Migrate, Default, Missing, Torn,
          MaxSaves     \* bound: commands that are saved

Legacy == {d \in Documents : Migrate[d] # d}

ASSUME DocumentAssumption ==
  /\ Migrate \in [Documents -> Documents]
  /\ \A d \in Documents : Migrate[d] \notin Legacy
  /\ Default \in Documents \ Legacy
  /\ Missing # Torn /\ Missing \notin Documents /\ Torn \notin Documents
  /\ MaxSaves \in Nat

Contents == Documents \cup {Missing, Torn}

VARIABLES
  path,        \* what a read of the state file finds
  after,       \* what a power cut may leave there
  tmp,         \* what the temporary file holds ...
  synced,      \* ... and whether the disk has it
  pc,          \* the process: down, running, or at a call of save
  commanded,   \* the settings in memory
  draft,       \* the settings being saved
  previous,    \* history: what the last rename replaced
  kept,        \* history: what was saved last, while the power is on
  saves

disk    == <<path, after, tmp, synced>>
process == <<pc, commanded, draft>>
vars    == <<disk, process, previous, kept, saves>>

Init ==
  /\ path \in Contents /\ after = {path} /\ previous = path
  /\ tmp \in {Missing, Torn} /\ synced = FALSE
  /\ pc = "down" /\ commanded = Default /\ draft = Default
  /\ kept = Missing /\ saves = 0

-----------------------------------------------------------------------------
(* load_into, at the start of the process.                                 *)

\* Fault: a legacy document is used as it is until a command replaces it.
LoadUnmigrated ==
  /\ pc = "down" /\ path \in Documents
  /\ commanded' = path /\ pc' = "running"
  /\ UNCHANGED <<disk, draft, previous, kept, saves>>

\* A legacy document is migrated in memory and saved at once.
Load ==
  /\ pc = "down" /\ path \in Documents
  /\ commanded' = Migrate[path] /\ draft' = Migrate[path]
  /\ pc' = IF path \in Legacy THEN "create" ELSE "running"
  /\ UNCHANGED <<disk, previous, kept, saves>>

\* A missing or a corrupt document leaves the defaults, and stays until the
\* next save.
LoadNothing ==
  /\ pc = "down" /\ path \notin Documents
  /\ commanded' = Default /\ pc' = "running"
  /\ UNCHANGED <<disk, draft, previous, kept, saves>>

\* So does a document that cannot be read: it is promised no more.
LoadFails ==
  /\ pc = "down" /\ path # Missing
  /\ commanded' = Default /\ pc' = "running"
  /\ kept' = Missing
  /\ UNCHANGED <<disk, draft, previous, saves>>

-----------------------------------------------------------------------------
(* handle_command and save.                                                *)

\* A command that changes something.
Command ==
  /\ pc = "running" /\ saves < MaxSaves /\ saves' = saves + 1
  /\ draft' \in Documents \ (Legacy \cup {commanded})
  /\ pc' = "create"
  /\ UNCHANGED <<disk, commanded, previous, kept>>

\* Fault: the document itself is opened for writing.
CreateInPlace ==
  /\ pc = "create" /\ pc' = "write"
  /\ tmp' = Torn /\ synced' = FALSE
  /\ path' = Torn /\ after' = after \cup {Torn}
  /\ UNCHANGED <<commanded, draft, previous, kept, saves>>

\* File::create: a temporary file of an earlier save is emptied.
Create ==
  /\ pc = "create" /\ pc' = "write"
  /\ tmp' = Torn /\ synced' = FALSE
  /\ UNCHANGED <<path, after, commanded, draft, previous, kept, saves>>

Write ==
  /\ pc = "write" /\ pc' = "sync"
  /\ tmp' = draft
  /\ UNCHANGED <<path, after, synced, commanded, draft, previous, kept, saves>>

\* Fault: what was written is left to the operating system.
SyncForgotten ==
  /\ pc = "sync" /\ pc' = "rename"
  /\ UNCHANGED <<disk, commanded, draft, previous, kept, saves>>

Sync ==
  /\ pc = "sync" /\ pc' = "rename"
  /\ synced' = TRUE /\ after' = {path}
  /\ UNCHANGED <<path, tmp, commanded, draft, previous, kept, saves>>

\* The document is replaced; its directory is not synced.
Rename ==
  /\ pc = "rename" /\ pc' = "commit"
  /\ path' = tmp /\ tmp' = Missing
  /\ after' = after \cup {tmp} \cup (IF synced THEN {} ELSE {Torn})
  /\ previous' = path /\ kept' = draft
  /\ UNCHANGED <<synced, commanded, draft, saves>>

\* What was saved is committed to the shared state.
Commit ==
  /\ pc = "commit" /\ pc' = "running"
  /\ commanded' = draft
  /\ UNCHANGED <<disk, draft, previous, kept, saves>>

\* Fault: a command is committed whatever became of its save.
FailCommitted ==
  /\ pc \in {"create", "write", "sync", "rename"} /\ pc' = "running"
  /\ commanded' = draft
  /\ UNCHANGED <<disk, draft, previous, kept, saves>>

\* A call fails: save returns, the memory stays as it is.
Fail ==
  /\ pc \in {"create", "write", "sync", "rename"} /\ pc' = "running"
  /\ UNCHANGED <<disk, commanded, draft, previous, kept, saves>>

-----------------------------------------------------------------------------
(* What the rest of the world does.                                        *)

\* The operating system writes back what it has put off.
WriteBack ==
  /\ after' = {path}
  /\ UNCHANGED <<path, tmp, synced, process, previous, kept, saves>>

Kill ==
  /\ pc # "down" /\ pc' = "down"
  /\ UNCHANGED <<disk, commanded, draft, previous, kept, saves>>

PowerCut ==
  /\ path' \in after /\ after' = {path'} /\ previous' = path'
  /\ tmp' \in {Missing, Torn, tmp} /\ synced' = FALSE
  /\ pc' = "down" /\ kept' = Missing
  /\ UNCHANGED <<commanded, draft, saves>>

Next == \/ Load \/ LoadNothing \/ LoadFails
        \/ Command \/ Create \/ Write \/ Sync \/ Rename \/ Commit \/ Fail
        \/ WriteBack \/ Kill \/ PowerCut

Spec == Init /\ [][Next]_vars

-----------------------------------------------------------------------------
(* Properties.                                                             *)

Calls == {"create", "write", "sync", "rename"}

\* The types of the variables: what is commanded or saved is never legacy.
TypeOK ==
  /\ path \in Contents /\ after \in SUBSET Contents /\ tmp \in Contents /\ synced \in BOOLEAN
  /\ pc \in {"down", "running", "commit"} \cup Calls
  /\ commanded \in Documents \ Legacy /\ draft \in Documents \ Legacy
  /\ previous \in Contents /\ kept \in Contents /\ saves \in 0 .. MaxSaves

\* However often the process is killed, between whichever calls, and whichever
\* of them fail: what was saved last is what the file holds, and what a
\* running process has in memory is that again, a failed command's settings
\* being in neither.
KillLosesNothing ==
  kept # Missing => path = kept /\ (pc = "running" => commanded = kept)

\* A power cut undoes at most the last save, though no save syncs the
\* directory: the sync of each carries the rename of the one before.
PowerCutOneBack == after \subseteq {path, previous}

\* To its readers the file is a document that is replaced whole.
Atomic == INSTANCE AtomicDocument WITH doc <- path, offered <- after
ImplementsAtomic == Atomic!Spec

=============================================================================
