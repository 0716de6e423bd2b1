---------------------------- MODULE ProjectFiles ----------------------------
(***************************************************************************)
(* generate_project (app/generate.py): calls that write project directories *)
(* on one file system, each file system operation a step.  Calls are the    *)
(* requests of the server (worker threads) or runs of the command line.     *)
(*                                                                         *)
(* A file's content is the call that wrote it; a manifest also says whether *)
(* it records an error.  The build itself (pipeline, verifier, emitters)    *)
(* only succeeds or raises here.  Where the disk fails, an operation raises *)
(* OSError, and a write may have left part of its file (Torn).              *)
(***************************************************************************)
EXTENDS Naturals, FiniteSets, Sequences, Functions, SequencesExt

CONSTANTS Calls,
          Setups,       \* how the calls are made: records of
                        \*   dir      call -> project directory (slug of the name)
                        \*   forced   calls with force=True
                        \*   serial   a call starts only when no other runs
                        \*   crashes  the process may die at any point
                        \*   faults   operations on files may fail
          FilesOf,      \* call -> the files it puts, in order, vendors' included
          Torn,         \* what a write that failed has left of a file
          None

VARIABLE setup          \* fixed

Manifest == "manifest"
Dir == setup.dir
Forced == setup.forced
Dirs == {Dir[c] : c \in Calls}
Names == UNION {ToSet(FilesOf[c]) : c \in Calls}

FilesAssumption ==
  /\ \A s \in Setups : /\ DOMAIN s.dir = Calls /\ s.forced \subseteq Calls
                        /\ s.serial \in BOOLEAN /\ s.crashes \in BOOLEAN
                        /\ s.faults \in BOOLEAN
  /\ \A c \in Calls : FilesOf[c] \in Seq(Names) /\ IsInjective(FilesOf[c])
  /\ Manifest \notin Names /\ None \notin Calls /\ Torn \notin Calls /\ Torn # None

VARIABLES pc,           \* call -> where it is
          exists,       \* directories that exist
          disk,         \* directory -> file -> the call that wrote it, Torn, or None
          failed,       \* directory -> its manifest records an error
          entries,      \* call -> what its rmtree still has to unlink
          written       \* call -> number of files put

moving == <<pc, exists, disk, failed, entries, written>>
filesVars == <<setup, moving>>

(* "uncleared": raised by rmtree, which may have removed part of the project *)
Final == {"refused", "ok", "error", "raised", "uncleared", "killed"}
Running == {c \in Calls : pc[c] \notin Final \cup {"idle"}}
Present(d) == {n \in Names \cup {Manifest} : disk[d][n] # None}

Init ==
  /\ setup \in Setups
  /\ pc = [c \in Calls |-> "idle"]
  /\ exists = {}
  /\ disk = [d \in Dirs |-> [n \in Names \cup {Manifest} |-> None]]
  /\ failed = [d \in Dirs |-> FALSE]
  /\ entries = [c \in Calls |-> {}]
  /\ written = [c \in Calls |-> 0]

Goto(c, l) == pc' = [pc EXCEPT ![c] = l]
WriteFile(c, n) == disk' = [disk EXCEPT ![Dir[c]][n] = c]

(* Mutation: an existing project is only noticed when it is complete. *)
MayBuildOver(c) == c \in Forced \/ disk[Dir[c]][Manifest] = None

(* the check of an existing, non-empty directory *)
MayBuild(c) == c \in Forced \/ Dir[c] \notin exists \/ Present(Dir[c]) = {}

Start(c) ==
  /\ pc[c] = "idle"
  /\ setup.serial => Running = {}
  /\ Goto(c, IF MayBuild(c) THEN "build" ELSE "refused")
  /\ UNCHANGED <<exists, disk, failed, entries, written>>

(* the build succeeds, raises GenerationError or ValueError, or something else *)
Build(c) ==
  /\ pc[c] = "build"
  /\ \/ Goto(c, "clear")
     \/ Goto(c, "record")
     \/ Goto(c, "raised")
  /\ UNCHANGED <<exists, disk, failed, entries, written>>

(* the error manifest, beside whatever the directory holds; then the exception goes on *)
RecordMkdir(c) ==
  /\ pc[c] = "record"
  /\ exists' = exists \cup {Dir[c]}
  /\ Goto(c, "record_write")
  /\ UNCHANGED <<disk, failed, entries, written>>

RecordWrite(c) ==
  /\ pc[c] = "record_write"
  /\ IF Dir[c] \in exists
     THEN WriteFile(c, Manifest) /\ failed' = [failed EXCEPT ![Dir[c]] = TRUE] /\ Goto(c, "error")
     ELSE Goto(c, "raised") /\ UNCHANGED <<disk, failed>>
  /\ UNCHANGED <<exists, entries, written>>

(* rmtree lists the directory, then unlinks what it listed in the order of the listing *)
Clear(c) ==
  /\ pc[c] = "clear"
  /\ IF Dir[c] \in exists /\ c \in Forced
     THEN entries' = [entries EXCEPT ![c] = Present(Dir[c])] /\ Goto(c, "unlink")
     ELSE Goto(c, "mkdir") /\ UNCHANGED entries
  /\ UNCHANGED <<exists, disk, failed, written>>

(* a file somebody else has unlinked raises, or is passed over (newer interpreters) *)
Unlink(c) ==
  /\ pc[c] = "unlink"
  /\ \E n \in entries[c] :
       /\ entries' = [entries EXCEPT ![c] = @ \ {n}]
       /\ disk' = [disk EXCEPT ![Dir[c]][n] = None]
       /\ failed' = [failed EXCEPT ![Dir[c]] = IF n = Manifest THEN FALSE ELSE @]
       /\ \/ UNCHANGED pc
          \/ disk[Dir[c]][n] = None /\ Goto(c, "uncleared")
  /\ UNCHANGED <<exists, written>>

(* rmdir fails when the directory is not empty, or gone *)
RmDir(c) ==
  /\ pc[c] = "unlink" /\ entries[c] = {}
  /\ \/ Dir[c] \in exists /\ Present(Dir[c]) = {} /\ exists' = exists \ {Dir[c]} /\ Goto(c, "mkdir")
     \/ (Dir[c] \notin exists \/ Present(Dir[c]) # {}) /\ Goto(c, "uncleared") /\ UNCHANGED exists
  /\ UNCHANGED <<disk, failed, entries, written>>

MkDir(c) ==
  /\ pc[c] = "mkdir"
  /\ exists' = exists \cup {Dir[c]}
  /\ Goto(c, "put")
  /\ UNCHANGED <<disk, failed, entries, written>>

(* Mutation: the manifest is written once the specification and the program are. *)
WriteManifestEarly(c) ==
  /\ pc[c] = "put" /\ written[c] >= 1
  /\ IF Dir[c] \in exists
     THEN WriteFile(c, Manifest) /\ failed' = [failed EXCEPT ![Dir[c]] = FALSE] /\ Goto(c, "ok")
     ELSE Goto(c, "raised") /\ UNCHANGED <<disk, failed>>
  /\ UNCHANGED <<exists, entries, written>>

(* put: makes the directory again if it is gone, writes one file *)
Put(c) ==
  /\ pc[c] = "put" /\ written[c] < Len(FilesOf[c])
  /\ exists' = exists \cup {Dir[c]}
  /\ WriteFile(c, FilesOf[c][written[c] + 1])
  /\ written' = [written EXCEPT ![c] = @ + 1]
  /\ UNCHANGED <<pc, failed, entries>>

WriteManifest(c) ==
  /\ pc[c] = "put" /\ written[c] = Len(FilesOf[c])
  /\ IF Dir[c] \in exists
     THEN WriteFile(c, Manifest) /\ failed' = [failed EXCEPT ![Dir[c]] = FALSE] /\ Goto(c, "ok")
     ELSE Goto(c, "raised") /\ UNCHANGED <<disk, failed>>
  /\ UNCHANGED <<exists, entries, written>>

MkDirFails(c) ==
  /\ setup.faults /\ pc[c] \in {"record", "mkdir"}
  /\ Goto(c, "raised")
  /\ UNCHANGED <<exists, disk, failed, entries, written>>

NextFile(c) == IF pc[c] = "put" /\ written[c] < Len(FilesOf[c])
               THEN FilesOf[c][written[c] + 1] ELSE Manifest

(* A write that fails leaves the file as it was, or part of the new one; put may have made *)
(* the directory before.                                                                   *)
WriteFails(c) ==
  /\ setup.faults /\ pc[c] \in {"record_write", "put"}
  /\ \/ UNCHANGED exists
     \/ NextFile(c) # Manifest /\ exists' = exists \cup {Dir[c]}
  /\ \/ UNCHANGED disk
     \/ Dir[c] \in exists' /\ disk' = [disk EXCEPT ![Dir[c]][NextFile(c)] = Torn]
  /\ Goto(c, "raised")
  /\ UNCHANGED <<failed, entries, written>>

(* rmtree stops at the first entry it cannot list or remove *)
RmTreeFails(c) ==
  /\ setup.faults
  /\ \/ pc[c] = "unlink"
     \/ pc[c] = "clear" /\ Dir[c] \in exists /\ c \in Forced
  /\ Goto(c, "uncleared")
  /\ UNCHANGED <<exists, disk, failed, entries, written>>

(* external: the process dies with everything that runs in it.  A file it was writing is left *)
(* as WriteFails leaves it.                                                                    *)
Crash ==
  /\ setup.crashes /\ Running # {}
  /\ pc' = [c \in Calls |-> IF c \in Running THEN "killed" ELSE pc[c]]
  /\ UNCHANGED <<exists, disk, failed, entries, written>>

Step(c) ==
  \/ Build(c) \/ RecordMkdir(c) \/ RecordWrite(c)
  \/ Clear(c) \/ Unlink(c) \/ RmDir(c) \/ MkDir(c) \/ Put(c) \/ WriteManifest(c)
  \/ MkDirFails(c) \/ WriteFails(c) \/ RmTreeFails(c)

Next ==
  /\ Crash \/ \E c \in Calls : Start(c) \/ Step(c)
  /\ UNCHANGED setup

(* A call that has begun runs on; nobody is obliged to begin one. *)
Fairness == \A c \in Calls : WF_moving(Step(c))

Spec == Init /\ [][Next]_filesVars /\ Fairness

-----------------------------------------------------------------------------
TypeOK ==
  /\ pc \in [Calls -> Final \cup {"idle", "build", "record", "record_write", "clear",
                                   "unlink", "mkdir", "put"}]
  /\ exists \subseteq Dirs
  /\ disk \in [Dirs -> [Names \cup {Manifest} -> Calls \cup {Torn, None}]]
  /\ failed \in [Dirs -> BOOLEAN]
  /\ \A c \in Calls : written[c] \in 0..Len(FilesOf[c])

Complete(d) == Present(d) \ {Manifest} = ToSet(FilesOf[disk[d][Manifest]])

(* a manifest that was written to its end and records no error *)
Signed(d) == disk[d][Manifest] \in Calls /\ ~failed[d]
ListedAreThere(d) == \A n \in ToSet(FilesOf[disk[d][Manifest]]) : disk[d][n] = disk[d][Manifest]

(* The manifest is the completion signal (generate.py:285): where there is one without an     *)
(* error, all the files it lists are there, and written by the call that wrote it, whatever   *)
(* write failed and wherever the process died.  For projects that no two calls work on.       *)
ManifestMeansComplete ==
  \A d \in Dirs :
    (\A b, c \in Calls : Dir[b] = d /\ Dir[c] = d => b = c) /\ Signed(d) => ListedAreThere(d)

(* Refuted: that the manifest is that signal in every project on which no call runs.  A       *)
(* forced call that is killed or raises inside rmtree leaves the old one beside part of the   *)
(* files.                                                                                     *)
CompletionSignal ==
  \A d \in Dirs :
    (\A c \in Calls : Dir[c] = d => c \notin Running) /\ Signed(d) => ListedAreThere(d)

(* After calls in turn that were not killed and whose rmtree did not raise, the manifest of a *)
(* project is right, and nothing of an earlier generation is left beside the files it lists   *)
(* (generate.py:243), whichever of their writes failed.                                       *)
QuietProjectsAreWhole ==
  setup.serial =>
    \A d \in Dirs :
      /\ Signed(d)
      /\ \A c \in Calls : Dir[c] = d => c \notin Running /\ pc[c] \notin {"killed", "uncleared"}
      => Complete(d) /\ \A n \in Present(d) : disk[d][n] = disk[d][Manifest]

(* Files of a project are replaced or removed only while a call with force=True works on it   *)
(* (generate.py:223): an unforced call touches no file of another one.  For calls that do not *)
(* overlap: two at once both find no project, and the second writes over the first.           *)
UnforcedCallsKeepProjects ==
  [][setup.serial =>
       \A d \in Dirs, n \in Names \cup {Manifest} :
         disk[d][n] # None /\ disk'[d][n] # disk[d][n] =>
           \E c \in Forced \cap Running : Dir[c] = d]_filesVars

(* Every call that begins ends: with its project, an error manifest, an exception, or killed. *)
CallsEnd == \A c \in Calls : pc[c] = "build" ~> pc[c] \in Final

(* What a manifest without an error promises is on the disk: all files in a project of one   *)
(* call whatever happened to it, and nothing else after calls that kept out of each other's   *)
(* way.                                                                                      *)
ProjectsAreWhole == TypeOK /\ ManifestMeansComplete /\ QuietProjectsAreWhole
=============================================================================
