------------------------------- MODULE Bookmarks ------------------------------
(***************************************************************************)
(* BookmarkStore (bookmarks.rs) under concurrent X_SetBookmark requests,   *)
(* I/O errors, crashes and restarts.                                       *)
(*                                                                         *)
(* `set` runs under a mutex, but its file operations run on the blocking   *)
(* pool: when a client disconnects, the request's future is dropped and    *)
(* gives the mutex back, while the operation it waited for goes on.  A     *)
(* write is two steps, open-and-truncate and fill, on a file (an inode)    *)
(* that may be renamed in between.  A crash is a crash of the process, and *)
(* what it wrote stays.  Position 0 stands for no bookmark, as in `set`.   *)
(***************************************************************************)
EXTENDS Naturals

CONSTANTS
  Objects,         \* media objects of the catalog
  Positions,       \* PosSecond values, 0 among them
  Unserializable,  \* positions the toml crate may refuse (beyond i64)
  Requests,        \* X_SetBookmark requests; each is made once
  NoFile,          \* a name that stands for no file
  Windows,         \* cfg!(windows)
  Disconnects,     \* whether clients may go away before the answer
  MaxCrashes       \* bound: crashes

ASSUME PositionsAssumption == 0 \in Positions
ASSUME NoFileAssumption == NoFile \notin Requests
ASSUME SwitchAssumption == Windows \in BOOLEAN /\ Disconnects \in BOOLEAN

VARIABLES
  server,    \* "up" or "down"
  memory,    \* BookmarkFile::positions
  phase,     \* how far a request is
  object, position,  \* what it asks for
  text,      \* the state it serialized
  job,       \* its operation on the blocking pool
  tmp, dest, \* the files bookmarks.toml.tmp and bookmarks.toml name
  inode,     \* their contents; a file is named after the request that made it
  crashes,
  calm,      \* history: "yes" until a client goes away or a rename is refused
  acked,     \* history: the position last acknowledged
  since      \* history: positions put in memory later, not acknowledged

requestVars == <<phase, object, position, text>>
fileVars == <<tmp, dest, inode>>
history == <<acked, since>>
vars == <<server, memory, requestVars, job, fileVars, crashes, calm, history>>

Maps == [Objects -> Positions]
NoBookmarks == [o \in Objects |-> 0]

Blank == [state |-> "blank", map |-> NoBookmarks]
Torn == [state |-> "torn", map |-> NoBookmarks]
Whole(m) == [state |-> "whole", map |-> m]
Contents == [state: {"blank", "torn", "whole"}, map: Maps]

Ops == {"none", "open", "fill", "rename", "remove", "rename again"}
Jobs == [op: Ops, file: Requests \cup {NoFile}]
NoJob == [op |-> "none", file |-> NoFile]

Phases == {"new", "working", "acked", "failed", "gone"}

TypeOK ==
  /\ server \in {"up", "down"}
  /\ memory \in Maps
  /\ phase \in [Requests -> Phases]
  /\ object \in [Requests -> Objects]
  /\ position \in [Requests -> Positions]
  /\ text \in [Requests -> Maps]
  /\ job \in [Requests -> Jobs]
  /\ tmp \in Requests \cup {NoFile}
  /\ dest \in Requests \cup {NoFile}
  /\ inode \in [Requests -> Contents]
  /\ crashes \in Nat
  /\ calm \in {"yes", "no"}
  /\ acked \in Maps
  /\ since \in [Objects -> SUBSET Positions]
  \* the mutex has one holder
  /\ \A r, s \in Requests : phase[r] = "working" /\ phase[s] = "working" => r = s

-------------------------------------------------------------------------------
(* Slips a maintainer could make; the runs show that each is noticed.      *)

Bug_InPlace(r) == IF dest = NoFile THEN r ELSE dest

Bug_Unlocked == TRUE

Bug_ForgetAtStart(file) == NoBookmarks

-------------------------------------------------------------------------------
(* The pieces of `set` and `load`.                                         *)

\* state.lock(): the guard lives as long as the request's future.
LockFree == \A r \in Requests : phase[r] # "working"

\* toml::to_string_pretty: the whole state, so one position can spoil it.
Serializes(m) == \A o \in Objects : m[o] \notin Unserializable

\* The file bookmarks.toml.tmp names, made if there is none.
Temporary(r) == IF tmp = NoFile THEN r ELSE tmp

\* What filling a file leaves: over another text, perhaps a mix of both.
Filled(old, m) ==
  IF old = Blank \/ old = Whole(m) THEN {Whole(m)} ELSE {Whole(m), Torn}

\* What load makes of a file: an empty one parses too, as the default.
Parsed(file) ==
  IF file = NoFile \/ inode[file].state = "blank" THEN NoBookmarks
  ELSE inode[file].map

\* When an operation ends, the request goes on to op if it is still there.
GoesOnTo(r, op) ==
  job' = [job EXCEPT ![r] =
            IF phase[r] = "working" THEN [op |-> op, file |-> NoFile] ELSE NoJob]

\* The request, if it is still there, is answered.
Answer(r, answer) ==
  phase' = [phase EXCEPT ![r] = IF @ = "working" THEN answer ELSE @]

-------------------------------------------------------------------------------
Init ==
  /\ server = "up"
  /\ memory = NoBookmarks
  /\ phase = [r \in Requests |-> "new"]
  /\ object \in [Requests -> Objects]
  /\ position \in [Requests -> Positions]
  /\ text = [r \in Requests |-> NoBookmarks]
  /\ job = [r \in Requests |-> NoJob]
  /\ tmp = NoFile /\ dest = NoFile
  /\ inode = [r \in Requests |-> Blank]
  /\ crashes = 0 /\ calm = "yes"
  /\ acked = NoBookmarks
  /\ since = [o \in Objects |-> {}]

\* The request gets the mutex: memory changes first, then the whole state is
\* serialized and handed to the blocking pool; or not, and memory stays.
Begin(r) ==
  /\ server = "up" /\ LockFree /\ phase[r] = "new"
  /\ memory' = [memory EXCEPT ![object[r]] = position[r]]
  /\ text' = [text EXCEPT ![r] = memory']
  /\ since' = [since EXCEPT ![object[r]] = @ \cup {position[r]}]
  /\ IF Serializes(memory')
       THEN /\ phase' = [phase EXCEPT ![r] = "working"]
            /\ job' = [job EXCEPT ![r] = [op |-> "open", file |-> NoFile]]
       ELSE /\ phase' = [phase EXCEPT ![r] = "failed"]
            /\ UNCHANGED job
  /\ UNCHANGED <<server, object, position, fileVars, crashes, calm, acked>>

\* tokio::fs::write, first step: create or truncate the temporary file.
Open(r) ==
  /\ job[r].op = "open"
  /\ tmp' = Temporary(r)
  /\ inode' = [inode EXCEPT ![Temporary(r)] = Blank]
  /\ job' = [job EXCEPT ![r] = [op |-> "fill", file |-> Temporary(r)]]
  /\ UNCHANGED <<server, memory, requestVars, dest, crashes, calm, history>>

\* Second step: the text goes to the file that was opened.
Fill(r) ==
  /\ job[r].op = "fill"
  /\ \E content \in Filled(inode[job[r].file], text[r]) :
       inode' = [inode EXCEPT ![job[r].file] = content]
  /\ GoesOnTo(r, "rename")
  /\ UNCHANGED <<server, memory, requestVars, tmp, dest, crashes, calm, history>>

\* replace_file: the rename, and the answer to the client.
Rename(r) ==
  /\ job[r].op \in {"rename", "rename again"}
  /\ tmp # NoFile
  /\ dest' = tmp /\ tmp' = NoFile
  /\ job' = [job EXCEPT ![r] = NoJob]
  /\ Answer(r, "acked")
  /\ IF phase[r] = "working"
       THEN /\ acked' = [acked EXCEPT ![object[r]] = position[r]]
            /\ since' = [since EXCEPT ![object[r]] = {}]
       ELSE UNCHANGED history
  /\ UNCHANGED <<server, memory, object, position, text, inode, crashes, calm>>

\* On Windows a rename onto an existing file may be refused...
RenameRefused(r) ==
  /\ Windows /\ job[r].op = "rename" /\ dest # NoFile
  /\ GoesOnTo(r, "remove")
  /\ calm' = "no"
  /\ UNCHANGED <<server, memory, requestVars, fileVars, crashes, history>>

\* ... and then the existing file is removed first.
RemoveFile(r) ==
  /\ job[r].op = "remove"
  /\ dest' = NoFile
  /\ GoesOnTo(r, "rename again")
  /\ UNCHANGED <<server, memory, requestVars, tmp, inode, crashes, calm, history>>

\* An operation fails, a write perhaps half way; the client gets an error, and
\* memory keeps the position.
Fail(r) ==
  /\ job[r].op # "none"
  /\ IF job[r].op = "fill"
       THEN \E content \in {inode[job[r].file], Torn} :
              inode' = [inode EXCEPT ![job[r].file] = content]
       ELSE UNCHANGED inode
  /\ job' = [job EXCEPT ![r] = NoJob]
  /\ Answer(r, "failed")
  /\ UNCHANGED <<server, memory, object, position, text, tmp, dest, crashes,
                 calm, history>>

\* The client disconnects and the request's future is dropped.
Disconnect(r) ==
  /\ Disconnects /\ phase[r] = "working"
  /\ phase' = [phase EXCEPT ![r] = "gone"]
  /\ calm' = "no"
  /\ UNCHANGED <<server, memory, object, position, text, job, fileVars, crashes,
                 history>>

Crash ==
  /\ server = "up" /\ crashes < MaxCrashes
  /\ crashes' = crashes + 1
  /\ server' = "down"
  /\ phase' = [r \in Requests |->
                  IF phase[r] = "working" THEN "gone" ELSE phase[r]]
  /\ job' = [r \in Requests |-> NoJob]
  /\ UNCHANGED <<memory, object, position, text, fileVars, calm, history>>

\* load: a file that does not parse keeps the server from starting.
Restart ==
  /\ server = "down"
  /\ dest # NoFile => inode[dest].state # "torn"
  /\ server' = "up"
  /\ memory' = Parsed(dest)
  /\ UNCHANGED <<requestVars, job, fileVars, crashes, calm, history>>

Next ==
  \/ \E r \in Requests :
       \/ Begin(r) \/ Open(r) \/ Fill(r) \/ Rename(r) \/ Fail(r)
       \/ RenameRefused(r) \/ RemoveFile(r)
       \/ Disconnect(r)
  \/ Crash \/ Restart

Spec == Init /\ [][Next]_vars

-------------------------------------------------------------------------------
(* Properties.                                                             *)

\* What may be found for o: the position last acknowledged, or one of a later
\* request that failed, was cut short or is under way.
Expected(o) == {acked[o]} \cup since[o]

\* bookmarks.toml parses and has, for each object, the position that was last
\* acknowledged or one that was asked for later.
FileKept ==
  /\ dest # NoFile => inode[dest].state # "torn"
  /\ \A o \in Objects : Parsed(dest)[o] \in Expected(o)

\* An acknowledged position survives a restart, whatever failed or crashed
\* since (bookmarks.rs:62-84), as long as every client waits for its answer and
\* every rename is accepted.
AckedPositionSurvivesRestart == calm = "yes" => FileKept

\* A Browse never shows less than what was acknowledged (bookmarks.rs:58-60),
\* before and after a restart; and until the first crash, whatever happens to
\* the files.
AckedPositionIsShown ==
  server = "up" /\ (calm = "yes" \/ crashes = 0) =>
    \A o \in Objects : memory[o] \in Expected(o)

\* bookmarks.toml is only ever replaced as a whole, never written where a
\* crash could leave half of it (bookmarks.rs:70-77).
FileReplacedWhole ==
  [][calm = "yes" /\ dest # NoFile /\ dest' = dest =>
       inode'[dest] = inode[dest]]_vars

\* The same without the condition: the test at bookmarks.rs:119-122 awaits set
\* and expects to load what it stored.
AckedPositionSurvivesAnyClient == FileKept

===============================================================================
