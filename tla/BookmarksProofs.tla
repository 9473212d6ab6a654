---------------------------- MODULE BookmarksProofs ---------------------------
(***************************************************************************)
(* Theorems about Bookmarks for any objects, positions and requests.  The  *)
(* promise about the file holds while the store is calm: every client      *)
(* waits for its answer and every rename replaces its target.              *)
(***************************************************************************)
EXTENDS Bookmarks, TLAPS

\* What a request may hand to the blocking pool.
LEMMA JobTypes ==
  /\ NoJob \in Jobs
  /\ \A op \in Ops, f \in Requests \cup {NoFile} : [op |-> op, file |-> f] \in Jobs
BY DEF Jobs, NoJob, Ops

\* GoesOnTo keeps the table of jobs well typed.
LEMMA GoesOnTypes ==
  ASSUME TypeOK, NEW r \in Requests, NEW op \in Ops, GoesOnTo(r, op)
  PROVE  job' \in [Requests -> Jobs]
BY JobTypes DEF TypeOK, GoesOnTo

\* What a file may hold.
LEMMA ContentTypes ==
  /\ NoBookmarks \in Maps
  /\ Blank \in Contents /\ Torn \in Contents
  /\ \A m \in Maps : Whole(m) \in Contents
BY PositionsAssumption DEF NoBookmarks, Maps, Blank, Torn, Whole, Contents

\* The states of the store are well typed and the mutex has one holder, with
\* disconnects and on Windows too.
THEOREM TypeCorrect == Spec => []TypeOK
<1> USE DEF requestVars, fileVars, history
<1>1. Init => TypeOK
  BY ContentTypes, JobTypes DEF Init, TypeOK, Phases
<1>2. TypeOK /\ [Next]_vars => TypeOK'
  <2> SUFFICES ASSUME TypeOK, [Next]_vars PROVE TypeOK'
    OBVIOUS
  <2>1. ASSUME NEW r \in Requests, Begin(r) PROVE TypeOK'
    <3>1. memory' \in Maps /\ text' \in [Requests -> Maps]
      BY <2>1 DEF TypeOK, Begin, Maps
    <3>2. since' \in [Objects -> SUBSET Positions]
      BY <2>1 DEF TypeOK, Begin
    <3>3. job' \in [Requests -> Jobs]
      <4>1. [op |-> "open", file |-> NoFile] \in Jobs
        BY JobTypes DEF Ops
      <4>2. QED
        BY <2>1, <4>1 DEF TypeOK, Begin
    <3>4. phase' \in [Requests -> Phases]
      BY <2>1 DEF TypeOK, Begin, Phases
    <3>5. ASSUME NEW q \in Requests, NEW s \in Requests,
                 phase'[q] = "working", phase'[s] = "working"
          PROVE  q = s
      BY <2>1, <3>5 DEF TypeOK, Begin, LockFree
    <3>6. QED
      BY <2>1, <3>1, <3>2, <3>3, <3>4, <3>5 DEF TypeOK, Begin
  <2>2. ASSUME NEW r \in Requests, Open(r) PROVE TypeOK'
    <3>1. Temporary(r) \in Requests
      BY DEF TypeOK, Temporary
    <3>2. QED
      BY <2>2, <3>1, ContentTypes, JobTypes DEF TypeOK, Open, Ops
  <2>3. ASSUME NEW r \in Requests, Fill(r) PROVE TypeOK'
    <3>1. PICK content \in Filled(inode[job[r].file], text[r]) :
            inode' = [inode EXCEPT ![job[r].file] = content]
      BY <2>3 DEF Fill
    <3>2. inode' \in [Requests -> Contents]
      <4>1. content \in Contents
        BY ContentTypes DEF TypeOK, Filled
      <4>2. QED
        BY <3>1, <4>1 DEF TypeOK
    <3>3. job' \in [Requests -> Jobs]
      BY <2>3, GoesOnTypes DEF Fill, Ops
    <3>4. QED
      BY <2>3, <3>2, <3>3 DEF TypeOK, Fill
  <2>4. ASSUME NEW r \in Requests, Rename(r) PROVE TypeOK'
    <3>1. acked' \in Maps /\ since' \in [Objects -> SUBSET Positions]
      BY <2>4 DEF TypeOK, Rename, Maps
    <3>2. QED
      BY <2>4, <3>1, JobTypes DEF TypeOK, Rename, Answer, Phases
  <2>5. ASSUME NEW r \in Requests, RenameRefused(r) \/ RemoveFile(r) PROVE TypeOK'
    <3>1. job' \in [Requests -> Jobs]
      BY <2>5, GoesOnTypes DEF RenameRefused, RemoveFile, Ops
    <3>2. QED
      BY <2>5, <3>1 DEF TypeOK, RenameRefused, RemoveFile
  <2>6. ASSUME NEW r \in Requests, Fail(r) PROVE TypeOK'
    <3>1. inode' \in [Requests -> Contents]
      BY <2>6, ContentTypes DEF TypeOK, Fail
    <3>2. QED
      BY <2>6, <3>1, JobTypes DEF TypeOK, Fail, Answer, Phases
  <2>7. ASSUME NEW r \in Requests, Disconnect(r) PROVE TypeOK'
    BY <2>7 DEF TypeOK, Disconnect, Phases
  <2>8. CASE Crash
    <3>1. job' \in [Requests -> Jobs]
      BY <2>8, JobTypes DEF Crash
    <3>2. /\ phase' \in [Requests -> Phases]
          /\ \A q \in Requests : phase'[q] # "working"
      BY <2>8 DEF TypeOK, Crash, Phases
    <3>3. /\ UNCHANGED <<memory, object, position, text, tmp, dest, inode, acked,
                       since, calm>>
          /\ server' \in {"up", "down"} /\ crashes' \in Nat
      BY <2>8 DEF TypeOK, Crash
    <3>4. QED
      BY <3>1, <3>2, <3>3 DEF TypeOK
  <2>9. CASE Restart
    <3>1. Parsed(dest) \in Maps
      BY ContentTypes DEF TypeOK, Parsed, Contents
    <3>2. QED
      BY <2>9, <3>1 DEF TypeOK, Restart
  <2>10. CASE UNCHANGED vars
    BY <2>10 DEF TypeOK, vars
  <2>11. QED
    BY <2>1, <2>2, <2>3, <2>4, <2>5, <2>6, <2>7, <2>8, <2>9, <2>10 DEF Next
<1>3. QED
  BY <1>1, <1>2, PTL DEF Spec

-------------------------------------------------------------------------------
(* The inductive invariant of the main theorem.                            *)

\* Who may use the blocking pool, and what the two files hold meanwhile.
JobsOK ==
  \A r \in Requests :
    /\ phase[r] = "working" <=> job[r].op # "none"
    /\ job[r].op \in {"none", "open", "fill", "rename"}
    /\ job[r].op = "fill" =>
         job[r].file = tmp /\ tmp # NoFile /\ inode[tmp] = Blank
    /\ job[r].op = "rename" => tmp # NoFile /\ inode[tmp] = Whole(text[r])
    /\ phase[r] = "working" =>
         server = "up" /\ text[r] = memory /\ memory[object[r]] = position[r]

\* The temporary file is never the bookmark file, nor will it be.
FilesApart ==
  /\ dest # NoFile => dest # tmp
  /\ \A r \in Requests :
       /\ phase[r] = "new" => r # dest /\ r # tmp
       /\ job[r].op = "open" => r # dest

\* What the file and the memory hold was acknowledged or asked for later.
FileExpected ==
  /\ dest # NoFile => inode[dest].state = "whole"
  /\ \A o \in Objects : Parsed(dest)[o] \in Expected(o)
  /\ server = "up" => \A o \in Objects : memory[o] \in Expected(o)

IInv == TypeOK /\ JobsOK /\ FilesApart /\ FileExpected

-------------------------------------------------------------------------------
\* While a request is at work nobody else has a job.
LEMMA OthersIdle ==
  ASSUME IInv, NEW r \in Requests, job[r].op # "none",
         NEW q \in Requests, q # r
  PROVE  phase[q] # "working" /\ job[q].op = "none"
BY DEF IInv, JobsOK, TypeOK

\* Begin: the request serializes what memory is from now on.
LEMMA BeginStep ==
  ASSUME IInv, TypeOK', NEW r \in Requests, Begin(r)
  PROVE  IInv'
<1> USE DEF fileVars
<1>1. \A q \in Requests : phase[q] # "working" /\ job[q].op = "none"
  BY DEF IInv, JobsOK, Begin, LockFree
<1>2. /\ UNCHANGED <<server, object, position, tmp, dest, inode, acked>>
      /\ server = "up"
      /\ \A q \in Requests \ {r} : phase'[q] = phase[q] /\ job'[q] = job[q]
      /\ phase[r] = "new"
  BY DEF IInv, TypeOK, Begin
<1>3. text'[r] = memory' /\ memory'[object[r]] = position[r]
  BY DEF IInv, TypeOK, Begin, Maps
<1>4. \/ phase'[r] = "working" /\ job'[r].op = "open"
      \/ phase'[r] = "failed" /\ job'[r].op = "none"
  BY <1>1 DEF IInv, TypeOK, Begin
<1>5. JobsOK'
  BY <1>1, <1>2, <1>3, <1>4 DEF JobsOK
<1>6. FilesApart'
  <2>1. r # dest /\ r # tmp
    BY <1>2 DEF IInv, FilesApart
  <2>2. QED
    BY <1>1, <1>2, <1>4, <2>1 DEF IInv, FilesApart
<1>7. \A o \in Objects : Expected(o) \subseteq Expected(o)'
  BY DEF IInv, TypeOK, Begin, Expected
<1>8. \A o \in Objects : memory'[o] \in Expected(o)'
  <2>1. position[r] \in Expected(object[r])'
    BY DEF IInv, TypeOK, Begin, Expected
  <2>2. \A o \in Objects : o # object[r] => memory'[o] = memory[o]
    BY DEF IInv, TypeOK, Begin, Maps
  <2>3. QED
    BY <1>2, <1>3, <1>7, <2>1, <2>2 DEF IInv, FileExpected
<1>9. FileExpected'
  BY <1>2, <1>7, <1>8 DEF IInv, FileExpected, Parsed
<1>10. QED
  BY <1>5, <1>6, <1>9 DEF IInv

\* Open: the temporary file is emptied, and it is not the bookmark file.
LEMMA OpenStep ==
  ASSUME IInv, TypeOK', NEW r \in Requests, Open(r)
  PROVE  IInv'
<1> USE DEF requestVars, history
<1>1. Temporary(r) \in Requests /\ Temporary(r) # dest
  BY DEF IInv, TypeOK, FilesApart, Open, Temporary
<1>2. /\ UNCHANGED <<server, memory, phase, object, position, text, dest, acked,
                    since>>
      /\ tmp' = Temporary(r)
      /\ \A q \in Requests \ {r} : job'[q] = job[q]
  BY DEF IInv, TypeOK, Open
<1>3. inode'[tmp'] = Blank /\ job'[r] = [op |-> "fill", file |-> tmp']
  BY <1>1 DEF IInv, TypeOK, Open
<1>4. dest # NoFile => inode'[dest] = inode[dest]
  BY <1>1 DEF IInv, TypeOK, Open
<1>5. job[r].op = "open" /\ phase[r] = "working"
  BY DEF IInv, JobsOK, Open
<1>6. \A q \in Requests \ {r} : phase[q] # "working" /\ job[q].op = "none"
  BY <1>5, OthersIdle
<1>7. JobsOK'
  BY <1>1, <1>2, <1>3, <1>5, <1>6, NoFileAssumption DEF IInv, JobsOK
<1>8. FilesApart'
  <2>1. \A q \in Requests : phase[q] = "new" => q # tmp'
    BY <1>2, <1>5 DEF IInv, FilesApart, Temporary
  <2>2. QED
    BY <1>1, <1>2, <1>3, <1>6, <2>1 DEF IInv, FilesApart
<1>9. FileExpected'
  BY <1>2, <1>4 DEF IInv, FileExpected, Parsed, Expected
<1>10. QED
  BY <1>7, <1>8, <1>9 DEF IInv

\* Fill: the emptied file now holds the memory.
LEMMA FillStep ==
  ASSUME IInv, TypeOK', NEW r \in Requests, Fill(r)
  PROVE  IInv'
<1> USE DEF requestVars, history
<1>1. /\ job[r].op = "fill" /\ phase[r] = "working"
      /\ job[r].file = tmp /\ tmp # NoFile /\ inode[tmp] = Blank
  BY DEF IInv, JobsOK, Fill
<1>2. tmp \in Requests /\ tmp # dest
  BY <1>1 DEF IInv, TypeOK, FilesApart
<1>3. UNCHANGED <<server, memory, phase, object, position, text, tmp, dest, acked,
                  since>>
  BY DEF Fill
<1>4. inode' = [inode EXCEPT ![tmp] = Whole(text[r])]
  BY <1>1 DEF Fill, Filled
<1>5. inode'[tmp] = Whole(text[r]) /\ (dest # NoFile => inode'[dest] = inode[dest])
  BY <1>2, <1>4 DEF IInv, TypeOK
<1>6. job'[r].op = "rename" /\ \A q \in Requests \ {r} : job'[q] = job[q]
  BY <1>1 DEF IInv, TypeOK, Fill, GoesOnTo
<1>7. \A q \in Requests \ {r} : phase[q] # "working" /\ job[q].op = "none"
  BY <1>1, OthersIdle
<1>8. JobsOK'
  BY <1>1, <1>3, <1>5, <1>6, <1>7 DEF IInv, JobsOK
<1>9. FilesApart'
  BY <1>3, <1>6, <1>7 DEF IInv, FilesApart
<1>10. FileExpected'
  BY <1>3, <1>5 DEF IInv, FileExpected, Parsed, Expected
<1>11. QED
  BY <1>8, <1>9, <1>10 DEF IInv

\* Rename: the file that holds the memory becomes the bookmark file, and the
\* answer promises exactly what it holds.
LEMMA RenameStep ==
  ASSUME IInv, TypeOK', NEW r \in Requests, Rename(r)
  PROVE  IInv'
<1>1. /\ job[r].op = "rename" /\ phase[r] = "working"
      /\ tmp \in Requests /\ inode[tmp] = Whole(text[r])
      /\ text[r] = memory /\ memory[object[r]] = position[r]
  BY DEF IInv, TypeOK, JobsOK, Rename
<1>2. /\ UNCHANGED <<server, memory, object, position, text, inode>>
      /\ dest' = tmp /\ tmp' = NoFile
      /\ phase'[r] = "acked" /\ job'[r].op = "none"
      /\ \A q \in Requests \ {r} : phase'[q] = phase[q] /\ job'[q] = job[q]
  BY <1>1 DEF IInv, TypeOK, Rename, Answer, NoJob
<1>3. \A q \in Requests \ {r} : phase[q] # "working" /\ job[q].op = "none"
  BY <1>1, OthersIdle
<1>4. JobsOK'
  BY <1>2, <1>3 DEF JobsOK
<1>5. FilesApart'
  BY <1>1, <1>2, <1>3, NoFileAssumption DEF IInv, FilesApart
<1>6. \A o \in Objects : memory[o] \in Expected(o)'
  <2>1. /\ acked'[object[r]] = position[r]
        /\ \A o \in Objects : o # object[r] =>
             acked'[o] = acked[o] /\ since'[o] = since[o]
    BY <1>1 DEF IInv, TypeOK, Rename, Maps
  <2>2. \A o \in Objects : memory[o] \in Expected(o)
    BY <1>1 DEF IInv, JobsOK, FileExpected
  <2>3. QED
    BY <1>1, <2>1, <2>2 DEF Expected
<1>7. Parsed(dest)' = memory /\ inode'[dest'].state = "whole"
  BY <1>1, <1>2, NoFileAssumption DEF Parsed, Whole
<1>8. FileExpected'
  BY <1>2, <1>6, <1>7 DEF FileExpected
<1>9. QED
  BY <1>4, <1>5, <1>8 DEF IInv

\* Fail: only the temporary file may be damaged.
LEMMA FailStep ==
  ASSUME IInv, TypeOK', NEW r \in Requests, Fail(r)
  PROVE  IInv'
<1>1. job[r].op # "none" /\ phase[r] = "working"
  BY DEF IInv, JobsOK, Fail
<1>2. UNCHANGED <<server, memory, object, position, text, tmp, dest, acked, since>>
  BY DEF Fail, history
<1>3. /\ phase'[r] = "failed" /\ job'[r].op = "none"
      /\ \A q \in Requests \ {r} : phase'[q] = phase[q] /\ job'[q] = job[q]
  BY <1>1 DEF IInv, TypeOK, Fail, Answer, NoJob
<1>4. \A q \in Requests \ {r} : phase[q] # "working" /\ job[q].op = "none"
  BY <1>1, OthersIdle
<1>5. dest # NoFile => inode'[dest] = inode[dest]
  <2>1. CASE job[r].op = "fill"
    BY <2>1 DEF IInv, TypeOK, JobsOK, FilesApart, Fail
  <2>2. CASE job[r].op # "fill"
    BY <2>2 DEF Fail
  <2>3. QED
    BY <2>1, <2>2
<1>6. JobsOK'
  BY <1>3, <1>4 DEF JobsOK
<1>7. FilesApart'
  BY <1>1, <1>2, <1>3, <1>4 DEF IInv, FilesApart
<1>8. FileExpected'
  BY <1>2, <1>5 DEF IInv, FileExpected, Parsed, Expected
<1>9. QED
  BY <1>6, <1>7, <1>8 DEF IInv

\* A crash and a restart: the file is what the memory was or had been.
LEMMA CrashStep == ASSUME IInv, TypeOK', Crash PROVE IInv'
<1>1. UNCHANGED <<memory, object, position, text, tmp, dest, inode, acked, since>>
  BY DEF Crash, fileVars, history
<1>2. \A q \in Requests :
        /\ phase'[q] # "working" /\ job'[q].op = "none"
        /\ phase'[q] = "new" => phase[q] = "new"
  BY DEF IInv, TypeOK, Crash, NoJob
<1>3. server' = "down"
  BY DEF Crash
<1>4. JobsOK'
  BY <1>2 DEF JobsOK
<1>5. FilesApart'
  BY <1>1, <1>2 DEF IInv, FilesApart
<1>6. FileExpected'
  BY <1>1, <1>3 DEF IInv, FileExpected, Parsed, Expected
<1>7. QED
  BY <1>4, <1>5, <1>6 DEF IInv

LEMMA RestartStep == ASSUME IInv, TypeOK', Restart PROVE IInv'
<1>1. /\ UNCHANGED <<phase, object, position, text, job, tmp, dest, inode, acked,
                     since>>
      /\ server = "down" /\ memory' = Parsed(dest)
  BY DEF Restart, requestVars, fileVars, history
<1>2. \A q \in Requests : phase[q] # "working"
  BY <1>1 DEF IInv, JobsOK
<1>3. JobsOK'
  BY <1>1, <1>2 DEF IInv, JobsOK
<1>4. FilesApart'
  BY <1>1 DEF IInv, FilesApart
<1>5. FileExpected'
  BY <1>1 DEF IInv, FileExpected, Parsed, Expected
<1>6. QED
  BY <1>3, <1>4, <1>5 DEF IInv

\* The store stays calm only by steps that keep the invariant.
CalmInv == calm = "yes" => IInv

LEMMA CalmInvHolds == Spec => []CalmInv
<1>1. Init /\ TypeOK => CalmInv
  <2> SUFFICES ASSUME Init, TypeOK PROVE IInv
    BY DEF CalmInv
  <2>1. \A r \in Requests : phase[r] = "new" /\ job[r].op = "none"
    BY DEF Init, NoJob
  <2>2. tmp = NoFile /\ dest = NoFile /\ memory = acked /\ acked = NoBookmarks
    BY DEF Init
  <2>3. JobsOK
    BY <2>1 DEF JobsOK
  <2>4. FilesApart
    BY <2>1, <2>2, NoFileAssumption DEF FilesApart
  <2>5. FileExpected
    BY <2>2 DEF FileExpected, Parsed, Expected
  <2>6. QED
    BY <2>3, <2>4, <2>5 DEF IInv
<1>2. CalmInv /\ TypeOK' /\ [Next]_vars => CalmInv'
  <2> SUFFICES ASSUME CalmInv, TypeOK', [Next]_vars, calm' = "yes"
               PROVE  IInv'
    BY DEF CalmInv
  <2>1. ASSUME NEW r \in Requests, RenameRefused(r) \/ Disconnect(r)
        PROVE  FALSE
    BY <2>1 DEF RenameRefused, Disconnect
  <2>2. IInv
    <3>1. calm = "yes"
      BY <2>1 DEF Next, vars, Begin, Open, Fill, Rename, Fail, RemoveFile, Crash,
         Restart
    <3>2. QED
      BY <3>1 DEF CalmInv
  <2>3. ASSUME NEW r \in Requests, RemoveFile(r) PROVE FALSE
    BY <2>2, <2>3 DEF RemoveFile, IInv, JobsOK
  <2>4. CASE UNCHANGED vars
    <3>1. /\ UNCHANGED <<server, memory, phase, object, position, text, job>>
          /\ UNCHANGED <<tmp, dest, inode, acked, since>>
      BY <2>4 DEF vars, requestVars, fileVars, history
    <3>2. JobsOK' /\ FilesApart'
      BY <2>2, <3>1 DEF IInv, JobsOK, FilesApart
    <3>3. FileExpected'
      BY <2>2, <3>1 DEF IInv, FileExpected, Parsed, Expected
    <3>4. QED
      BY <3>2, <3>3 DEF IInv
  <2>5. QED
    BY <2>1, <2>2, <2>3, <2>4, BeginStep, OpenStep, FillStep, RenameStep, FailStep,
       CrashStep, RestartStep DEF Next
<1>3. QED
  BY <1>1, <1>2, TypeCorrect, PTL DEF Spec

-------------------------------------------------------------------------------
\* A position that was acknowledged survives crashes and later failures: the
\* file can be loaded and holds that position or a later one (bookmarks.rs:62-84).
THEOREM AckedSurvives == Spec => []AckedPositionSurvivesRestart
<1>1. CalmInv => AckedPositionSurvivesRestart
  BY DEF CalmInv, IInv, FileExpected, AckedPositionSurvivesRestart, FileKept
<1>2. QED
  BY <1>1, CalmInvHolds, PTL

\* What the memory alone guarantees, whatever happens to the files.
MemoryExpected ==
  /\ crashes = 0 => server = "up"
  /\ crashes = 0 => \A o \in Objects : memory[o] \in Expected(o)
  /\ \A r \in Requests :
       phase[r] = "working" => server = "up" /\ memory[object[r]] = position[r]

LEMMA MemoryExpectedHolds == Spec => []MemoryExpected
<1> USE DEF MemoryExpected
<1>1. Init => MemoryExpected
  BY DEF Init, Expected
<1>2. TypeOK /\ MemoryExpected /\ [Next]_vars => MemoryExpected'
  <2> SUFFICES ASSUME TypeOK, MemoryExpected, [Next]_vars
               PROVE  MemoryExpected'
    OBVIOUS
  <2> USE DEF requestVars, fileVars, history
  <2>1. ASSUME NEW r \in Requests, Begin(r) PROVE MemoryExpected'
    <3>1. /\ UNCHANGED <<server, object, position, crashes>> /\ server = "up"
          /\ \A q \in Requests : phase'[q] = "working" => q = r
      BY <2>1 DEF TypeOK, Begin, LockFree
    <3>2. memory'[object[r]] = position[r]
      BY <2>1 DEF TypeOK, Begin, Maps
    <3>3. \A o \in Objects : Expected(o) \subseteq Expected(o)'
      BY <2>1 DEF TypeOK, Begin, Expected
    <3>4. position[r] \in Expected(object[r])'
      BY <2>1 DEF TypeOK, Begin, Expected
    <3>5. \A o \in Objects : o # object[r] => memory'[o] = memory[o]
      BY <2>1 DEF TypeOK, Begin, Maps
    <3>6. QED
      BY <3>1, <3>2, <3>3, <3>4, <3>5
  <2>2. ASSUME NEW r \in Requests, Open(r) \/ Fill(r) PROVE MemoryExpected'
    BY <2>2 DEF Open, Fill, Expected
  \* the answer promises what this request put in memory
  <2>3. ASSUME NEW r \in Requests, Rename(r) PROVE MemoryExpected'
    <3>1. /\ UNCHANGED <<server, memory, object, position, crashes>>
          /\ \A q \in Requests : phase'[q] = "working" => phase[q] = "working"
      BY <2>3 DEF TypeOK, Rename, Answer
    <3>2. \A o \in Objects : memory[o] \in Expected(o) => memory[o] \in Expected(o)'
      <4>1. CASE phase[r] = "working"
        <5>1. memory[object[r]] = position[r]
          BY <4>1
        <5>2. /\ acked'[object[r]] = position[r]
              /\ \A o \in Objects : o # object[r] =>
                   acked'[o] = acked[o] /\ since'[o] = since[o]
          BY <2>3, <4>1 DEF TypeOK, Rename, Maps
        <5>3. QED
          BY <5>1, <5>2 DEF Expected
      <4>2. CASE phase[r] # "working"
        BY <2>3, <4>2 DEF Rename, Expected
      <4>3. QED
        BY <4>1, <4>2
    <3>3. QED
      BY <3>1, <3>2
  <2>4. ASSUME NEW r \in Requests, RenameRefused(r) \/ RemoveFile(r)
        PROVE  MemoryExpected'
    BY <2>4 DEF RenameRefused, RemoveFile, Expected
  <2>5. ASSUME NEW r \in Requests, Fail(r) \/ Disconnect(r)
        PROVE  MemoryExpected'
    <3>1. /\ UNCHANGED <<server, memory, object, position, crashes, acked, since>>
          /\ \A q \in Requests : phase'[q] = "working" => phase[q] = "working"
      BY <2>5 DEF TypeOK, Fail, Disconnect, Answer
    <3>2. QED
      BY <3>1 DEF Expected
  <2>6. CASE Crash
    BY <2>6 DEF TypeOK, Crash
  <2>7. CASE Restart
    BY <2>7 DEF Restart
  <2>8. CASE UNCHANGED vars
    BY <2>8 DEF vars, Expected
  <2>9. QED
    BY <2>1, <2>2, <2>3, <2>4, <2>5, <2>6, <2>7, <2>8 DEF Next
<1>3. QED
  BY <1>1, <1>2, TypeCorrect, PTL DEF Spec

\* Browse shows each object at least at its acknowledged position: after a
\* restart while the store is calm, and in any case until the first crash
\* (bookmarks.rs:38-60).
THEOREM AckedShown == Spec => []AckedPositionIsShown
<1>1. CalmInv /\ MemoryExpected => AckedPositionIsShown
  BY DEF CalmInv, IInv, FileExpected, MemoryExpected, AckedPositionIsShown
<1>2. QED
  BY <1>1, CalmInvHolds, MemoryExpectedHolds, PTL

\* The bookmark file is never written in place (bookmarks.rs:70-77).
THEOREM ReplacedWhole == Spec => FileReplacedWhole
<1> DEFINE Kept == dest # NoFile /\ dest' = dest => inode'[dest] = inode[dest]
<1>1. ASSUME IInv, [Next]_vars PROVE [Kept]_vars
  <2>1. ASSUME NEW r \in Requests, Open(r) PROVE Kept
    BY <1>1, <2>1 DEF IInv, TypeOK, FilesApart, Open, Temporary
  <2>2. ASSUME NEW r \in Requests, Fill(r) \/ Fail(r) PROVE Kept
    <3>1. \/ inode' = inode
          \/ /\ job[r].op = "fill"
             /\ \E content : inode' = [inode EXCEPT ![job[r].file] = content]
      BY <2>2 DEF Fill, Fail
    <3>2. job[r].op = "fill" => job[r].file = tmp /\ (dest # NoFile => dest # tmp)
      BY <1>1 DEF IInv, JobsOK, FilesApart
    <3>3. QED
      BY <1>1, <3>1, <3>2 DEF IInv, TypeOK
  <2>3. ASSUME NEW r \in Requests,
               Begin(r) \/ Rename(r) \/ RenameRefused(r) \/ RemoveFile(r)
                 \/ Disconnect(r)
        PROVE  Kept
    BY <2>3 DEF Begin, Rename, RenameRefused, RemoveFile, Disconnect, fileVars
  <2>4. ASSUME Crash \/ Restart PROVE Kept
    BY <2>4 DEF Crash, Restart, fileVars
  <2>5. QED
    BY <1>1, <2>1, <2>2, <2>3, <2>4 DEF Next
<1>2. ASSUME CalmInv, [Next]_vars PROVE [calm = "yes" => Kept]_vars
  BY <1>1, <1>2 DEF CalmInv
<1>3. QED
  BY <1>2, CalmInvHolds, PTL DEF Spec, FileReplacedWhole

===============================================================================
