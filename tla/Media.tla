--------------------------------- MODULE Media ---------------------------------
(***************************************************************************)
(* Streaming: the handler media (http.rs:408-500) with parse_range         *)
(* (http.rs:511-550), while the file it serves is replaced, written,       *)
(* truncated or removed between any two of its system calls, and a player  *)
(* that resumes what a broken connection left unfinished.                  *)
(*                                                                         *)
(* Requests share nothing but the disk, so one at a time is enough.  A     *)
(* path names an inode, and the handle of an open file stays with its own. *)
(* A Range header is one of the forms the parser tells apart; a numeral is *)
(* the number it stands for, which may be beyond u64.                      *)
(***************************************************************************)
EXTENDS Integers, Sequences

CONSTANTS
  U64Max,      \* u64::MAX
  Chunk,       \* STREAM_BUFFER_BYTES
  Contents,    \* what a program may put in the place of the file
  Bytes,       \* what a program may append to it
  Ranges,      \* the Range headers a client may send
  MaxChanges   \* bound: how often the disk and the catalog change

Inodes == 0 .. MaxChanges
NoInode == MaxChanges + 1

Numerals == Nat

RangeHeader ==
  [form: {"none", "malformed"}]
  \cup [form: {"first-last"}, first: Numerals, last: Numerals]
  \cup [form: {"first-"}, first: Numerals]
  \cup [form: {"-suffix"}, suffix: Numerals]

ASSUME WidthAssumption == U64Max \in Nat /\ Chunk \in Nat \ {0}
ASSUME ChangesAssumption == MaxChanges \in Nat
\* A file and its growth are far from the largest u64.
ASSUME SizesAssumption ==
  \A c \in Contents : c \in Seq(Bytes) /\ Len(c) + MaxChanges <= U64Max
ASSUME RangesAssumption ==
  Ranges \subseteq RangeHeader /\ [form |-> "none"] \in Ranges

VARIABLES
  \* the disk and the catalog
  listed,   \* the catalog has the ID, as a media entry
  path,     \* the inode at the entry's path, or NoInode
  content,  \* the bytes of every inode
  changes,  \* how often they changed
  \* the request
  pc,       \* "idle", "lookup", "stat", "open", "seek", "stream", "ended", "cut"
  method,   \* "GET" or "HEAD"
  header,   \* its Range header
  promise,  \* what parse_range made of it, and the size it was made for
  handle,   \* the inode it has open
  reply,    \* the head of the response, or NoReply
  body,     \* the bytes that followed
  \* the player
  playing,  \* whether it wants the whole file
  played,   \* the bytes it has from responses before this one
  \* history
  steady,   \* disk and catalog are as they were when the player began
  intact    \* the open inode is as it was when it was opened

diskVars == <<listed, path, content, changes>>
requestVars == <<pc, method, header, promise, handle, reply, body>>
playerVars == <<playing, played>>
vars == <<diskVars, requestVars, playerVars, steady, intact>>

NoReply == [status |-> 0]

-------------------------------------------------------------------------------
(* parse_range.                                                           *)

\* Slips a maintainer could make; the runs show that each is noticed.
Bug_Subtract(m, n) == m - n

Bug_NotClamped(m, n) == m

saturating_sub(m, n) == IF n > m THEN 0 ELSE m - n

saturating_add(m, n) == IF m + n > U64Max THEN U64Max ELSE m + n

Least(m, n) == IF m < n THEN m ELSE n

Unsatisfiable == [ok |-> FALSE]

\* The last check of parse_range.
Partial(start, end, size) ==
  IF start >= size \/ start > end THEN Unsatisfiable
  ELSE [ok |-> TRUE, start |-> start, end |-> end, partial |-> TRUE]

\* str::parse::<u64>
Parses(n) == n <= U64Max

parse_range(value, size) ==
  IF value.form = "none" THEN
    [ok |-> TRUE, start |-> 0, end |-> saturating_sub(size, 1), partial |-> FALSE]
  ELSE IF size = 0 \/ value.form = "malformed" THEN Unsatisfiable
  ELSE IF value.form = "-suffix" THEN
    IF ~ Parses(value.suffix) \/ value.suffix = 0 THEN Unsatisfiable
    ELSE Partial(saturating_sub(size, value.suffix), size - 1, size)
  ELSE IF ~ Parses(value.first) THEN Unsatisfiable
  ELSE IF value.form = "first-" THEN Partial(value.first, size - 1, size)
  ELSE IF ~ Parses(value.last) THEN Unsatisfiable
  ELSE Partial(value.first, Least(value.last, size - 1), size)

\* Content-Length.
Length(range, size) ==
  IF size = 0 THEN 0 ELSE saturating_add(saturating_sub(range.end, range.start), 1)

-------------------------------------------------------------------------------
Init ==
  /\ listed \in BOOLEAN /\ path = 0 /\ changes = 0
  /\ content \in {[i \in Inodes |-> IF i = 0 THEN c ELSE <<>>] : c \in Contents}
  /\ pc = "idle" /\ method = "GET" /\ header = [form |-> "none"]
  /\ promise = Unsatisfiable /\ handle = NoInode /\ reply = NoReply /\ body = <<>>
  /\ playing = FALSE /\ played = <<>>
  /\ steady = TRUE /\ intact = TRUE

-------------------------------------------------------------------------------
(* Other programs, and the scanner.                                       *)

Change ==
  /\ changes < MaxChanges /\ changes' = changes + 1
  /\ steady' = FALSE
  /\ UNCHANGED <<requestVars, playerVars>>

\* A catalog with, or without, the entry is published.
Publish ==
  /\ Change
  /\ listed' = ~ listed
  /\ UNCHANGED <<path, content, intact>>

\* A new file takes the place of the old one, which open handles keep.
Replace(c) ==
  /\ Change
  /\ path' = changes + 1
  /\ content' = [content EXCEPT ![changes + 1] = c]
  /\ UNCHANGED <<listed, intact>>

Remove ==
  /\ Change
  /\ path' = NoInode
  /\ UNCHANGED <<listed, content, intact>>

\* The file is appended to, or cut off, in place.
Write(c) ==
  /\ Change
  /\ content' = [content EXCEPT ![path] = c]
  /\ intact' = (intact /\ handle # path)
  /\ UNCHANGED <<listed, path>>

-------------------------------------------------------------------------------
(* Players.                                                               *)

\* A request is sent; what an earlier one left is forgotten.
Send(m, h) ==
  /\ pc' = "lookup" /\ method' = m /\ header' = h
  /\ promise' = Unsatisfiable /\ handle' = NoInode /\ reply' = NoReply /\ body' = <<>>
  /\ intact' = TRUE
  /\ UNCHANGED diskVars

Over == pc \in {"ended", "cut"}

Complete ==
  pc # "idle" /\ reply.status \in {200, 206} /\ Len(body) = reply.length

\* Any single request.
Ask(m, h) ==
  /\ pc = "idle" \/ Over
  /\ Send(m, h)
  /\ playing' = FALSE /\ played' = <<>> /\ steady' = TRUE

\* A player begins to play the whole file...
Play ==
  /\ pc = "idle" \/ Over
  /\ Send("GET", [form |-> "none"])
  /\ playing' = TRUE /\ played' = <<>> /\ steady' = TRUE

\* ... and asks for the rest when a response broke off.
Resume ==
  /\ Over /\ playing /\ ~ Complete /\ reply.status \in {0, 200, 206}
  /\ LET all == played \o body IN
     /\ played' = all
     /\ Send("GET", IF all = <<>> THEN [form |-> "none"]
                                  ELSE [form |-> "first-", first |-> Len(all)])
  /\ UNCHANGED <<playing, steady>>

\* The client hangs up, or the network fails: the handler, or the stream of its
\* response, is dropped.
Cut ==
  /\ pc \notin {"idle", "ended", "cut"}
  /\ pc' = "cut"
  /\ UNCHANGED <<diskVars, method, header, promise, handle, reply, body,
                 playerVars, steady, intact>>

-------------------------------------------------------------------------------
(* media                                                                  *)

Fail(status) == reply' = [status |-> status] /\ pc' = "ended"

\* The headers of a response that parse_range allowed.
Headers(range, size) ==
  [status |-> IF range.partial THEN 206 ELSE 200,
   length |-> Length(range, size), range |-> range, size |-> size]

\* The entry is taken from the catalog.
Lookup ==
  /\ pc = "lookup"
  /\ IF listed THEN pc' = "stat" /\ UNCHANGED reply ELSE Fail(404)
  /\ UNCHANGED <<diskVars, method, header, promise, handle, body, playerVars,
                 steady, intact>>

\* metadata(), parse_range, and what need not be read from the file.
Stat ==
  LET size == Len(content[path])
      range == parse_range(header, size) IN
  /\ pc = "stat"
  /\ IF path = NoInode THEN Fail(404) /\ UNCHANGED promise
     ELSE IF ~ range.ok THEN
       /\ promise' = Unsatisfiable
       /\ reply' = [status |-> 416, size |-> size] /\ pc' = "ended"
     ELSE
       /\ promise' = Headers(range, size)
       /\ IF method = "HEAD" \/ Length(range, size) = 0
            THEN reply' = Headers(range, size) /\ pc' = "ended"
            ELSE pc' = "open" /\ UNCHANGED reply
  /\ UNCHANGED <<diskVars, method, header, handle, body, playerVars, steady, intact>>

\* File::open, on what the path names now.
Open ==
  /\ pc = "open" /\ path # NoInode
  /\ handle' = path /\ intact' = TRUE
  /\ IF promise.range.start > 0 THEN pc' = "seek" /\ UNCHANGED reply
                                ELSE pc' = "stream" /\ reply' = promise
  /\ UNCHANGED <<diskVars, method, header, promise, body, playerVars, steady>>

\* The file is gone, or the system does not let us open it.
OpenFails ==
  /\ pc = "open"
  /\ Fail(404)
  /\ UNCHANGED <<diskVars, method, header, promise, handle, body, playerVars,
                 steady, intact>>

Seek ==
  /\ pc = "seek"
  /\ \/ pc' = "stream" /\ reply' = promise
     \/ Fail(500)
  /\ UNCHANGED <<diskVars, method, header, promise, handle, body, playerVars,
                 steady, intact>>

Bug_NoTake == Chunk

Bug_NoSeek == Len(body)

\* What take() still lets through.
Remaining == reply.length - Len(body)

\* Where the handle stands.
Position == promise.range.start + Len(body)

\* One read of the ReaderStream; nothing read is the end of the body.
Read ==
  LET n == Least(Least(Chunk, Remaining), saturating_sub(Len(content[handle]), Position))
  IN
  /\ pc = "stream"
  /\ IF n = 0 THEN pc' = "ended" /\ UNCHANGED body
     ELSE /\ body' = body \o SubSeq(content[handle], Position + 1, Position + n)
          /\ UNCHANGED pc
  /\ UNCHANGED <<diskVars, method, header, promise, handle, reply, playerVars,
                 steady, intact>>

-------------------------------------------------------------------------------
Disk ==
  \/ Publish \/ Remove
  \/ \E c \in Contents : Replace(c)
  \/ path # NoInode
       /\ \E c \in {Append(content[path], b) : b \in Bytes}
                     \cup {SubSeq(content[path], 1, n) : n \in 0 .. Len(content[path]) - 1} :
            Write(c)

Client ==
  \/ \E m \in {"GET", "HEAD"}, h \in Ranges : Ask(m, h)
  \/ Play \/ Resume \/ Cut

Handler == Lookup \/ Stat \/ Open \/ OpenFails \/ Seek \/ Read

Next == Disk \/ Client \/ Handler

Spec == Init /\ [][Next]_vars

-------------------------------------------------------------------------------
(* Properties.                                                            *)

Promise == [status: {200, 206}, size: 0 .. U64Max, length: 0 .. U64Max,
            range: [ok: {TRUE}, start: 0 .. U64Max, end: 0 .. U64Max, partial: BOOLEAN]]

DiskTypeOK ==
  /\ listed \in BOOLEAN /\ path \in Inodes \cup {NoInode}
  /\ content \in [Inodes -> Seq(Bytes)] /\ changes \in 0 .. MaxChanges
  /\ \A i \in Inodes : Len(content[i]) + MaxChanges - changes <= U64Max

RequestTypeOK ==
  /\ pc \in {"idle", "lookup", "stat", "open", "seek", "stream", "ended", "cut"}
  /\ method \in {"GET", "HEAD"} /\ header \in RangeHeader
  /\ promise \in Promise \cup {Unsatisfiable}
  /\ pc \in {"open", "seek", "stream"} => promise \in Promise /\ method = "GET"
  /\ handle \in Inodes \cup {NoInode}
  /\ pc \in {"seek", "stream"} => handle \in Inodes
  /\ reply \in Promise \cup {NoReply} \cup [status: {404, 500}]
                       \cup [status: {416}, size: 0 .. U64Max]
  /\ body \in Seq(Bytes)

TypeOK ==
  /\ DiskTypeOK /\ RequestTypeOK
  /\ played \in Seq(Bytes) /\ playing \in BOOLEAN
  /\ steady \in BOOLEAN /\ intact \in BOOLEAN

\* The bytes of a file of a given size that a Range header selects (RFC 9110,
\* section 14.1.2).
Selected(value, size) ==
  {i \in 0 .. size - 1 :
     \/ value.form = "none"
     \/ value.form = "first-last" /\ value.first <= i /\ i <= value.last
     \/ value.form = "first-" /\ value.first <= i
     \/ value.form = "-suffix" /\ i >= size - value.suffix}

\* The numbers of a Range header are numbers to parse_range.
Fits(value) ==
  /\ value.form = "first-last" => value.first <= U64Max /\ value.last <= U64Max
  /\ value.form = "first-" => value.first <= U64Max
  /\ value.form = "-suffix" => value.suffix <= U64Max

\* What RFC 9110 answers to a Range header for a file of a given size: all of
\* it without the header; else what the range selects, with its own bounds and
\* length; 416 if that is nothing, or not understood.
Answers(value, size, r) ==
  LET all == Selected(value, size) IN
  /\ value.form = "none" => r.status = 200 /\ r.length = size
  /\ value.form # "none" /\ Fits(value) /\ all # {} =>
       /\ r.status = 206
       /\ all = r.range.start .. r.range.end
       /\ r.length = r.range.end - r.range.start + 1
  /\ value.form # "none" /\ ~ (Fits(value) /\ all # {}) => r.status = 416

\* The head of a response is the one that fits the size it names
\* (docs/protocol-research.md:63), whatever the file's size was a moment before
\* or is a moment later.
AnswersRange ==
  reply.status \in {200, 206, 416} => Answers(header, reply.size, reply)

\* The body keeps to its head though the size comes from the path and the data
\* from a handle opened later (http.rs:422-458): never more than Content-Length;
\* if the open file is left alone, the bytes from the range's start on, in
\* order; and fewer than promised only if that file ends before the range does.
BodyMatchesHeaders ==
  reply.status \in {200, 206} =>
    /\ Len(body) <= reply.length
    /\ intact /\ body # <<>> =>
         body = SubSeq(content[handle], reply.range.start + 1,
                       reply.range.start + Len(body))
    /\ intact /\ method = "GET" /\ pc = "ended" /\ ~ Complete =>
         Len(content[handle]) <= reply.range.end

\* A player that resumes after broken connections, each time from the number of
\* bytes it has (docs/protocol-research.md:63), gets the file whole: every byte
\* once and in order, if nobody changed the file meanwhile.  No header lets it
\* notice that somebody did.
ResumedPlaybackIsWhole ==
  playing /\ steady =>
    LET all == played \o body IN
    /\ all # <<>> => path # NoInode /\ Len(all) <= Len(content[path])
                       /\ all = SubSeq(content[path], 1, Len(all))
    /\ Complete => path # NoInode /\ Len(all) = Len(content[path])

===============================================================================
