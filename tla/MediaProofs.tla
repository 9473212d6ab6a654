------------------------------- MODULE MediaProofs ------------------------------
(***************************************************************************)
(* Theorems about Media, for every width of the numbers, every size of     *)
(* files and reads, every Range header and any number of changes.          *)
(***************************************************************************)
EXTENDS Media, SequenceTheorems, TLAPS

\* A range that is given back by the last check of parse_range.
LEMMA PartialRange ==
  ASSUME NEW size \in 0 .. U64Max, NEW start \in 0 .. U64Max, NEW end \in 0 .. U64Max,
         end < size
  PROVE  LET r == Partial(start, end, size) IN
         IF start <= end
           THEN /\ r = [ok |-> TRUE, start |-> start, end |-> end, partial |-> TRUE]
                /\ Length(r, size) = end - start + 1
           ELSE r = Unsatisfiable
<1> USE WidthAssumption
<1>1. CASE start <= end
  <2> DEFINE r == [ok |-> TRUE, start |-> start, end |-> end, partial |-> TRUE]
  <2>1. Partial(start, end, size) = r
    BY <1>1 DEF Partial
  <2>2. r.start = start /\ r.end = end
    OBVIOUS
  <2>3. Length(r, size) = end - start + 1
    BY <1>1, <2>2 DEF Length, saturating_add, saturating_sub
  <2>4. QED
    BY <1>1, <2>1, <2>3
<1>2. CASE ~ (start <= end)
  BY <1>2 DEF Partial
<1>3. QED
  BY <1>1, <1>2

\* The reply that Stat makes of a request.
Answered(value, size) ==
  LET r == parse_range(value, size) IN
  IF r.ok THEN Headers(r, size) ELSE [status |-> 416, size |-> size]

\* No numeral, no size and no form of the header makes parse_range answer with
\* anything but what RFC 9110 selects (http.rs:511-550).
THEOREM RangeIsSelection ==
  ASSUME NEW size \in 0 .. U64Max, NEW value \in RangeHeader
  PROVE  Answers(value, size, Answered(value, size))
<1> USE WidthAssumption
<1> DEFINE r == parse_range(value, size)
           all == Selected(value, size)
           whole == [ok |-> TRUE, start |-> 0, end |-> saturating_sub(size, 1),
                     partial |-> FALSE]
<1>1. CASE value.form = "none"
  <2>1. r = whole
    BY <1>1 DEF parse_range
  <2>2. whole.ok /\ whole.partial = FALSE /\ whole.start = 0
        /\ whole.end = saturating_sub(size, 1)
    OBVIOUS
  <2>3. Length(whole, size) = size
    BY <2>2 DEF Length, saturating_add, saturating_sub
  <2>4. Answered(value, size) = Headers(whole, size)
    BY <2>1, <2>2 DEF Answered
  <2>5. QED
    BY <1>1, <2>2, <2>3, <2>4 DEF Answers, Headers
<1>2. ASSUME value.form # "none", NEW start \in 0 .. U64Max, NEW end \in 0 .. U64Max,
             end < size, r = Partial(start, end, size),
             all = start .. end, Fits(value)
      PROVE  Answers(value, size, Answered(value, size))
  <2>1. CASE start <= end
    <3> DEFINE p == [ok |-> TRUE, start |-> start, end |-> end, partial |-> TRUE]
    <3>1. r = p /\ Length(p, size) = end - start + 1
      BY <1>2, <2>1, PartialRange
    <3>2. Answered(value, size) = Headers(p, size)
      BY <3>1 DEF Answered
    <3>3. /\ Headers(p, size).status = 206 /\ Headers(p, size).length = end - start + 1
          /\ Headers(p, size).range.start = start /\ Headers(p, size).range.end = end
      BY <3>1 DEF Headers
    <3>4. all # {}
      <4>1. start \in all
        BY <1>2, <2>1
      <4> HIDE DEF all
      <4>2. QED
        BY <4>1
    <3>5. QED
      BY <1>2, <3>2, <3>3, <3>4 DEF Answers
  <2>2. CASE ~ (start <= end)
    <3>1. Answered(value, size) = [status |-> 416, size |-> size]
      BY <1>2, <2>2, PartialRange DEF Answered, Unsatisfiable
    <3>2. all = {}
      BY <1>2, <2>2
    <3>3. QED
      BY <1>2, <3>1, <3>2 DEF Answers
  <2>3. QED
    BY <2>1, <2>2
<1>3. ASSUME value.form # "none", r = Unsatisfiable, ~ Fits(value) \/ all = {}
      PROVE  Answers(value, size, Answered(value, size))
  <2>1. Answered(value, size) = [status |-> 416, size |-> size]
    BY <1>3 DEF Answered, Unsatisfiable
  <2>2. QED
    BY <1>3, <2>1 DEF Answers
<1>4. CASE value.form # "none" /\ (size = 0 \/ value.form = "malformed")
  <2>1. r = Unsatisfiable
    BY <1>4 DEF parse_range
  <2>2. all = {}
    BY <1>4 DEF Selected
  <2>3. QED
    BY <1>3, <1>4, <2>1, <2>2
<1>5. CASE size > 0 /\ value.form = "-suffix"
  <2>1. value.suffix \in Nat
    BY <1>5 DEF RangeHeader, Numerals
  <2>2. CASE value.suffix > U64Max \/ value.suffix = 0
    <3>1. r = Unsatisfiable
      BY <1>5, <2>1, <2>2 DEF parse_range, Parses
    <3>2. ~ Fits(value) \/ all = {}
      BY <1>5, <2>1, <2>2 DEF Fits, Selected
    <3>3. QED
      BY <1>3, <1>5, <3>1, <3>2
  <2>3. CASE value.suffix <= U64Max /\ value.suffix # 0
    <3> DEFINE start == saturating_sub(size, value.suffix)
    <3>1. start \in 0 .. U64Max /\ size - 1 \in 0 .. U64Max
      BY <1>5, <2>1 DEF saturating_sub
    <3>2. r = Partial(start, size - 1, size)
      BY <1>5, <2>1, <2>3 DEF parse_range, Parses
    <3>3. all = start .. size - 1
      BY <1>5, <2>1, <2>3 DEF Selected, saturating_sub
    <3>4. Fits(value)
      BY <1>5, <2>3 DEF Fits
    <3> HIDE DEF start
    <3>5. QED
      BY <1>2, <1>5, <3>1, <3>2, <3>3, <3>4
  <2>4. QED
    BY <2>1, <2>2, <2>3
<1>6. CASE size > 0 /\ value.form = "first-"
  <2>1. value.first \in Nat
    BY <1>6 DEF RangeHeader, Numerals
  <2>2. CASE value.first > U64Max
    <3>1. r = Unsatisfiable
      BY <1>6, <2>1, <2>2 DEF parse_range, Parses
    <3>2. ~ Fits(value)
      BY <1>6, <2>1, <2>2 DEF Fits
    <3>3. QED
      BY <1>3, <1>6, <3>1, <3>2
  <2>3. CASE value.first <= U64Max
    <3>1. value.first \in 0 .. U64Max /\ size - 1 \in 0 .. U64Max
      BY <1>6, <2>1, <2>3
    <3>2. r = Partial(value.first, size - 1, size)
      BY <1>6, <2>1, <2>3 DEF parse_range, Parses
    <3>3. all = value.first .. size - 1
      BY <1>6, <2>1 DEF Selected
    <3>4. Fits(value)
      BY <1>6, <2>3 DEF Fits
    <3>5. QED
      BY <1>2, <1>6, <3>1, <3>2, <3>3, <3>4
  <2>4. QED
    BY <2>1, <2>2, <2>3
<1>7. CASE size > 0 /\ value.form = "first-last"
  <2>1. value.first \in Nat /\ value.last \in Nat
    BY <1>7 DEF RangeHeader, Numerals
  <2>2. CASE value.first > U64Max \/ value.last > U64Max
    <3>1. r = Unsatisfiable
      BY <1>7, <2>1, <2>2 DEF parse_range, Parses
    <3>2. ~ Fits(value)
      BY <1>7, <2>1, <2>2 DEF Fits
    <3>3. QED
      BY <1>3, <1>7, <3>1, <3>2
  <2>3. CASE value.first <= U64Max /\ value.last <= U64Max
    <3> DEFINE end == Least(value.last, size - 1)
    <3>1. value.first \in 0 .. U64Max /\ end \in 0 .. U64Max /\ end < size
      BY <1>7, <2>1, <2>3 DEF Least
    <3>2. r = Partial(value.first, end, size)
      BY <1>7, <2>1, <2>3 DEF parse_range, Parses
    <3>3. all = value.first .. end
      BY <1>7, <2>1 DEF Selected, Least
    <3>4. Fits(value)
      BY <1>7, <2>3 DEF Fits
    <3> HIDE DEF end
    <3>5. QED
      BY <1>2, <1>7, <3>1, <3>2, <3>3, <3>4
  <2>4. QED
    BY <2>1, <2>2, <2>3
<1>8. QED
  BY <1>1, <1>4, <1>5, <1>6, <1>7 DEF RangeHeader

\* What parse_range gives back lies in the file.
LEMMA RangeInFile ==
  ASSUME NEW size \in 0 .. U64Max, NEW value \in RangeHeader,
         parse_range(value, size).ok
  PROVE  \E start \in 0 .. U64Max, end \in 0 .. U64Max, partial \in BOOLEAN :
           /\ parse_range(value, size) =
                [ok |-> TRUE, start |-> start, end |-> end, partial |-> partial]
           /\ start <= end
           /\ size > 0 => end < size
<1> USE WidthAssumption
<1> DEFINE r == parse_range(value, size)
<1>1. ASSUME NEW start \in 0 .. U64Max, NEW end \in 0 .. U64Max, r = Partial(start, end, size)
      PROVE  /\ r = [ok |-> TRUE, start |-> start, end |-> end, partial |-> TRUE]
             /\ start <= end
  BY <1>1 DEF Partial, Unsatisfiable
<1>2. CASE value.form = "none"
  <2> DEFINE e == saturating_sub(size, 1)
  <2>1. r = [ok |-> TRUE, start |-> 0, end |-> e, partial |-> FALSE]
    BY <1>2 DEF parse_range
  <2>2. e \in 0 .. U64Max /\ 0 <= e /\ (size > 0 => e < size) /\ 0 \in 0 .. U64Max
    BY DEF saturating_sub
  <2> HIDE DEF e
  <2>3. QED
    BY <2>1, <2>2
<1>3. CASE value.form # "none" /\ size > 0 /\ value.form = "-suffix"
  <2> DEFINE s == saturating_sub(size, value.suffix)
  <2>1. value.suffix \in Nat
    BY <1>3 DEF RangeHeader, Numerals
  <2>2. r = Partial(s, size - 1, size)
    BY <1>3, <2>1 DEF parse_range, Parses, Unsatisfiable
  <2>3. s \in 0 .. U64Max /\ size - 1 \in 0 .. U64Max /\ size - 1 < size
    BY <1>3, <2>1 DEF saturating_sub
  <2> HIDE DEF s
  <2>4. QED
    BY <1>1, <2>2, <2>3
<1>4. CASE value.form # "none" /\ size > 0 /\ value.form = "first-"
  <2>1. value.first \in Nat
    BY <1>4 DEF RangeHeader, Numerals
  <2>2. value.first <= U64Max /\ r = Partial(value.first, size - 1, size)
    BY <1>4, <2>1 DEF parse_range, Parses, Unsatisfiable
  <2>3. size - 1 \in 0 .. U64Max /\ size - 1 < size /\ value.first \in 0 .. U64Max
    BY <1>4, <2>1, <2>2
  <2>4. QED
    BY <1>1, <2>2, <2>3
<1>5. CASE value.form # "none" /\ size > 0 /\ value.form = "first-last"
  <2> DEFINE e == Least(value.last, size - 1)
  <2>1. value.first \in Nat /\ value.last \in Nat
    BY <1>5 DEF RangeHeader, Numerals
  <2>2. value.first <= U64Max /\ r = Partial(value.first, e, size)
    BY <1>5, <2>1 DEF parse_range, Parses, Unsatisfiable
  <2>3. e \in 0 .. U64Max /\ e < size /\ value.first \in 0 .. U64Max
    BY <1>5, <2>1, <2>2 DEF Least
  <2> HIDE DEF e
  <2>4. QED
    BY <1>1, <2>2, <2>3
<1>6. CASE value.form # "none" /\ (size = 0 \/ value.form = "malformed")
  BY <1>6 DEF parse_range, Unsatisfiable
<1>7. QED
  BY <1>2, <1>3, <1>4, <1>5, <1>6 DEF RangeHeader

-------------------------------------------------------------------------------
(* The handler.                                                            *)

\* The headers of an allowed range are a promise that the file could keep.
LEMMA HeadersOfRange ==
  ASSUME NEW size \in 0 .. U64Max, NEW value \in RangeHeader,
         parse_range(value, size).ok
  PROVE  LET h == Headers(parse_range(value, size), size) IN
         /\ h \in Promise
         /\ h.size = size
         /\ h.length = IF size = 0 THEN 0 ELSE h.range.end - h.range.start + 1
         /\ size > 0 => h.range.start <= h.range.end /\ h.range.end < size
<1> USE WidthAssumption
<1> DEFINE r == parse_range(value, size)
<1>1. PICK start \in 0 .. U64Max, end \in 0 .. U64Max, partial \in BOOLEAN :
        /\ r = [ok |-> TRUE, start |-> start, end |-> end, partial |-> partial]
        /\ start <= end
        /\ size > 0 => end < size
  BY RangeInFile
<1> HIDE DEF r
<1>2. r.start = start /\ r.end = end /\ r.partial = partial
  BY <1>1
<1>3. Length(r, size) = IF size = 0 THEN 0 ELSE end - start + 1
  BY <1>1, <1>2 DEF Length, saturating_add, saturating_sub
<1>4. Length(r, size) \in 0 .. U64Max
  BY <1>1, <1>3
<1> DEFINE status == IF partial THEN 206 ELSE 200
<1>5. Headers(r, size) = [status |-> status, length |-> Length(r, size),
                          range |-> r, size |-> size]
  BY <1>2 DEF Headers
<1>6. Headers(r, size) \in Promise
  <2> DEFINE R == [ok: {TRUE}, start: 0 .. U64Max, end: 0 .. U64Max, partial: BOOLEAN]
             n == Length(r, size)
  <2>1. r \in R
    BY <1>1
  <2>2. status \in {200, 206}
    OBVIOUS
  <2>3. n \in 0 .. U64Max /\ Promise = [status: {200, 206}, size: 0 .. U64Max,
                                     length: 0 .. U64Max, range: R]
    BY <1>4 DEF Promise
  <2>4. Headers(r, size) = [status |-> status, length |-> n, range |-> r, size |-> size]
    BY <1>5
  <2> HIDE DEF status, R, n
  <2>5. QED
    BY <2>1, <2>2, <2>3, <2>4
<1>7. QED
  BY <1>1, <1>2, <1>3, <1>5, <1>6 DEF r

\* What a step of the disk leaves well typed.
LEMMA DiskTypes ==
  ASSUME TypeOK, Disk
  PROVE  DiskTypeOK' /\ steady' = FALSE /\ intact' \in BOOLEAN
<1> USE ChangesAssumption
<1>1. ASSUME Change
      PROVE  changes' = changes + 1 /\ changes' \in 0 .. MaxChanges /\ steady' = FALSE
             /\ changes + 1 \in Inodes
  BY <1>1 DEF Change, TypeOK, DiskTypeOK, Inodes
<1>2. ASSUME NEW i \in Inodes
      PROVE  content[i] \in Seq(Bytes) /\ Len(content[i]) \in Nat
             /\ Len(content[i]) + MaxChanges - changes <= U64Max
  BY DEF TypeOK, DiskTypeOK
<1>3. U64Max \in Nat /\ changes \in 0 .. MaxChanges
  BY WidthAssumption DEF TypeOK, DiskTypeOK
<1>4. CASE Publish \/ Remove
  <2>1. Change /\ UNCHANGED <<content, intact>> /\ listed' \in BOOLEAN
        /\ path' \in Inodes \cup {NoInode}
    BY <1>4 DEF Publish, Remove, TypeOK, DiskTypeOK
  <2>2. QED
    BY <1>1, <1>2, <1>3, <2>1 DEF TypeOK, DiskTypeOK
<1>5. ASSUME NEW c \in Contents, Replace(c)
      PROVE  /\ content' \in [Inodes -> Seq(Bytes)] /\ path' \in Inodes
             /\ \A i \in Inodes : Len(content'[i]) + MaxChanges - changes' <= U64Max
             /\ Change /\ UNCHANGED <<listed, intact>>
  <2>1. c \in Seq(Bytes) /\ Len(c) \in Nat /\ Len(c) + MaxChanges <= U64Max
    BY SizesAssumption
  <2>2. /\ Change /\ UNCHANGED <<listed, intact>> /\ path' = changes + 1
        /\ content' = [content EXCEPT ![changes + 1] = c]
    BY <1>5 DEF Replace
  <2>3. ASSUME NEW i \in Inodes
        PROVE  content'[i] = IF i = changes + 1 THEN c ELSE content[i]
    BY <2>2 DEF TypeOK, DiskTypeOK
  <2>4. \A i \in Inodes : Len(content'[i]) + MaxChanges - changes' <= U64Max
    BY <1>1, <1>2, <1>3, <2>1, <2>2, <2>3
  <2>5. QED
    BY <1>1, <2>1, <2>2, <2>4 DEF TypeOK, DiskTypeOK
<1>6. ASSUME path # NoInode,
             NEW c \in {Append(content[path], b) : b \in Bytes}
                  \cup {SubSeq(content[path], 1, n) : n \in 0 .. Len(content[path]) - 1},
             Write(c)
      PROVE  /\ content' \in [Inodes -> Seq(Bytes)]
             /\ \A i \in Inodes : Len(content'[i]) + MaxChanges - changes' <= U64Max
             /\ Change /\ UNCHANGED <<listed, path>> /\ intact' \in BOOLEAN
  <2>1. path \in Inodes
    BY <1>6 DEF TypeOK, DiskTypeOK
  <2>2. c \in Seq(Bytes) /\ Len(c) <= Len(content[path]) + 1
    BY <1>2, <1>6, <2>1
  <2>3. /\ Change /\ UNCHANGED <<listed, path>> /\ intact' \in BOOLEAN
        /\ content' = [content EXCEPT ![path] = c]
    BY <1>6 DEF Write, TypeOK
  <2>4. ASSUME NEW i \in Inodes
        PROVE  content'[i] = IF i = path THEN c ELSE content[i]
    BY <2>3 DEF TypeOK, DiskTypeOK
  <2>5. \A i \in Inodes : Len(content'[i]) + MaxChanges - changes' <= U64Max
    BY <1>1, <1>2, <1>3, <2>1, <2>2, <2>3, <2>4
  <2>6. QED
    BY <2>1, <2>2, <2>3, <2>5 DEF TypeOK, DiskTypeOK
<1>7. QED
  BY <1>1, <1>4, <1>5, <1>6 DEF Disk, TypeOK, DiskTypeOK

\* The stream begins with an empty body and never sends more than it promised.
StreamOK ==
  /\ pc \in {"lookup", "stat", "open", "seek"} => body = <<>> /\ reply = NoReply
  /\ pc = "stream" => reply = promise /\ Len(body) <= reply.length

\* A read appends to the body what the file has at the handle's position, and
\* ends the body only at the end of the file or of take().
LEMMA ReadGrows ==
  ASSUME TypeOK, StreamOK, Read
  PROVE  /\ body' \in Seq(Bytes)
         /\ Len(body) <= Len(body') /\ Len(body') <= reply.length
         /\ \A i \in 1 .. Len(body) : body'[i] = body[i]
         /\ \A i \in Len(body) + 1 .. Len(body') :
              /\ promise.range.start + i <= Len(content[handle])
              /\ body'[i] = content[handle][promise.range.start + i]
         /\ pc' = "ended" => /\ body' = body
                            /\ \/ Len(body) = reply.length
                               \/ Len(content[handle]) <= promise.range.start + Len(body)
         /\ pc' \in {"stream", "ended"}
         /\ UNCHANGED <<content, handle, promise, reply>>
<1> DEFINE file == content[handle]
           start == promise.range.start
           n == Least(Least(Chunk, Remaining), saturating_sub(Len(file), Position))
           more == SubSeq(file, Position + 1, Position + n)
<1>1. /\ file \in Seq(Bytes) /\ Len(file) \in Nat
      /\ body \in Seq(Bytes) /\ Len(body) \in Nat
      /\ start \in Nat /\ reply.length \in Nat /\ reply.length >= Len(body)
      /\ reply = promise /\ pc = "stream"
  <2>1. pc = "stream" /\ handle \in Inodes /\ promise \in Promise
    BY DEF Read, TypeOK, RequestTypeOK
  <2>2. promise.range.start \in 0 .. U64Max /\ promise.length \in 0 .. U64Max
    BY <2>1 DEF Promise
  <2>3. file \in Seq(Bytes) /\ body \in Seq(Bytes)
    BY <2>1 DEF TypeOK, RequestTypeOK, DiskTypeOK
  <2>4. QED
    BY <2>1, <2>2, <2>3, WidthAssumption DEF StreamOK
<1>2. Position = start + Len(body) /\ Remaining = reply.length - Len(body)
  BY DEF Position, Remaining
<1>3. /\ n \in Nat /\ n <= reply.length - Len(body)
      /\ n = 0 \/ start + Len(body) + n <= Len(file)
      /\ n = 0 => \/ Len(body) = reply.length
                  \/ Len(file) <= start + Len(body)
  <2> DEFINE rest == Remaining
             there == saturating_sub(Len(file), Position)
  <2>1. rest \in Nat /\ rest = reply.length - Len(body)
    BY <1>1, <1>2
  <2>2. there \in Nat /\ (there = 0 => Len(file) <= start + Len(body))
        /\ (there > 0 => start + Len(body) + there = Len(file))
    <3>1. Position \in Nat /\ Len(file) \in Nat
      BY <1>1, <1>2
    <3>2. there = IF Position > Len(file) THEN 0 ELSE Len(file) - Position
      BY DEF saturating_sub
    <3> HIDE DEF there, file, start
    <3>3. /\ there \in Nat /\ (there = 0 => Len(file) <= Position)
          /\ (there > 0 => Position + there = Len(file))
      BY <3>1, <3>2
    <3>4. QED
      BY <1>2, <3>3
  <2>3. n = Least(Least(Chunk, rest), there)
    OBVIOUS
  <2> HIDE DEF n, rest, there
  <2>4. /\ n \in Nat /\ n <= rest /\ n <= there
        /\ n = 0 => rest = 0 \/ there = 0
    BY <2>1, <2>2, <2>3, WidthAssumption DEF Least
  <2>5. n = 0 \/ start + Len(body) + n <= Len(file)
    BY <1>1, <2>2, <2>4
  <2>6. QED
    BY <1>1, <2>1, <2>2, <2>4, <2>5
<1>4. UNCHANGED <<content, handle, promise, reply>>
  BY DEF Read, diskVars
<1>5. \/ n = 0 /\ pc' = "ended" /\ body' = body
      \/ n # 0 /\ pc' = pc /\ body' = body \o more
  BY DEF Read
<1> HIDE DEF n, start, file
<1>6. CASE n = 0
  <2>1. body' = body /\ pc' = "ended"
    BY <1>5, <1>6
  <2>2. Len(body') = Len(body) /\ Len(body) + 1 .. Len(body') = {}
    BY <1>1, <2>1
  <2>3. Len(body) <= Len(body') /\ Len(body') <= reply.length
    BY <1>1, <2>2
  <2>4. QED
    BY <1>1, <1>3, <1>4, <1>6, <2>1, <2>2, <2>3 DEF start, file
<1>7. CASE n # 0
  <2>1. /\ more \in Seq(Bytes) /\ Len(more) = n
        /\ \A j \in 1 .. n : more[j] = file[start + Len(body) + j]
    BY <1>1, <1>2, <1>3, <1>7
  <2>0. start \in Nat /\ Len(body) \in Nat /\ n \in Nat /\ body \in Seq(Bytes)
    BY <1>1, <1>3
  <2> HIDE DEF more
  <2>2. body' = body \o more /\ pc' = "stream"
    BY <1>1, <1>5, <1>7
  <2>3. body' \in Seq(Bytes) /\ Len(body') = Len(body) + n
    BY <2>0, <2>1, <2>2, ConcatProperties
  <2>4. \A i \in 1 .. Len(body) : body'[i] = body[i]
    BY <2>0, <2>1, <2>2
  <2>5. ASSUME NEW i \in Len(body) + 1 .. Len(body')
        PROVE  start + i <= Len(file) /\ body'[i] = file[start + i]
    <3>1. i \in Nat /\ i - Len(body) \in 1 .. n
      BY <1>1, <1>3, <2>3
    <3>2. body'[i] = more[i - Len(body)]
      BY <1>1, <1>3, <2>1, <2>2, <2>3, <3>1
    <3>3. more[i - Len(body)] = file[start + Len(body) + (i - Len(body))]
      BY <2>1, <3>1
    <3>4. start + Len(body) + (i - Len(body)) = start + i
      BY <2>0, <3>1
    <3>5. start + i <= Len(file)
      BY <1>1, <1>3, <1>7, <3>1
    <3>6. QED
      BY <3>2, <3>3, <3>4, <3>5
  <2>6. Len(body) <= Len(body') /\ Len(body') <= reply.length
    BY <1>1, <1>3, <2>0, <2>3
  <2>7. QED
    BY <1>4, <2>2, <2>3, <2>4, <2>5, <2>6 DEF start, file
<1>8. QED
  BY <1>6, <1>7 DEF start, file

\* The disk, the request and the player are well typed; sizes are u64.
THEOREM TypeCorrect == Spec => [](TypeOK /\ StreamOK)
<1> USE WidthAssumption, ChangesAssumption
<1>1. Init => TypeOK
  <2> SUFFICES ASSUME Init PROVE TypeOK
    OBVIOUS
  <2>1. PICK c \in Contents : content = [i \in Inodes |-> IF i = 0 THEN c ELSE <<>>]
    BY DEF Init
  <2>2. c \in Seq(Bytes) /\ Len(c) + MaxChanges <= U64Max /\ Len(c) \in Nat
        /\ <<>> \in Seq(Bytes) /\ Len(<<>>) = 0
    BY SizesAssumption
  <2>3. content \in [Inodes -> Seq(Bytes)]
    BY <2>1, <2>2
  <2>4. \A i \in Inodes : Len(content[i]) + MaxChanges - changes <= U64Max
    BY <2>1, <2>2 DEF Init
  <2>5. header \in RangeHeader
    BY DEF Init, RangeHeader
  <2>6. path \in Inodes /\ changes \in 0 .. MaxChanges
    BY DEF Init, Inodes
  <2>7. QED
    BY <2>2, <2>3, <2>4, <2>5, <2>6 DEF Init, TypeOK, DiskTypeOK, RequestTypeOK
<1>2. TypeOK /\ StreamOK /\ [Next]_vars => TypeOK'
  <2> SUFFICES ASSUME TypeOK, StreamOK, [Next]_vars PROVE TypeOK'
    OBVIOUS
  <2> USE DEF diskVars, requestVars, playerVars
  <2>1. CASE Disk
    <3>1. UNCHANGED <<pc, method, header, promise, handle, reply, body, playing, played>>
      <4>1. Change
        BY <2>1 DEF Disk, Publish, Remove, Replace, Write
      <4>2. QED
        BY <4>1 DEF Change
    <3>2. RequestTypeOK'
      BY <3>1 DEF TypeOK, RequestTypeOK
    <3>3. DiskTypeOK' /\ steady' = FALSE /\ intact' \in BOOLEAN
      BY <2>1, DiskTypes
    <3>4. QED
      BY <3>1, <3>2, <3>3 DEF TypeOK
  <2>2. ASSUME NEW m \in {"GET", "HEAD"}, NEW h \in RangeHeader, Send(m, h),
               playing' \in BOOLEAN, played' \in Seq(Bytes), steady' \in BOOLEAN
        PROVE  TypeOK'
    <3>1. pc' = "lookup" /\ promise' = Unsatisfiable /\ handle' = NoInode /\ reply' = NoReply
          /\ body' = <<>> /\ intact' = TRUE /\ method' = m /\ header' = h
          /\ UNCHANGED <<listed, path, content, changes>>
      BY <2>2 DEF Send
    <3>2. body' \in Seq(Bytes)
      BY <3>1
    <3>3. QED
      BY <2>2, <3>1, <3>2 DEF TypeOK, DiskTypeOK, RequestTypeOK
  <2>3. CASE Client
    <3>1. ASSUME NEW m \in {"GET", "HEAD"}, NEW h \in Ranges, Ask(m, h) PROVE TypeOK'
      <4>1. <<>> \in Seq(Bytes)
        OBVIOUS
      <4>2. QED
        BY <2>2, <3>1, <4>1, RangesAssumption DEF Ask
    <3>2. CASE Play
      <4>1. <<>> \in Seq(Bytes) /\ [form |-> "none"] \in RangeHeader
        BY RangesAssumption
      <4>2. QED
        BY <2>2, <3>2, <4>1 DEF Play
    <3>3. CASE Resume
      <4>1. played \o body \in Seq(Bytes) /\ Len(played \o body) \in Nat
        BY DEF TypeOK, DiskTypeOK, RequestTypeOK
      <4>2. [form |-> "none"] \in RangeHeader
            /\ [form |-> "first-", first |-> Len(played \o body)] \in RangeHeader
        BY <4>1 DEF RangeHeader, Numerals
      <4>3. played' \in Seq(Bytes) /\ playing' \in BOOLEAN /\ steady' \in BOOLEAN
        BY <3>3, <4>1 DEF Resume, TypeOK, DiskTypeOK, RequestTypeOK
      <4>4. \E h \in RangeHeader : Send("GET", h)
        BY <3>3, <4>2 DEF Resume
      <4>5. QED
        BY <2>2, <4>3, <4>4
    <3>4. CASE Cut
      BY <3>4 DEF Cut, TypeOK, DiskTypeOK, RequestTypeOK
    <3>5. QED
      BY <2>3, <3>1, <3>2, <3>3, <3>4 DEF Client
  <2>4. CASE Handler
    <3>1. UNCHANGED <<listed, path, content, changes, method, header, playing, played, steady>>
      BY <2>4 DEF Handler, Lookup, Stat, Open, OpenFails, Seek, Read
    <3>2. CASE Lookup
      BY <3>1, <3>2 DEF Lookup, Fail, TypeOK, DiskTypeOK, RequestTypeOK
    <3>3. CASE Stat
      <4> DEFINE size == Len(content[path])
                 r == parse_range(header, size)
      <4>1. UNCHANGED <<handle, body, intact>> /\ pc = "stat"
        BY <3>3 DEF Stat
      <4>2. CASE path = NoInode
        BY <3>1, <3>3, <4>1, <4>2 DEF Stat, Fail, TypeOK, DiskTypeOK, RequestTypeOK
      <4>3. CASE path # NoInode
        <5>1. size \in 0 .. U64Max /\ header \in RangeHeader
          BY <4>3 DEF TypeOK, DiskTypeOK, RequestTypeOK
        <5>2. CASE ~ r.ok
          <6>1. promise' = Unsatisfiable /\ reply' = [status |-> 416, size |-> size]
                /\ pc' = "ended"
            BY <3>3, <4>3, <5>2 DEF Stat
          <6>2. reply' \in [status: {416}, size: 0 .. U64Max]
            BY <5>1, <6>1
          <6>3. QED
            BY <3>1, <4>1, <6>1, <6>2 DEF TypeOK, DiskTypeOK, RequestTypeOK
        <5>3. CASE r.ok
          <6>1. Headers(r, size) \in Promise
            BY <5>1, <5>3, HeadersOfRange
          <6>2. /\ promise' = Headers(r, size)
                /\ \/ reply' = Headers(r, size) /\ pc' = "ended"
                   \/ pc' = "open" /\ reply' = reply /\ method = "GET"
            BY <3>3, <4>3, <5>3 DEF Stat, TypeOK, DiskTypeOK, RequestTypeOK
          <6> HIDE DEF r, size
          <6>3. QED
            BY <3>1, <4>1, <6>1, <6>2 DEF TypeOK, DiskTypeOK, RequestTypeOK
        <5>4. QED
          BY <5>2, <5>3
      <4>4. QED
        BY <4>2, <4>3
    <3>4. CASE Open
      BY <3>1, <3>4 DEF Open, TypeOK, DiskTypeOK, RequestTypeOK
    <3>5. CASE OpenFails
      BY <3>1, <3>5 DEF OpenFails, Fail, TypeOK, DiskTypeOK, RequestTypeOK
    <3>6. CASE Seek
      BY <3>1, <3>6 DEF Seek, Fail, TypeOK, DiskTypeOK, RequestTypeOK
    <3>7. CASE Read
      <4>1. body' \in Seq(Bytes)
        BY <3>7, ReadGrows
      <4>2. pc = "stream" /\ pc' \in {"ended", "stream"}
            /\ UNCHANGED <<promise, handle, reply, intact>>
        BY <3>7 DEF Read
      <4>3. QED
        BY <3>1, <4>1, <4>2 DEF TypeOK, DiskTypeOK, RequestTypeOK
    <3>8. QED
      BY <2>4, <3>2, <3>3, <3>4, <3>5, <3>6, <3>7 DEF Handler
  <2>5. CASE UNCHANGED vars
    <3>1. RequestTypeOK'
      BY <2>5 DEF TypeOK, RequestTypeOK, vars
    <3>2. DiskTypeOK'
      BY <2>5 DEF TypeOK, DiskTypeOK, vars
    <3>3. QED
      BY <2>5, <3>1, <3>2 DEF TypeOK, vars
  <2>6. QED
    BY <2>1, <2>3, <2>4, <2>5 DEF Next
<1>3. Init => StreamOK
  BY DEF Init, StreamOK
<1>4. TypeOK /\ StreamOK /\ [Next]_vars => StreamOK'
  <2> SUFFICES ASSUME TypeOK, StreamOK, [Next]_vars PROVE StreamOK'
    OBVIOUS
  <2> USE DEF diskVars, requestVars, playerVars
  <2>1. CASE UNCHANGED <<pc, body, reply, promise>>
    BY <2>1 DEF StreamOK
  <2>2. CASE Disk
    <3>1. Change
      BY <2>2 DEF Disk, Publish, Remove, Replace, Write
    <3>2. QED
      BY <2>1, <3>1 DEF Change
  <2>3. ASSUME NEW m, NEW h, Send(m, h) PROVE StreamOK'
    BY <2>3 DEF Send, StreamOK
  <2>4. CASE Client
    <3>1. CASE Cut
      BY <3>1 DEF Cut, StreamOK
    <3>2. CASE ~ Cut
      BY <2>3, <2>4, <3>2 DEF Client, Ask, Play, Resume
    <3>3. QED
      BY <3>1, <3>2
  <2>5. ASSUME pc' = "stream", reply' = promise, promise \in Promise, promise' = promise,
               body' = body, body = <<>>
        PROVE  StreamOK'
    <3>1. Len(body') = 0 /\ promise.length \in 0 .. U64Max
      BY <2>5 DEF Promise
    <3>2. QED
      BY <2>5, <3>1 DEF StreamOK
  <2>6. CASE Lookup \/ Stat \/ OpenFails
    BY <2>6 DEF Lookup, Stat, OpenFails, Fail, StreamOK
  <2>7. CASE Open
    BY <2>5, <2>7 DEF Open, StreamOK, TypeOK, RequestTypeOK
  <2>8. CASE Seek
    <3>1. CASE pc' = "stream"
      BY <2>5, <2>8, <3>1 DEF Seek, Fail, StreamOK, TypeOK, RequestTypeOK
    <3>2. CASE pc' # "stream"
      BY <2>8, <3>2 DEF Seek, Fail, StreamOK
    <3>3. QED
      BY <3>1, <3>2
  <2>9. CASE Read
    <3>1. reply = promise
      BY <2>9 DEF Read, StreamOK
    <3>2. QED
      BY <2>9, <3>1, ReadGrows DEF StreamOK
  <2>10. QED
    BY <2>1, <2>2, <2>4, <2>6, <2>7, <2>8, <2>9 DEF Next, Handler, vars
<1>5. QED
  BY <1>1, <1>2, <1>3, <1>4, PTL DEF Spec

-------------------------------------------------------------------------------
(* The heads of responses.                                                 *)

\* A head that the file of its size could keep.
Kept(h) ==
  /\ h.length = IF h.size = 0 THEN 0 ELSE h.range.end - h.range.start + 1
  /\ h.size > 0 => h.range.start <= h.range.end /\ h.range.end < h.size

\* What Stat found is what the response will say.
AnswerInv ==
  /\ promise # Unsatisfiable => Answers(header, promise.size, promise) /\ Kept(promise)
  /\ reply.status \in {200, 206} => reply = promise /\ promise # Unsatisfiable
  /\ reply.status = 416 => Answers(header, reply.size, reply)

\* Only these steps touch a head.
LEMMA HeadSteps ==
  ASSUME Next
  PROVE  \/ UNCHANGED <<header, promise, reply>>
         \/ promise' = Unsatisfiable /\ reply' = NoReply
         \/ reply' = promise /\ UNCHANGED <<header, promise>> /\ pc \in {"open", "seek"}
         \/ reply' \in [status: {404, 500}] /\ UNCHANGED <<header, promise>>
         \/ Stat
<1> USE DEF diskVars, requestVars, playerVars
<1>1. CASE Disk
  <2>1. Change
    BY <1>1 DEF Disk, Publish, Remove, Replace, Write
  <2>2. QED
    BY <2>1 DEF Change
<1>2. CASE Client
  <2>1. Cut \/ \E m \in {"GET", "HEAD"} : \E h : Send(m, h)
    BY <1>2, Zenon DEF Client, Ask, Play, Resume
  <2>2. QED
    BY <2>1 DEF Cut, Send
<1>3. CASE Handler
  <2>1. CASE Lookup \/ OpenFails
    BY <2>1 DEF Lookup, OpenFails, Fail
  <2>2. CASE Open
    BY <2>2 DEF Open
  <2>3. CASE Seek
    BY <2>3 DEF Seek, Fail
  <2>4. CASE Read
    BY <2>4 DEF Read
  <2>5. QED
    BY <1>3, <2>1, <2>2, <2>3, <2>4 DEF Handler
<1>4. QED
  BY <1>1, <1>2, <1>3 DEF Next

\* What Stat leaves behind.
LEMMA StatSteps ==
  ASSUME TypeOK, Stat
  PROVE  /\ UNCHANGED <<header, handle, body, content, path>>
         /\ \/ reply' = [status |-> 404] /\ promise' = promise /\ pc' = "ended"
            \/ /\ path \in Inodes /\ promise' = Unsatisfiable
               /\ reply'.status = 416 /\ Answers(header, reply'.size, reply')
               /\ pc' = "ended"
            \/ /\ path \in Inodes /\ promise' \in Promise /\ Kept(promise')
               /\ promise'.size = Len(content[path])
               /\ Answers(header, promise'.size, promise')
               /\ \/ pc' = "ended" /\ reply' = promise'
                     /\ (method = "HEAD" \/ promise'.length = 0)
                  \/ pc' = "open" /\ reply' = reply
<1> DEFINE size == Len(content[path])
           r == parse_range(header, size)
<1>1. UNCHANGED <<header, handle, body, content, path>> /\ pc = "stat"
  BY DEF Stat, diskVars
<1>2. CASE path = NoInode
  BY <1>1, <1>2 DEF Stat, Fail
<1>3. CASE path # NoInode
  <2>1. path \in Inodes /\ size \in 0 .. U64Max /\ header \in RangeHeader
    BY <1>3, WidthAssumption, ChangesAssumption DEF TypeOK, DiskTypeOK, RequestTypeOK
  <2>2. Answers(header, size, Answered(header, size))
    BY <2>1, RangeIsSelection
  <2>3. CASE ~ r.ok
    <3>1. promise' = Unsatisfiable /\ reply' = [status |-> 416, size |-> size] /\ pc' = "ended"
      BY <1>3, <2>3 DEF Stat
    <3>2. Answered(header, size) = [status |-> 416, size |-> size]
      BY <2>3 DEF Answered
    <3>3. reply'.status = 416 /\ reply'.size = size
      BY <3>1
    <3> HIDE DEF size
    <3>4. Answers(header, reply'.size, reply')
      BY <2>2, <3>1, <3>2, <3>3
    <3>5. QED
      BY <1>1, <2>1, <3>1, <3>3, <3>4
  <2>4. CASE r.ok
    <3> DEFINE h == Headers(r, size)
    <3>1. h \in Promise /\ Kept(h) /\ h.size = size
      BY <2>1, <2>4, HeadersOfRange DEF Kept
    <3>2. Answered(header, size) = h
      BY <2>4 DEF Answered
    <3>3. /\ promise' = h
          /\ \/ pc' = "ended" /\ reply' = h /\ (method = "HEAD" \/ h.length = 0)
             \/ pc' = "open" /\ reply' = reply
      BY <1>3, <2>4 DEF Stat, Headers
    <3> HIDE DEF h, size
    <3>4. Answers(header, promise'.size, promise') /\ promise'.size = size
      BY <2>2, <3>1, <3>2, <3>3
    <3>5. QED
      BY <1>1, <2>1, <3>1, <3>3, <3>4 DEF size
  <2>5. QED
    BY <2>3, <2>4
<1>4. QED
  BY <1>2, <1>3


\* Every step of a request leaves its head as Stat found it.
LEMMA HeadsAsFound == Spec => []AnswerInv
<1>1. Init => AnswerInv
  BY DEF Init, AnswerInv, NoReply, Unsatisfiable
<1>2. TypeOK /\ StreamOK /\ AnswerInv /\ [Next]_vars => AnswerInv'
  <2> SUFFICES ASSUME TypeOK, StreamOK, AnswerInv, [Next]_vars PROVE AnswerInv'
    OBVIOUS
  <2>1. CASE UNCHANGED <<header, promise, reply>>
    BY <2>1 DEF AnswerInv
  <2>2. CASE promise' = Unsatisfiable /\ reply' = NoReply
    BY <2>2 DEF AnswerInv, NoReply
  <2>3. CASE reply' = promise /\ UNCHANGED <<header, promise>> /\ pc \in {"open", "seek"}
    <3>1. promise \in Promise
      BY <2>3 DEF TypeOK, RequestTypeOK
    <3>2. promise.status \in {200, 206} /\ promise # Unsatisfiable
      BY <3>1 DEF Promise, Unsatisfiable
    <3>3. reply' = promise' /\ promise' # Unsatisfiable /\ reply'.status # 416
      BY <2>3, <3>2
    <3>4. Answers(header', promise'.size, promise') /\ Kept(promise')
      BY <2>3, <3>2 DEF AnswerInv
    <3>5. QED
      BY <3>3, <3>4 DEF AnswerInv
  <2>4. CASE reply' \in [status: {404, 500}] /\ UNCHANGED <<header, promise>>
    BY <2>4 DEF AnswerInv
  <2>5. CASE Stat
    <3>1. header' = header
      BY <2>5, StatSteps
    <3>2. CASE reply' = [status |-> 404] /\ promise' = promise
      BY <3>1, <3>2 DEF AnswerInv
    <3>3. CASE /\ promise' = Unsatisfiable
               /\ reply'.status = 416 /\ Answers(header, reply'.size, reply')
      BY <3>1, <3>3 DEF AnswerInv
    <3>4. CASE /\ promise' \in Promise /\ Kept(promise')
               /\ Answers(header, promise'.size, promise')
               /\ reply' \in {promise', reply}
      <4>1. promise'.status \in {200, 206} /\ promise' # Unsatisfiable
        BY <3>4 DEF Promise, Unsatisfiable
      <4>2. CASE reply' = promise'
        BY <3>1, <3>4, <4>1, <4>2 DEF AnswerInv
      <4>3. CASE reply' = reply
        <5>1. reply = NoReply
          BY <2>5 DEF Stat, StreamOK
        <5>2. QED
          BY <3>1, <3>4, <4>1, <4>3, <5>1 DEF AnswerInv, NoReply
      <4>4. QED
        BY <3>4, <4>2, <4>3
    <3>5. \/ reply' = [status |-> 404] /\ promise' = promise
          \/ /\ promise' = Unsatisfiable
             /\ reply'.status = 416 /\ Answers(header, reply'.size, reply')
          \/ /\ promise' \in Promise /\ Kept(promise')
             /\ Answers(header, promise'.size, promise')
             /\ reply' \in {promise', reply}
      BY <2>5, StatSteps
    <3>6. QED
      BY <3>2, <3>3, <3>4, <3>5
  <2>6. QED
    BY <2>1, <2>2, <2>3, <2>4, <2>5, HeadSteps DEF vars, requestVars
<1>3. QED
  BY <1>1, <1>2, TypeCorrect, PTL DEF Spec

\* The head of every response is the one RFC 9110 gives for the size it names
\* (http.rs:422-446).
THEOREM HeadsAnswerRanges == Spec => []AnswersRange
<1>1. AnswerInv => AnswersRange
  BY DEF AnswerInv, AnswersRange
<1>2. QED
  BY <1>1, HeadsAsFound, PTL

-------------------------------------------------------------------------------
(* The bodies of responses.                                                *)

\* No program replaces an inode; a new one comes after all that are in use.
InodesInUse ==
  /\ handle \in Inodes => handle <= changes
  /\ path \in Inodes => path <= changes

\* What was sent is, as long as the open file is left alone, what it has from
\* the range's start on, and it stops short only where the file does.
BodyIsPart ==
  /\ body # <<>> => handle \in Inodes /\ reply = promise /\ promise \in Promise
  /\ reply.status \in {200, 206} => Len(body) <= reply.length
  /\ intact => \A i \in 1 .. Len(body) :
                 /\ promise.range.start + i <= Len(content[handle])
                 /\ body[i] = content[handle][promise.range.start + i]
  /\ (/\ intact /\ method = "GET" /\ pc = "ended"
      /\ reply.status \in {200, 206} /\ Len(body) < reply.length) =>
       handle \in Inodes /\ Len(content[handle]) <= promise.range.start + Len(body)

BodyInv == InodesInUse /\ BodyIsPart

\* A step of the disk disturbs the open file only if it says so.
LEMMA DiskSteps ==
  ASSUME TypeOK, InodesInUse, Disk
  PROVE  /\ InodesInUse' /\ steady' = FALSE
         /\ UNCHANGED <<requestVars, playerVars>>
         /\ intact' /\ handle \in Inodes => intact /\ content'[handle] = content[handle]
         /\ intact' => intact
<1> USE ChangesAssumption
<1>1. Change
  BY DEF Disk, Publish, Remove, Replace, Write
<1>2. /\ changes \in Nat /\ changes' = changes + 1 /\ changes + 1 \in Inodes
      /\ NoInode \notin Inodes
  BY <1>1 DEF Change, TypeOK, DiskTypeOK, Inodes, NoInode
<1>3. steady' = FALSE /\ UNCHANGED <<requestVars, playerVars>> /\ handle' = handle
  BY <1>1 DEF Change, requestVars
<1>4. CASE Publish \/ Remove
  <2>1. UNCHANGED <<content, intact>> /\ path' \in {path, NoInode}
    BY <1>4 DEF Publish, Remove
  <2>2. QED
    BY <1>2, <1>3, <2>1 DEF InodesInUse, Inodes
<1>5. ASSUME NEW c \in Contents, Replace(c)
      PROVE  /\ path' = changes + 1 /\ intact' = intact
             /\ handle \in Inodes => content'[handle] = content[handle]
  BY <1>2, <1>5 DEF Replace, InodesInUse, TypeOK, DiskTypeOK, Inodes
<1>6. ASSUME NEW c, Write(c)
      PROVE  /\ path' = path /\ intact' = (intact /\ handle # path)
             /\ handle \in Inodes /\ handle # path => content'[handle] = content[handle]
  BY <1>6 DEF Write, TypeOK, DiskTypeOK
<1>7. CASE \E c \in Contents : Replace(c)
  BY <1>2, <1>3, <1>5, <1>7 DEF InodesInUse, Inodes
<1>8. CASE \E c : Write(c)
  <2>1. InodesInUse'
    BY <1>2, <1>3, <1>6, <1>8 DEF InodesInUse, Inodes
  <2>2. QED
    BY <1>3, <1>6, <1>8, <2>1, Zenon
<1>9. QED
  BY <1>4, <1>7, <1>8, Zenon DEF Disk

\* Every read adds to the body what the open file has next.
LEMMA BodiesFollowTheFile == Spec => []BodyInv
<1> USE WidthAssumption
<1>1. Init => BodyInv
  <2> SUFFICES ASSUME Init PROVE BodyInv
    OBVIOUS
  <2>1. InodesInUse
    BY ChangesAssumption DEF Init, InodesInUse, NoInode, Inodes
  <2>2. body = <<>> /\ Len(body) = 0 /\ pc = "idle" /\ reply.status = 0
    BY DEF Init, NoReply
  <2>3. QED
    BY <2>1, <2>2 DEF BodyInv, BodyIsPart
<1>2. TypeOK /\ StreamOK /\ BodyInv /\ [Next]_vars => BodyInv'
  <2> SUFFICES ASSUME TypeOK, StreamOK, BodyInv, [Next]_vars PROVE BodyInv'
    OBVIOUS
  <2> USE DEF diskVars, requestVars, playerVars
  <2>1. ASSUME body' = <<>>, InodesInUse',
               reply'.status \in {200, 206} => reply' \in Promise,
               pc' = "ended" /\ method' = "GET" => ~ (reply'.status \in {200, 206}
                                                        /\ 0 < reply'.length)
        PROVE  BodyInv'
    <3>1. Len(body') = 0 /\ 1 .. Len(body') = {}
      BY <2>1
    <3>2. reply'.status \in {200, 206} => Len(body') <= reply'.length
      <4>1. reply' \in Promise => reply'.length \in 0 .. U64Max
        BY DEF Promise
      <4>2. QED
        BY <2>1, <3>1, <4>1
    <3>3. QED
      BY <2>1, <3>1, <3>2 DEF BodyInv, BodyIsPart
  <2>2. CASE UNCHANGED vars
    BY <2>2 DEF vars, BodyInv, BodyIsPart, InodesInUse
  <2>3. CASE Disk
    <3>1. /\ InodesInUse' /\ UNCHANGED <<pc, method, promise, handle, reply, body>>
          /\ intact' /\ handle \in Inodes => intact /\ content'[handle] = content[handle]
          /\ intact' => intact
      BY <2>3, DiskSteps DEF BodyInv
    <3>2. CASE handle \in Inodes
      BY <3>1, <3>2 DEF BodyInv, BodyIsPart
    <3>3. CASE handle \notin Inodes
      <4>1. body = <<>> /\ 1 .. Len(body) = {}
        BY <3>3 DEF BodyInv, BodyIsPart
      <4>2. QED
        BY <3>1, <3>3, <4>1 DEF BodyInv, BodyIsPart
    <3>4. QED
      BY <3>2, <3>3
  <2>4. CASE Client
    <3>1. ASSUME NEW m, NEW h, Send(m, h) PROVE BodyInv'
      <4>1. /\ body' = <<>> /\ reply'.status = 0 /\ pc' = "lookup"
            /\ handle' = NoInode /\ UNCHANGED <<path, changes>>
        BY <3>1 DEF Send, NoReply
      <4>2. InodesInUse'
        BY <4>1, ChangesAssumption DEF BodyInv, InodesInUse, NoInode, Inodes
      <4>3. QED
        BY <2>1, <4>1, <4>2
    <3>2. CASE Cut
      BY <3>2 DEF Cut, BodyInv, BodyIsPart, InodesInUse
    <3>3. Cut \/ \E m \in {"GET", "HEAD"} : \E h : Send(m, h)
      BY <2>4, Zenon DEF Client, Ask, Play, Resume
    <3>4. QED
      BY <3>1, <3>2, <3>3
  <2>5. CASE Handler
    <3>1. UNCHANGED <<listed, path, content, changes, method>>
      BY <2>5 DEF Handler, Lookup, Stat, Open, OpenFails, Seek, Read
    <3>2. handle' = handle => InodesInUse'
      BY <3>1 DEF BodyInv, InodesInUse
    <3>3. CASE Lookup \/ OpenFails
      <4>1. body' = <<>> /\ handle' = handle /\ reply'.status \notin {200, 206}
        BY <3>3 DEF Lookup, OpenFails, Fail, StreamOK, NoReply
      <4>2. QED
        BY <2>1, <3>2, <4>1
    <3>4. CASE Stat
      <4>1. body' = <<>> /\ handle' = handle
        BY <3>4 DEF Stat, StreamOK
      <4>2. CASE reply'.status \notin {200, 206}
        BY <2>1, <3>2, <4>1, <4>2
      <4>3. CASE reply'.status \in {200, 206}
        <5>1. /\ promise' \in Promise /\ pc' = "ended" /\ reply' = promise'
              /\ method = "HEAD" \/ promise'.length = 0
          <6>1. reply' # reply /\ reply' # [status |-> 404] /\ reply'.status # 416
            BY <3>4, <4>3 DEF Stat, StreamOK, NoReply
          <6>2. QED
            BY <3>4, <6>1, StatSteps
        <5>2. QED
          BY <2>1, <3>1, <3>2, <4>1, <5>1
      <4>4. QED
        BY <4>2, <4>3
    <3>5. CASE Open
      <4>1. /\ body' = <<>> /\ handle' = path /\ pc' \in {"seek", "stream"}
            /\ reply' \in {NoReply, promise} /\ promise \in Promise
        BY <3>5 DEF Open, StreamOK, TypeOK, RequestTypeOK
      <4>2. InodesInUse'
        BY <3>1, <4>1 DEF BodyInv, InodesInUse
      <4>3. QED
        BY <2>1, <4>1, <4>2 DEF NoReply
    <3>6. CASE Seek
      <4>1. /\ body' = <<>> /\ handle' = handle /\ promise \in Promise
            /\ \/ reply' = promise /\ pc' = "stream"
               \/ reply'.status = 500
        BY <3>6 DEF Seek, Fail, StreamOK, TypeOK, RequestTypeOK
      <4>2. QED
        BY <2>1, <3>2, <4>1
    <3>7. CASE Read
      <4> DEFINE start == promise.range.start
                 file == content[handle]
      <4>1. /\ body' \in Seq(Bytes) /\ Len(body) <= Len(body') /\ Len(body') <= reply.length
            /\ \A i \in 1 .. Len(body) : body'[i] = body[i]
            /\ \A i \in Len(body) + 1 .. Len(body') :
                 start + i <= Len(file) /\ body'[i] = file[start + i]
            /\ pc' = "ended" => /\ body' = body
                               /\ \/ Len(body) = reply.length
                                  \/ Len(file) <= start + Len(body)
            /\ UNCHANGED <<content, handle, promise, reply>>
        BY <3>7, ReadGrows
      <4>2. /\ intact' = intact /\ handle \in Inodes /\ promise \in Promise
            /\ reply = promise
        BY <3>7 DEF Read, StreamOK, TypeOK, RequestTypeOK
      <4>3. body \in Seq(Bytes) /\ Len(body) \in Nat /\ Len(body') \in Nat
        BY <4>1 DEF TypeOK, RequestTypeOK
      <4>4. ASSUME intact, NEW i \in 1 .. Len(body')
            PROVE  start + i <= Len(file) /\ body'[i] = file[start + i]
        <5>1. CASE i <= Len(body)
          <6>1. i \in 1 .. Len(body)
            BY <4>3, <5>1
          <6>2. start + i <= Len(file) /\ body[i] = file[start + i]
            BY <4>4, <6>1 DEF BodyInv, BodyIsPart
          <6>3. QED
            BY <4>1, <6>1, <6>2
        <5>2. CASE i > Len(body)
          <6>1. i \in Len(body) + 1 .. Len(body')
            BY <4>3, <5>2
          <6>2. QED
            BY <4>1, <6>1
        <5>3. QED
          BY <4>3, <5>1, <5>2
      <4>5. \A i \in 1 .. Len(body') :
              intact => start + i <= Len(file) /\ body'[i] = file[start + i]
        BY <4>4
      <4>6. pc' = "ended" /\ Len(body') < reply.length => Len(file) <= start + Len(body')
        <5>1. reply.length \in 0 .. U64Max
          BY <4>2 DEF Promise
        <5>2. CASE body' = body
          BY <4>1, <4>3, <5>1, <5>2
        <5>3. QED
          BY <4>1, <5>2
      <4>7. /\ start' = start /\ file' = file /\ reply' = reply /\ promise' = promise
            /\ handle' = handle
        BY <4>1
      <4> HIDE DEF start, file
      <4>8. BodyIsPart'
        BY <4>1, <4>2, <4>5, <4>6, <4>7 DEF BodyIsPart, start, file
      <4>9. QED
        BY <3>2, <4>7, <4>8 DEF BodyInv
    <3>8. QED
      BY <2>5, <3>3, <3>4, <3>5, <3>6, <3>7 DEF Handler
  <2>6. QED
    BY <2>2, <2>3, <2>4, <2>5 DEF Next
<1>3. QED
  BY <1>1, <1>2, TypeCorrect, PTL DEF Spec

\* Every body keeps to its head (http.rs:447-482).
THEOREM BodiesKeepToTheirHeads == Spec => []BodyMatchesHeaders
<1> USE WidthAssumption
<1>1. TypeOK /\ AnswerInv /\ BodyInv => BodyMatchesHeaders
  <2> SUFFICES ASSUME TypeOK, AnswerInv, BodyInv, reply.status \in {200, 206}
               PROVE  BodyMatchesHeaders
    BY DEF BodyMatchesHeaders
  <2>1. reply = promise /\ promise # Unsatisfiable /\ Kept(promise)
    BY DEF AnswerInv
  <2>2. promise \in Promise
    BY <2>1 DEF TypeOK, RequestTypeOK
  <2>3. /\ promise.length \in 0 .. U64Max /\ promise.size \in 0 .. U64Max
        /\ promise.range.start \in 0 .. U64Max /\ promise.range.end \in 0 .. U64Max
    BY <2>2 DEF Promise
  <2>4. body \in Seq(Bytes) /\ Len(body) \in Nat /\ Len(body) <= reply.length
    BY DEF TypeOK, RequestTypeOK, BodyInv, BodyIsPart
  <2>5. ASSUME intact, body # <<>>
        PROVE  body = SubSeq(content[handle], reply.range.start + 1,
                             reply.range.start + Len(body))
    <3> DEFINE file == content[handle]
               start == promise.range.start
               part == SubSeq(file, start + 1, start + Len(body))
    <3>1. file \in Seq(Bytes) /\ start \in Nat
      BY <2>3, <2>5 DEF BodyInv, BodyIsPart, TypeOK, DiskTypeOK
    <3>2. \A i \in 1 .. Len(body) : start + i <= Len(file) /\ body[i] = file[start + i]
      BY <2>5 DEF BodyInv, BodyIsPart
    <3>3. Len(body) >= 1
      BY <2>4, <2>5
    <3> HIDE DEF file, start
    <3>4. start + Len(body) <= Len(file)
      BY <2>4, <3>2, <3>3
    <3>5. /\ part \in Seq(Bytes) /\ Len(part) = Len(body)
          /\ \A i \in 1 .. Len(body) : part[i] = file[start + i]
      BY <2>4, <3>1, <3>3, <3>4
    <3> HIDE DEF part
    <3>6. body = part
      BY <2>4, <3>2, <3>5, SeqEqual
    <3>7. QED
      BY <2>1, <3>6 DEF part, file, start
  <2>6. ASSUME intact, method = "GET", pc = "ended", ~ Complete
        PROVE  Len(content[handle]) <= reply.range.end
    <3>1. Len(body) < reply.length
      BY <2>1, <2>3, <2>4, <2>6 DEF Complete
    <3>2. /\ handle \in Inodes
          /\ Len(content[handle]) <= promise.range.start + Len(body)
      BY <2>6, <3>1 DEF BodyInv, BodyIsPart
    <3>3. Len(content[handle]) \in Nat
      BY <3>2 DEF TypeOK, DiskTypeOK
    <3>4. promise.range.start + Len(body) <= promise.range.end
      BY <2>1, <2>3, <2>4, <3>1 DEF Kept
    <3>5. QED
      BY <2>1, <2>3, <2>4, <3>2, <3>3, <3>4
  <2>7. QED
    BY <2>4, <2>5, <2>6 DEF BodyMatchesHeaders
<1>2. QED
  BY <1>1, TypeCorrect, HeadsAsFound, BodiesFollowTheFile, PTL

-------------------------------------------------------------------------------
(* Resumed playback.                                                       *)

\* The header of a player that has n bytes.
RestFrom(n) == IF n = 0 THEN [form |-> "none"] ELSE [form |-> "first-", first |-> n]

\* As long as nobody touches the file, a player has its beginning, asks for the
\* rest, and is promised the rest.
PlayInv ==
  playing /\ steady =>
    /\ method = "GET" /\ header = RestFrom(Len(played))
    /\ played # <<>> => path \in Inodes
    /\ path \in Inodes => Len(played) <= Len(content[path])
    /\ \A i \in 1 .. Len(played) : played[i] = content[path][i]
    /\ promise # Unsatisfiable => path \in Inodes /\ promise.size = Len(content[path])
    /\ handle \in Inodes => handle = path /\ intact

\* Who has n bytes and asks for the rest is promised just that.
LEMMA RestIsPromised ==
  ASSUME NEW n \in Nat, NEW h \in Promise, Kept(h), Answers(RestFrom(n), h.size, h)
  PROVE  /\ h.length = h.size - n
         /\ h.size > 0 => h.range.start = n
<1> DEFINE all == Selected(RestFrom(n), h.size)
<1>1. /\ h.status \in {200, 206} /\ h.size \in Nat /\ h.length \in Nat
      /\ h.range.start \in Nat /\ h.range.end \in Nat
  BY WidthAssumption DEF Promise
<1>2. CASE n = 0
  <2>1. RestFrom(n).form = "none"
    BY <1>2 DEF RestFrom
  <2>2. h.length = h.size
    BY <2>1 DEF Answers
  <2>3. QED
    BY <1>1, <1>2, <2>2 DEF Kept
<1>3. CASE n # 0
  <2>1. RestFrom(n).form = "first-" /\ RestFrom(n).first = n
    BY <1>3 DEF RestFrom
  <2>2. all = {i \in 0 .. h.size - 1 : n <= i}
    BY <2>1 DEF Selected
  <2>3. /\ all # {} /\ all = h.range.start .. h.range.end
        /\ h.length = h.range.end - h.range.start + 1
    BY <1>1, <2>1 DEF Answers
  <2> HIDE DEF all
  <2>4. PICK i \in all : TRUE
    BY <2>3
  <2>5. i \in 0 .. h.size - 1 /\ n <= i /\ h.range.start <= i /\ i <= h.range.end
    BY <2>2, <2>3, <2>4
  <2>6. h.range.start \in all /\ h.range.end \in all
    BY <1>1, <2>3, <2>5
  <2>7. n \in all /\ h.size - 1 \in all
    BY <1>1, <2>2, <2>5
  <2>8. h.range.start = n /\ h.range.end = h.size - 1
    <3>1. n <= h.range.start /\ h.range.end <= h.size - 1
      BY <1>1, <2>2, <2>6
    <3>2. h.range.start <= n /\ h.size - 1 <= h.range.end
      BY <1>1, <2>3, <2>7
    <3>3. QED
      BY <1>1, <3>1, <3>2
  <2>9. QED
    BY <1>1, <2>3, <2>8
<1>4. QED
  BY <1>2, <1>3

\* What the player has with the current body is still the file's beginning.
LEMMA AllIsPrefix ==
  ASSUME TypeOK, AnswerInv, BodyInv, PlayInv, playing, steady
  PROVE  LET all == played \o body IN
         /\ all \in Seq(Bytes) /\ Len(all) = Len(played) + Len(body)
         /\ all # <<>> => path \in Inodes
         /\ path \in Inodes => Len(all) <= Len(content[path])
         /\ \A i \in 1 .. Len(all) : all[i] = content[path][i]
<1> USE WidthAssumption
<1> DEFINE all == played \o body
<1>1. /\ played \in Seq(Bytes) /\ body \in Seq(Bytes)
      /\ Len(played) \in Nat /\ Len(body) \in Nat
  BY DEF TypeOK, RequestTypeOK
<1>2. /\ all \in Seq(Bytes) /\ Len(all) = Len(played) + Len(body)
      /\ \A i \in 1 .. Len(played) : all[i] = played[i]
      /\ \A i \in Len(played) + 1 .. Len(all) : all[i] = body[i - Len(played)]
  BY <1>1
<1> HIDE DEF all
<1>3. CASE body = <<>>
  <2>1. Len(body) = 0
    BY <1>3
  <2>2. Len(all) = Len(played) /\ (all # <<>> => played # <<>>)
    BY <1>1, <1>2, <2>1
  <2>3. \A i \in 1 .. Len(all) : all[i] = content[path][i]
    BY <1>2, <2>2 DEF PlayInv
  <2>4. QED
    BY <1>2, <2>2, <2>3 DEF PlayInv, all
<1>4. CASE body # <<>>
  <2>1. /\ handle \in Inodes /\ handle = path /\ intact
        /\ reply = promise /\ promise \in Promise
    BY <1>4 DEF BodyInv, BodyIsPart, PlayInv
  <2>2. promise # Unsatisfiable /\ promise.status \in {200, 206}
    BY <2>1 DEF Promise, Unsatisfiable
  <2>3. /\ Kept(promise) /\ Answers(RestFrom(Len(played)), promise.size, promise)
        /\ promise.size = Len(content[path])
    BY <2>2 DEF AnswerInv, PlayInv
  <2>4. /\ promise.length = promise.size - Len(played)
        /\ promise.size > 0 => promise.range.start = Len(played)
    BY <1>1, <2>1, <2>3, RestIsPromised
  <2>5. Len(body) <= promise.length /\ Len(body) > 0
    BY <1>1, <1>4, <2>1, <2>2 DEF BodyInv, BodyIsPart
  <2>6. promise.size \in Nat
    BY <2>1 DEF Promise
  <2>7. promise.range.start = Len(played) /\ Len(all) <= Len(content[path])
    BY <1>1, <1>2, <2>3, <2>4, <2>5, <2>6
  <2>8. \A i \in 1 .. Len(body) : body[i] = content[path][Len(played) + i]
    BY <2>1, <2>7 DEF BodyInv, BodyIsPart
  <2>9. ASSUME NEW i \in 1 .. Len(all) PROVE all[i] = content[path][i]
    <3>1. CASE i <= Len(played)
      BY <1>1, <1>2, <3>1 DEF PlayInv
    <3>2. CASE i > Len(played)
      <4>1. i - Len(played) \in 1 .. Len(body) /\ Len(played) + (i - Len(played)) = i
        BY <1>1, <1>2, <3>2
      <4>2. all[i] = body[i - Len(played)]
        BY <1>1, <1>2, <3>2
      <4>3. QED
        BY <2>8, <4>1, <4>2
    <3>3. QED
      BY <1>1, <1>2, <3>1, <3>2
  <2>10. QED
    BY <1>2, <2>1, <2>7, <2>9 DEF all
<1>5. QED
  BY <1>3, <1>4

\* However often the connection breaks, a player that resumes gets the file
\* whole, if nobody touches it (http.rs:422-461, 511-550).
THEOREM ResumedPlaybackOK == Spec => []ResumedPlaybackIsWhole
<1> USE WidthAssumption
<1>1. Init => PlayInv
  BY DEF Init, PlayInv
<1>2. TypeOK /\ StreamOK /\ AnswerInv /\ BodyInv /\ PlayInv /\ [Next]_vars => PlayInv'
  <2> SUFFICES ASSUME TypeOK, StreamOK, AnswerInv, BodyInv, PlayInv, [Next]_vars,
                      playing', steady'
               PROVE  PlayInv'
    BY DEF PlayInv
  <2> USE DEF diskVars, requestVars, playerVars
  <2>1. ASSUME UNCHANGED <<path, content, method, header, playing, played, steady>>,
               promise' # Unsatisfiable /\ promise' # promise =>
                 path \in Inodes /\ promise'.size = Len(content[path]),
               handle' \in Inodes => \/ handle' = handle /\ intact' = intact
                                     \/ handle' = path /\ intact'
        PROVE  PlayInv'
    BY <2>1 DEF PlayInv
  <2>2. CASE UNCHANGED vars
    BY <2>1, <2>2 DEF vars
  <2>3. CASE Disk
    BY <2>3, DiskSteps DEF BodyInv
  <2>4. CASE Client
    <3>1. ASSUME NEW m \in {"GET", "HEAD"}, NEW h \in Ranges, Ask(m, h) PROVE PlayInv'
      BY <3>1 DEF Ask
    <3>2. CASE Play
      <4>1. /\ method' = "GET" /\ header' = [form |-> "none"] /\ played' = <<>>
            /\ promise' = Unsatisfiable /\ handle' = NoInode
            /\ UNCHANGED <<path, content>>
        BY <3>2 DEF Play, Send
      <4>2. Len(played') = 0 /\ 1 .. Len(played') = {} /\ header' = RestFrom(Len(played'))
        BY <4>1 DEF RestFrom
      <4>3. path \in Inodes => Len(content[path]) \in Nat
        BY DEF TypeOK, DiskTypeOK
      <4>4. NoInode \notin Inodes
        BY ChangesAssumption DEF NoInode, Inodes
      <4>5. QED
        BY <4>1, <4>2, <4>3, <4>4 DEF PlayInv
    <3>3. CASE Resume
      <4> DEFINE all == played \o body
      <4>1. /\ method' = "GET" /\ played' = all
            /\ header' = IF all = <<>> THEN [form |-> "none"]
                         ELSE [form |-> "first-", first |-> Len(all)]
            /\ promise' = Unsatisfiable /\ handle' = NoInode
            /\ UNCHANGED <<path, content, playing, steady>>
        BY <3>3 DEF Resume, Send
      <4>2. /\ all \in Seq(Bytes)
            /\ all # <<>> => path \in Inodes
            /\ path \in Inodes => Len(all) <= Len(content[path])
            /\ \A i \in 1 .. Len(all) : all[i] = content[path][i]
        BY <4>1, AllIsPrefix
      <4> HIDE DEF all
      <4>3. (all = <<>>) <=> (Len(all) = 0)
        BY <4>2
      <4>4. header' = RestFrom(Len(played'))
        BY <4>1, <4>3 DEF RestFrom
      <4>5. NoInode \notin Inodes
        BY ChangesAssumption DEF NoInode, Inodes
      <4>6. QED
        BY <4>1, <4>2, <4>4, <4>5 DEF PlayInv
    <3>4. CASE Cut
      BY <2>1, <3>4 DEF Cut
    <3>5. QED
      BY <2>4, <3>1, <3>2, <3>3, <3>4 DEF Client
  <2>5. CASE Handler
    <3>1. UNCHANGED <<path, content, method, header, playing, played, steady>>
      BY <2>5 DEF Handler, Lookup, Stat, Open, OpenFails, Seek, Read
    <3>2. CASE Lookup \/ OpenFails \/ Seek \/ Read
      BY <2>1, <3>1, <3>2 DEF Lookup, OpenFails, Seek, Read
    <3>3. CASE Stat
      <4>1. handle' = handle /\ intact' = intact
        BY <3>3 DEF Stat
      <4>2. promise' # Unsatisfiable /\ promise' # promise =>
              path \in Inodes /\ promise'.size = Len(content[path])
        BY <3>3, StatSteps
      <4>3. QED
        BY <2>1, <3>1, <4>1, <4>2
    <3>4. CASE Open
      BY <2>1, <3>1, <3>4 DEF Open
    <3>5. QED
      BY <2>5, <3>2, <3>3, <3>4 DEF Handler
  <2>6. QED
    BY <2>2, <2>3, <2>4, <2>5 DEF Next
<1>3. TypeOK /\ AnswerInv /\ BodyInv /\ PlayInv => ResumedPlaybackIsWhole
  <2> SUFFICES ASSUME TypeOK, AnswerInv, BodyInv, PlayInv, playing, steady
               PROVE  ResumedPlaybackIsWhole
    BY DEF ResumedPlaybackIsWhole
  <2> DEFINE all == played \o body
  <2>1. /\ all \in Seq(Bytes) /\ Len(all) = Len(played) + Len(body)
        /\ all # <<>> => path \in Inodes
        /\ path \in Inodes => Len(all) <= Len(content[path])
        /\ \A i \in 1 .. Len(all) : all[i] = content[path][i]
    BY AllIsPrefix
  <2>2. NoInode \notin Inodes /\ (path \in Inodes => content[path] \in Seq(Bytes))
    BY ChangesAssumption DEF NoInode, Inodes, TypeOK, DiskTypeOK
  <2>3. ASSUME all # <<>>
        PROVE  path # NoInode /\ Len(all) <= Len(content[path])
                 /\ all = SubSeq(content[path], 1, Len(all))
    <3> DEFINE file == content[path]
               part == SubSeq(file, 1, Len(all))
    <3>1. path \in Inodes /\ Len(all) <= Len(file) /\ file \in Seq(Bytes)
      BY <2>1, <2>2, <2>3
    <3> HIDE DEF all, file
    <3>2. /\ part \in Seq(Bytes) /\ Len(part) = Len(all)
          /\ \A i \in 1 .. Len(all) : part[i] = file[i]
      BY <2>1, <3>1
    <3> HIDE DEF part
    <3>3. all = part
      BY <2>1, <3>2, SeqEqual DEF file
    <3>4. QED
      BY <2>2, <3>1, <3>3 DEF part, file
  <2>4. ASSUME Complete
        PROVE  path # NoInode /\ Len(all) = Len(content[path])
    <3>1. reply.status \in {200, 206} /\ Len(body) = reply.length
      BY <2>4 DEF Complete
    <3>2. reply = promise /\ promise # Unsatisfiable /\ Kept(promise)
      BY <3>1 DEF AnswerInv
    <3>3. promise \in Promise /\ path \in Inodes /\ promise.size = Len(content[path])
          /\ Answers(RestFrom(Len(played)), promise.size, promise)
      BY <3>2 DEF PlayInv, AnswerInv, TypeOK, RequestTypeOK
    <3>4. Len(played) \in Nat /\ promise.size \in Nat
      BY <3>3 DEF TypeOK, Promise
    <3>5. promise.length = promise.size - Len(played)
      BY <3>2, <3>3, <3>4, RestIsPromised
    <3> HIDE DEF all
    <3>6. Len(all) = Len(content[path])
      BY <2>1, <3>1, <3>2, <3>3, <3>4, <3>5
    <3>7. QED
      BY <2>2, <3>3, <3>6
  <2>5. QED
    BY <2>3, <2>4 DEF ResumedPlaybackIsWhole
<1>4. QED
  BY <1>1, <1>2, <1>3, TypeCorrect, HeadsAsFound, BodiesFollowTheFile, PTL DEF Spec

===============================================================================
