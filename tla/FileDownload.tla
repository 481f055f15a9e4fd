---------------------------- MODULE FileDownload -----------------------------
(***************************************************************************)
(* Downloads of a File (OFS/Image.py): whole, in ranges of bytes, and on   *)
(* condition that it has changed, while others upload new contents.        *)
(*                                                                         *)
(* Contents are stored as one string or as a chain of Pdata objects.  A    *)
(* seeker asks for ranges.  A keeper has a copy, complete or cut short by  *)
(* a lost connection, which it refreshes or resumes.  Time is counted in   *)
(* seconds, as HTTP dates are.                                             *)
(***************************************************************************)
EXTENDS HTTPResponse

CONSTANTS
    ChunkSize,     \* the length of a Pdata, 1 << 16
    Sizes,         \* the lengths of the contents that are uploaded
    RangeSets,     \* the Range headers: sequences of [first, last], NoBound if not given
    LongSuffixes,  \* whether suffixes longer than the file are asked for
    MaxUploads, MaxClock

NoBound == -1
MaxInt == 1000

ASSUME DownloadAssumption ==
    /\ ChunkSize \in Nat \ {0} /\ Sizes \subseteq Nat /\ MaxUploads \in Nat /\ MaxClock \in Nat
    /\ \A s \in RangeSets : \A i \in DOMAIN s :
          /\ s[i].first \in Nat \cup {NoBound} /\ s[i].last \in Nat \cup {NoBound}
          /\ s[i].first # NoBound \/ s[i].last # NoBound

VARIABLES
    file,     \* [version, size, string, chunks, mtime]; chunks: where the pieces of the chain begin
    clock,
    client,   \* seeker or keeper
    copy,     \* the keeper's: [have, version, size, date, complete]; have: pieces of contents
    answer,   \* the answer to a seeker: [ranges, of, gateway, status, label, got]
    rushed    \* history: two uploads within a second

fvars == <<file, clock, client, copy, answer, rushed>>

-----------------------------------------------------------------------------
(* Contents *)

NoCopy == [have |-> <<>>, version |-> 0, size |-> 0, date |-> 0, complete |-> FALSE]
NoAnswer == [ranges |-> <<>>, of |-> <<>>, gateway |-> "", status |-> 0, label |-> <<>>, got |-> <<>>]

\* _read_data: the chain is built from the end; the first piece takes the rest.
ChainOf(size) ==
    LET pieces == (size - ChunkSize) \div ChunkSize       \* whole ones behind the first
    IN  <<0>> \o [i \in 1 .. pieces |-> size - (pieces - i + 1) * ChunkSize]

Chunks(size, inDatabase) == IF size <= 2 * ChunkSize \/ ~inDatabase THEN <<0>> ELSE ChainOf(size)

Stored(version, size, whole, inDatabase, mtime) ==
    LET string == whole \/ size < ChunkSize
    IN  [version |-> version, size |-> size, string |-> string,
         chunks |-> IF string THEN <<>> ELSE Chunks(size, inDatabase), mtime |-> mtime]

FInit ==
    /\ \E size \in Sizes, whole \in BOOLEAN, inDatabase \in BOOLEAN :
          file = Stored(1, size, whole, inDatabase, 1)
    /\ clock = 1 /\ client \in {"seeker", "keeper"}
    /\ copy = NoCopy /\ answer = NoAnswer /\ rushed = FALSE

\* A piece of contents: version, from, to (exclusive)
Piece(v, from, to) == <<"piece", v, from, to>>
PieceLength(p) == p[4] - p[3]

\* Pieces put together, so that adjacent ones are one
Joined(pieces) ==
    FoldLeft(LAMBDA done, p :
                IF p[1] # "piece" THEN Append(done, p)
                ELSE IF PieceLength(p) = 0 THEN done
                ELSE IF done # <<>> /\ Last(done)[1] = "piece" /\ Last(done)[2] = p[2] /\ Last(done)[4] = p[3]
                THEN [done EXCEPT ![Len(done)] = Piece(p[2], Last(done)[3], p[4])]
                ELSE Append(done, p),
             <<>>, pieces)

-----------------------------------------------------------------------------
(* HTTPRangeSupport *)

\* parseRange: <<>> if the header is ignored; ranges are <<start, end>>, end exclusive
ParsedRange(spec) ==
    IF spec.first = NoBound THEN <<IF spec.last = 0 THEN MaxInt ELSE 0 - spec.last, NoBound>>
    ELSE <<spec.first, IF spec.last = NoBound THEN NoBound ELSE spec.last + 1>>

parseRange(specs) ==
    LET ranges == [i \in DOMAIN specs |-> ParsedRange(specs[i])]
    IN  IF \E i \in DOMAIN ranges : ranges[i][2] # NoBound /\ ranges[i][2] <= ranges[i][1]
        THEN <<>> ELSE ranges

\* Mutated: the end of a range is taken to be in the file.
ExpandedBeyond(range, size) ==
    <<IF range[1] < 0 THEN size + range[1] ELSE range[1], IF range[2] = NoBound THEN size ELSE range[2]>>

Expanded(range, size) ==
    <<IF range[1] < 0 THEN size + range[1] ELSE range[1],
      IF range[2] = NoBound \/ range[2] > size THEN size ELSE range[2]>>

expandRanges(ranges, size) ==
    SelectSeq([i \in DOMAIN ranges |-> Expanded(ranges[i], size)], LAMBDA r : r[1] < size)

-----------------------------------------------------------------------------
(* Answers of the file *)

WritePiece(r, piece) == write(r, piece, PieceLength(piece))

\* data[start:end] of a Python string
Slice(f, start, end) ==
    LET from == IF start >= 0 THEN start ELSE IF f.size + start > 0 THEN f.size + start ELSE 0
    IN  Piece(f.version, from, IF end > from THEN end ELSE from)

Offset(f, k) == IF k > Len(f.chunks) THEN f.size ELSE f.chunks[k]     \* where the k-th piece begins

\* The pieces of the chain from the i-th on that are written for a range
LastOfWalk(f, i, range) ==
    LET ends == {k \in i .. Len(f.chunks) : Offset(f, k + 1) > range[1] /\ range[2] <= Offset(f, k + 1)}
    IN  IF ends = {} THEN Len(f.chunks) ELSE CHOOSE k \in ends : \A j \in ends : k <= j

Walked(r, f, i, range) ==
    FoldLeft(LAMBDA out, k :
                IF Offset(f, k + 1) <= range[1] THEN out
                ELSE WritePiece(out, Piece(f.version,
                                      IF range[1] > Offset(f, k) THEN range[1] ELSE Offset(f, k),
                                      IF range[2] <= Offset(f, k + 1) THEN range[2] ELSE Offset(f, k + 1))),
             r, [n \in 1 .. LastOfWalk(f, i, range) - i + 1 |-> i + n - 1])

\* pdata_map: the pieces seen, by where they begin (the end of the chain, too)
ClosestPos(f, start) ==
    LET first == Offset(f, 2)
    IN  IF start < first THEN 0 ELSE ((start - first) \div ChunkSize) * ChunkSize + first

Largest(s) == CHOOSE n \in s : \A m \in s : m <= n

StartOfWalk(f, seen, start) ==
    LET pos == IF ClosestPos(f, start) < Largest(DOMAIN seen) THEN ClosestPos(f, start) ELSE Largest(DOMAIN seen)
    IN  seen[pos]

Seen(f, seen, i, range) ==
    LET passed == i .. LastOfWalk(f, i, range) - 1
    IN  [pos \in DOMAIN seen \cup {Offset(f, k + 1) : k \in passed} |->
            IF pos \in DOMAIN seen THEN seen[pos] ELSE CHOOSE k \in 1 .. Len(f.chunks) : Offset(f, k) = pos]

Digits(n) == IF n < 0 THEN 1 + (IF n > -10 THEN 1 ELSE 2) ELSE IF n < 10 THEN 1 ELSE 2
PartHead == 49          \* and boundary and content type, of fixed lengths
EndMark == 8

\* multipart/byteranges: a head for each part, its bytes, and an end mark
Part(state, f, range) ==
    LET headed == write(state.r, <<"part", range[1], range[2]>>,
                        PartHead + Digits(range[1]) + Digits(range[2] - 1))
    IN  IF f.string THEN [state EXCEPT !.r = WritePiece(headed, Slice(f, range[1], range[2]))]
        ELSE LET i == StartOfWalk(f, state.seen, range[1])
             IN  [r |-> Walked(headed, f, i, range), seen |-> Seen(f, state.seen, i, range)]

MultipartLength(ranges) ==
    FoldLeft(LAMBDA n, range : n + Digits(range[1]) + Digits(range[2] - 1) + range[2] - range[1],
             EndMark + Len(ranges) * PartHead, ranges)

Described(r, length, status) == setStatus(setHeader(setHeader(r, "type", "file"), "length", length), status, FALSE)

Unsatisfiable(r, f) == Described(r, f.size, 416)

OneRange(r, f, range) ==
    LET headed == Described(r, range[2] - range[1], 206)
    IN  IF f.string THEN WritePiece(headed, Slice(f, range[1], range[2])) ELSE Walked(headed, f, 1, range)

ManyRanges(r, f, ranges) ==
    LET parts == FoldLeft(LAMBDA state, range : Part(state, f, range),
                          [r |-> Described(r, MultipartLength(ranges), 206), seen |-> (0 :> 1)], ranges)
    IN  write(parts.r, <<"end">>, EndMark)

Whole(r, f) ==
    LET headed == Described(r, f.size, 200)
    IN  IF f.string
        THEN setBody(headed, IF f.size = 0 THEN Nothing
                             ELSE Page(Piece(f.version, 0, f.size), f.size, f.size, FALSE, FALSE), FALSE)
        ELSE Walked(headed, f, 1, <<0, f.size>>)

\* _range_request_handler; changed: If-Range names another version
RangeAnswer(r, f, specs, changed) ==
    LET ranges == IF changed THEN <<>> ELSE parseRange(specs)
        satisfied == expandRanges(ranges, f.size)
    IN  IF ranges = <<>> THEN Whole(r, f)
        ELSE IF \A i \in DOMAIN ranges : ranges[i][1] >= f.size THEN Unsatisfiable(r, f)
        ELSE IF Len(satisfied) = 1 THEN OneRange(r, f, satisfied[1])
        ELSE ManyRanges(r, f, satisfied)

\* Content-Range of an answer with one range
Label(f, specs) ==
    LET satisfied == expandRanges(parseRange(specs), f.size)
    IN  IF Len(satisfied) = 1 THEN satisfied[1] ELSE <<>>

NotModified(r) == setStatus(setHeader(r, "type", "file"), 304, FALSE)

\* index_html of a conditional GET (since: the date of If-Modified-Since, 0 for none)
index_html(r, f, since, specs, changed) ==
    IF since > 0 /\ f.mtime <= since THEN NotModified(r)
    ELSE IF specs = <<>> THEN Whole(r, f) ELSE RangeAnswer(r, f, specs, changed)

\* Mutated: the Etag is not refreshed by an upload.
EtagKept(f, validator, version, date) == validator = "date" /\ f.mtime > date

\* If-Range: an Etag, or a date
IfRangeChanged(f, validator, version, date) ==
    IF validator = "etag" THEN f.version # version ELSE f.mtime > date

-----------------------------------------------------------------------------
(* Actions *)

\* manage_upload, PUT, and manage_edit, which stores a string whatever its length
Upload(size, whole) ==
    /\ client = "keeper"                  \* a seeker's one request has one snapshot
    /\ file.version < MaxUploads
    /\ file' = Stored(file.version + 1, size, whole, TRUE, clock)
    /\ rushed' = (rushed \/ clock = file.mtime)
    /\ UNCHANGED <<clock, client, copy, answer>>

Tick ==
    /\ client = "keeper" /\ clock < MaxClock /\ clock' = clock + 1
    /\ UNCHANGED <<file, client, copy, answer, rushed>>

Received(r) == Read(r.wire, "GET", Closes(r)).what

Seek(specs, gateway) ==
    /\ LongSuffixes \/ \A i \in DOMAIN specs : specs[i].first = NoBound => specs[i].last <= file.size
    /\ LET r == Finished(index_html(NewResponse(gateway, "1.1", "keep-alive"), file, 0, specs, FALSE))
       IN  answer' = [ranges |-> specs, of |-> file, gateway |-> gateway, status |-> r.status,
                      label |-> Label(file, specs), got |-> Received(r)]
    /\ UNCHANGED <<file, clock, client, copy, rushed>>

\* The keeper receives an answer, all of it or (lost) only its first bytes
FirstBytes(pieces, n) ==
    FoldLeft(LAMBDA s, p : IF s.left = 0 THEN s
                           ELSE IF PieceLength(p) <= s.left
                           THEN [have |-> Append(s.have, p), left |-> s.left - PieceLength(p)]
                           ELSE [have |-> Append(s.have, Piece(p[2], p[3], p[3] + s.left)), left |-> 0],
             [have |-> <<>>, left |-> n], pieces).have

KeptCopy(pieces, f, complete) ==
    [have |-> Joined(pieces), version |-> f.version, size |-> f.size, date |-> f.mtime, complete |-> complete]

\* A GET, conditional if there is a complete copy
Refresh(cut) ==
    /\ client = "keeper"
    /\ LET r == Finished(index_html(NewResponse("zserver", "1.1", "keep-alive"), file,
                                    IF copy.complete THEN copy.date ELSE 0, <<>>, FALSE))
       IN  copy' = IF r.status = 304 THEN KeptCopy(copy.have, file, TRUE)
                   ELSE IF cut < file.size THEN KeptCopy(FirstBytes(Received(r), cut), file, FALSE)
                   ELSE KeptCopy(Received(r), file, TRUE)
    /\ UNCHANGED <<file, clock, client, answer, rushed>>

\* A GET for the rest of a copy, if the file is still what was begun
Resume(validator) ==
    /\ client = "keeper" /\ ~copy.complete /\ copy.have # <<>>
    /\ LET length == FoldLeft(LAMBDA n, p : n + PieceLength(p), 0, copy.have)
           r == Finished(index_html(NewResponse("zserver", "1.1", "keep-alive"), file, 0,
                                    <<[first |-> length, last |-> NoBound]>>,
                                    IfRangeChanged(file, validator, copy.version, copy.date)))
       IN  copy' = CASE r.status = 206 -> KeptCopy(copy.have \o Received(r), file, TRUE)
                     [] r.status = 200 -> KeptCopy(Received(r), file, TRUE)
                     [] OTHER -> NoCopy
    /\ UNCHANGED <<file, clock, client, answer, rushed>>

FNext ==
    \/ \E size \in Sizes, whole \in BOOLEAN : Upload(size, whole)
    \/ Tick
    \/ /\ client = "seeker" /\ answer = NoAnswer
       /\ \E specs \in RangeSets, gateway \in {"zserver", "wsgi"} : Seek(specs, gateway)
    \/ \E cut \in 1 .. Largest(Sizes) : Refresh(cut)
    \/ \E validator \in {"etag", "date"} : Resume(validator)

FSpec == FInit /\ [][FNext]_fvars

-----------------------------------------------------------------------------
(* Properties *)

\* The bytes a Range header asks for (RFC 2616, 14.35), of a file of a size
Asked(spec, size) ==
    IF spec.first = NoBound THEN (IF spec.last > size THEN 0 ELSE size - spec.last) .. size - 1
    ELSE spec.first .. (IF spec.last = NoBound \/ spec.last >= size THEN size - 1 ELSE spec.last)
Illegal(specs) == \E i \in DOMAIN specs :
    specs[i].first # NoBound /\ specs[i].last # NoBound /\ specs[i].last < specs[i].first

Interval(p) == p[3] .. p[4] - 1
\* The bytes of the n-th part of a multipart answer, and those its head names
Parts(got) == SelectSeq([i \in DOMAIN got |-> i], LAMBDA i : got[i][1] # "piece")

\* A seeker gets the ranges it asked for, each once, in the order of the header, named
\* by their heads, none missing or cut at the joints of the chain, and in a message that
\* is as long as it says; the whole file if the header is illegal; 416 if nothing asked
\* for exists.
RangesAreServed ==
    answer # NoAnswer /\ answer.status # 416 =>
        LET f == answer.of
            asked == SelectSeq([i \in DOMAIN answer.ranges |-> Asked(answer.ranges[i], f.size)], LAMBDA s : s # {})
            got == Joined(answer.got)
            starts == Parts(got)
        IN  /\ answer.got # Unreadable.what
            /\ IF answer.status = 200
               THEN Illegal(answer.ranges) /\ got = Joined(<<Piece(f.version, 0, f.size)>>)
               ELSE IF Len(asked) = 1 THEN /\ Len(got) = 1 /\ Interval(got[1]) = asked[1]
                                           /\ answer.label[1] .. answer.label[2] - 1 = asked[1]
               ELSE /\ Len(starts) = Len(asked) + 1 /\ Last(got) = <<"end">>
                    /\ \A n \in DOMAIN asked :
                          /\ starts[n + 1] = starts[n] + 2
                          /\ got[starts[n]][2] .. got[starts[n]][3] - 1 = asked[n]
                          /\ Interval(got[starts[n] + 1]) = asked[n]

\* The client finds as many bytes behind the head as Content-Length says (tested for
\* ranges within the file).
LengthIsTheBody == answer # NoAnswer /\ answer.status = 206 => answer.got # Unreadable.what

\* A keeper's copy is one version from its first byte on, however often it was cut,
\* resumed and refreshed between uploads, unless two came within one second.
CopiesAreOneVersion ==
    ~rushed /\ copy.have # <<>> =>
        /\ Len(copy.have) = 1 /\ copy.have[1][2] = copy.version /\ copy.have[1][3] = 0
        /\ copy.complete => copy.have[1][4] = copy.size
=============================================================================
