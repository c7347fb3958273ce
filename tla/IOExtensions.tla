---------------------------- MODULE IOExtensions ----------------------------
(***************************************************************************)
(* IO.gzip, gunzip, deflate, inflate and http1_splice_chunked: one fiber   *)
(* moves a source to a destination through two buffers of CHUNK bytes.     *)
(* Bytes are counted, not computed; those of a gzip header are told apart, *)
(* because the header is parsed where it lies in the input buffer.         *)
(*                                                                         *)
(* A read or a write may suspend the fiber, which may then be interrupted. *)
(* zlib is external: it keeps up to Hold bytes for itself while it is not  *)
(* told to finish, ends a deflated stream with Trailer bytes, and inflates *)
(* a byte to Ratio bytes.                                                  *)
(***************************************************************************)
EXTENDS Integers, Sequences, FiniteSets, SequencesExt

CONSTANTS
    CHUNK,      \* size of the buffers: 16384
    HEADER,     \* fixed part of a gzip header: 10
    FOOTER,     \* GZIP_FOOTER_LEN: 8
    Hold, Trailer, Ratio,
    GzipFiles,  \* what gunzip is given: any bytes, a gzip file or not
    Unwritten,  \* what memory may hold that nobody wrote
    MaxData,    \* bound: bytes of data in a source
    MaxSpliced, \* bound: bytes of a source that is spliced
    MaxStray    \* bound: bytes that inflate takes from behind a string

\* The bytes that are told apart.  "none" is one that was never written.
ByteKinds == {"magic", "plain", "one", "two", "time", "char", "nul", "data", "footer"}

ASSUME ExtAssumption ==
    /\ {CHUNK, HEADER, FOOTER, Hold, Trailer, Ratio, MaxData, MaxSpliced, MaxStray} \subseteq Nat
    /\ HEADER >= 2 /\ HEADER + 4 <= CHUNK /\ FOOTER > 0 /\ Ratio > 0
    /\ GzipFiles \subseteq Seq(ByteKinds) /\ Unwritten \subseteq ByteKinds

VARIABLES
    op,     \* the call
    src,    \* the source: its kind, its bytes, how many were read
    ctx,    \* struct z_stream_ctx
    z,      \* the zlib stream, and the bytes it was given in all
    dest,   \* what was written: a sequence of pieces, [what, n]
    pc

vars == <<op, src, ctx, z, dest, pc>>

Compressing == op \in {"gzip", "deflate"}

\* What a source may hold.
Copies(b, n) == [i \in 1..n |-> b]
Contents(o) ==
    IF o = "gunzip" THEN GzipFiles
    ELSE {Copies("data", n) : n \in 0..(IF o = "chunked" THEN MaxSpliced ELSE MaxData)}

\* A file gives all that is asked for, a stream what has come.
Kinds == {"string", "file", "stream", "readpartial"}

\* The header is put into the output buffer, with a string of one character
\* for the name and for the comment.
gzip_prepare_header(strings) == HEADER + 2 * strings

\* buf is the input buffer with the HEADER bytes behind it, which are the
\* first ones of the output buffer.  split (history): a read of gunzip's
\* header was too short, and another one followed.
setup_ctx(o, strings) ==
    LET head == IF o = "gzip" THEN gzip_prepare_header(strings) ELSE 0
    IN  [f_gzip_footer |-> o = "gzip", buf |-> Copies("none", CHUNK + HEADER), in_pos |-> 0,
         in_total |-> 0, out_pos |-> head, out_total |-> head,
         avail_in |-> <<>>, avail_out |-> 0, out_len |-> 0, eof |-> FALSE, isize |-> 0, split |-> FALSE]

Init ==
    /\ op \in {"gzip", "gunzip", "deflate", "inflate", "chunked"}
    /\ \E k \in Kinds, data \in Contents(op) :
          /\ op = "chunked" => k = "stream"
          /\ src = [kind |-> k, data |-> data, read |-> 0]
    /\ \E strings \in 0..2 : ctx = setup_ctx(op, IF op = "gzip" THEN strings ELSE 0)
    /\ z = [open |-> op # "gunzip" /\ op # "chunked", held |-> 0, given |-> 0, finished |-> FALSE]
    /\ dest = <<>>
    /\ pc = IF op = "gunzip" THEN "header" ELSE IF op = "chunked" THEN "in" ELSE "read"

----------------------------------------------------------------------------
(* Reading and writing *)

Rest == SubSeq(src.data, src.read + 1, Len(src.data))

\* read_to_raw_buffer: how many bytes a read may return, 0 at the end.
\* readpartial raises at the end instead.
ReadLengths ==
    IF Rest = <<>> THEN {0}
    ELSE IF src.kind = "file" THEN {IF Len(Rest) < CHUNK THEN Len(Rest) ELSE CHUNK}
    ELSE {n \in 1..CHUNK : n <= Len(Rest)}

\* The bytes go to the beginning of the buffer, always.
read_to_raw_buffer(n) ==
    [i \in 1..(CHUNK + HEADER) |-> IF i <= n THEN Rest[i] ELSE ctx.buf[i]]

Piece(what, n) == [what |-> what, n |-> n]
write_from_raw_buffer(d, p) == IF p.n > 0 THEN Append(d, p) ELSE d

\* rb_ensure: z_stream_cleanup, on every way out of z_stream_io_loop.
Leave(how) ==
    /\ pc' = how
    /\ z' = [z EXCEPT !.open = FALSE]

EndOfFile == src.kind = "readpartial" /\ Rest = <<>>

----------------------------------------------------------------------------
(* The gzip header of gunzip's source *)

\* The place after the terminator of the string at pos, 0 if there is none.
\* Behind the end of the source nothing is looked at, nor refused.
read_gzip_header_str(bytes, pos, total) ==
    LET nuls == {i \in (pos + 1)..total : bytes[i] = "nul"}
    IN  IF pos > total THEN pos + 1
        ELSE IF nuls = {} THEN 0 ELSE CHOOSE i \in nuls : \A j \in nuls : i <= j

\* What a reader of the first total bytes, and of the header in any case, may
\* find there: what was not written is anything, and so is what is behind a string.
Found(bytes, total) ==
    LET unknown == {i \in 1..(IF total < HEADER THEN HEADER ELSE total) :
                       i \notin DOMAIN bytes \/ bytes[i] = "none"}
    IN  {[i \in DOMAIN bytes \cup unknown |-> IF i \in unknown THEN any[i] ELSE bytes[i]] :
            any \in [unknown -> Unwritten]}

DataStartMutant(bytes, total) ==
    LET one == read_gzip_header_str(bytes, HEADER, total)
    IN  IF bytes[2] \notin {"one", "two"} THEN HEADER
        ELSE IF bytes[2] = "one" \/ one = 0 THEN one
        ELSE read_gzip_header_str(bytes, one, total)

\* Where the data begins, 0 if the header is not one.
DataStart(bytes, total) ==
    LET one == read_gzip_header_str(bytes, HEADER, total)
    IN  IF bytes[1] # "magic" \/ bytes[2] \notin {"plain", "one", "two"} THEN 0
        ELSE IF bytes[2] = "plain" THEN HEADER
        ELSE IF bytes[2] = "one" \/ one = 0 THEN one
        ELSE read_gzip_header_str(bytes, one, total)

Parsed(bytes, total) ==
    \E found \in Found(bytes, total) :
        LET start == DataStart(found, total)
        IN  /\ ctx' = [ctx EXCEPT !.buf = IF src.kind = "string" THEN @ ELSE found,
                                  !.in_total = total, !.in_pos = start]
            /\ pc' = IF start = 0 THEN "badheader" ELSE "leftover"
            /\ z' = [z EXCEPT !.open = start # 0]

\* The bytes of a string are looked at whatever its length.
gzip_read_header ==
    /\ pc = "header" /\ UNCHANGED <<op, dest>>
    /\ \/ src.kind = "string" /\ Parsed(src.data, Len(src.data)) /\ UNCHANGED src
       \/ EndOfFile /\ Leave("raised") /\ UNCHANGED <<src, ctx>>
       \/ /\ src.kind # "string" /\ ~EndOfFile
          /\ \E n \in ReadLengths :
                LET total == ctx.in_total + n
                    bytes == read_to_raw_buffer(n)
                IN  /\ src' = [src EXCEPT !.read = @ + n]
                    /\ \/ n = 0 /\ pc' = "badheader" /\ UNCHANGED <<ctx, z>>
                       \/ /\ n > 0 /\ total < HEADER
                          /\ ctx' = [ctx EXCEPT !.in_total = total, !.buf = bytes, !.split = TRUE]
                          /\ UNCHANGED <<pc, z>>
                       \/ n > 0 /\ total >= HEADER /\ Parsed(bytes, total)

----------------------------------------------------------------------------
(* zlib *)

Lesser(a, b) == IF a < b THEN a ELSE b

\* What deflate may do with the input: how much it gives out, and keeps.
Deflated(room, finish) ==
    LET all == z.held + Len(ctx.avail_in) + (IF finish /\ ~z.finished THEN Trailer ELSE 0)
        outs == IF finish THEN {Lesser(all, room)}
                ELSE {n \in 0..Lesser(all, room) : all - n <= Hold \/ n = room}
    IN  {[out |-> n, held |-> all - n] : n \in outs}

\* inflate gives out all it can, and nothing for what is not its data.
DataIn(bytes) == Cardinality({i \in DOMAIN bytes : bytes[i] = "data"})
Inflated(room) ==
    LET all == z.held + Ratio * DataIn(ctx.avail_in)
    IN  {[out |-> Lesser(all, room), held |-> all - Lesser(all, room)]}

WrittenMutant(r, finish) ==
    LET len    == ctx.out_pos + r.out
        footer == finish /\ ctx.f_gzip_footer
        whole  == len + (IF footer THEN FOOTER ELSE 0)
        body   == write_from_raw_buffer(write_from_raw_buffer(dest, Piece("header", ctx.out_pos)),
                                        Piece("body", r.out))
    IN  /\ dest' = write_from_raw_buffer(body, Piece("footer", whole - len))
        /\ ctx' = [ctx EXCEPT !.out_total = @ + whole, !.out_pos = 0, !.avail_in = <<>>,
                              !.out_len = whole,
                              !.avail_out = CHUNK - ctx.out_pos - r.out,
                              !.isize = IF footer THEN ctx.in_total ELSE @]
        /\ z' = [z EXCEPT !.held = r.held, !.given = @ + Len(ctx.avail_in),
                          !.finished = @ \/ finish]

\* z_stream_write_out: how the call ends, for every r that zlib may do.
\* The input is taken, or in r.held.
Written(r, finish) ==
    LET len    == ctx.out_pos + r.out
        footer == finish /\ ctx.f_gzip_footer /\ CHUNK - len >= FOOTER
        whole  == len + (IF footer THEN FOOTER ELSE 0)
        body   == write_from_raw_buffer(write_from_raw_buffer(dest, Piece("header", ctx.out_pos)),
                                        Piece("body", r.out))
    IN  /\ dest' = write_from_raw_buffer(body, Piece("footer", whole - len))
        /\ ctx' = [ctx EXCEPT !.out_total = IF whole = 0 THEN @ ELSE @ + whole - ctx.out_pos,
                              !.out_pos = 0, !.out_len = whole, !.avail_in = <<>>,
                              !.avail_out = CHUNK - ctx.out_pos - r.out,
                              !.isize = IF footer THEN ctx.in_total ELSE @]
        /\ z' = [z EXCEPT !.held = r.held, !.given = @ + Len(ctx.avail_in),
                          !.finished = @ \/ finish]

z_stream_write_out(finish) ==
    LET room == CHUNK - ctx.out_pos
    IN  \E r \in (IF Compressing THEN Deflated(room, finish) ELSE Inflated(room)) :
            Written(r, finish)

----------------------------------------------------------------------------
(* z_stream_io_loop *)

\* What was read together with the header.  in_total counts all reads of the
\* header, each of which went to the beginning of the buffer: it may tell of
\* bytes that were not read, and lie behind the end of the buffer.
Leftover ==
    /\ pc = "leftover" /\ UNCHANGED <<op, src, z, dest>>
    /\ IF src.kind # "string" /\ ctx.in_total > ctx.in_pos
       THEN /\ ctx' = [ctx EXCEPT !.in_total = @ - ctx.in_pos,
                          !.avail_in = SubSeq(ctx.buf, ctx.in_pos + 1, ctx.in_total)]
            /\ pc' = "drain"
       ELSE UNCHANGED ctx /\ pc' = "read"

ReadMoreMutant ==
    /\ pc = "read" /\ UNCHANGED <<op, dest, z>>
    /\ \E n \in ReadLengths :
          /\ src' = [src EXCEPT !.read = @ + n]
          /\ ctx' = [ctx EXCEPT !.eof = n > 0 /\ n < CHUNK, !.avail_in = SubSeq(Rest, 1, n)]
    /\ pc' = "write"

\* What zlib gets of a string.  Where the data would begin behind its end the
\* negative length becomes a huge one: inflate takes what it likes.
StringInput ==
    IF ctx.in_pos <= Len(src.data) THEN {SubSeq(src.data, ctx.in_pos + 1, Len(src.data))}
    ELSE {Copies("data", n) : n \in 0..MaxStray}

ReadMore ==
    /\ pc = "read" /\ UNCHANGED <<op, dest>>
    /\ \/ /\ src.kind = "string"
          /\ \E given \in StringInput :
                ctx' = [ctx EXCEPT !.avail_in = given, !.eof = TRUE,
                                   !.in_total = @ + (Len(src.data) - ctx.in_pos)]
          /\ src' = [src EXCEPT !.read = Len(src.data)]
          /\ pc' = "write" /\ UNCHANGED z
       \/ EndOfFile /\ Leave("raised") /\ UNCHANGED <<src, ctx>>
       \/ /\ src.kind # "string" /\ ~EndOfFile
          /\ \E n \in ReadLengths :
                /\ src' = [src EXCEPT !.read = @ + n]
                /\ ctx' = [ctx EXCEPT !.buf = read_to_raw_buffer(n), !.in_total = @ + n,
                              !.eof = n > 0 /\ n < CHUNK,
                              !.avail_in = SubSeq(Rest, 1, n)]
                /\ pc' = IF n = 0 THEN "flush" ELSE "write"
          /\ UNCHANGED z

\* Until zlib leaves room in the output buffer.
WriteOut ==
    /\ pc \in {"drain", "write"} /\ UNCHANGED <<op, src>>
    /\ z_stream_write_out(pc = "write" /\ ctx.eof)
    /\ pc' = IF ctx'.avail_out = 0 THEN pc
             ELSE IF pc = "write" /\ ctx.eof THEN "cleanup" ELSE "read"

Flush == pc = "flush" /\ z_stream_write_out(TRUE) /\ pc' = "cleanup" /\ UNCHANGED <<op, src>>

Cleanup == pc = "cleanup" /\ Leave("done") /\ UNCHANGED <<op, src, ctx, dest>>

Interrupted ==
    /\ pc \in {"header", "read", "drain", "write", "flush", "in", "size", "out"}
    /\ Leave("raised") /\ UNCHANGED <<op, src, ctx, dest>>

----------------------------------------------------------------------------
(* IO_http1_splice_chunked: in_total is the rest of the chunk, out_pos tells *)
(* whether the end of the last chunk is still in the buffer.               *)

EndOfChunkMutant == Piece("crlf", 0)
EndOfChunk == Piece("crlf", ctx.out_pos)

\* From the source to the pipe.
SpliceIn ==
    /\ pc = "in" /\ UNCHANGED <<op, dest, z>>
    /\ \E n \in ReadLengths :
          /\ src' = [src EXCEPT !.read = @ + n]
          /\ ctx' = [ctx EXCEPT !.in_total = n]
          /\ pc' = "size"

WriteSize ==
    /\ pc = "size" /\ UNCHANGED <<op, src, z>>
    /\ dest' = write_from_raw_buffer(write_from_raw_buffer(dest, EndOfChunk),
           IF ctx.in_total = 0 THEN Piece("last", 1) ELSE Piece("size", ctx.in_total))
    /\ ctx' = [ctx EXCEPT !.out_pos = 0]
    /\ pc' = IF ctx.in_total = 0 THEN "done" ELSE "out"

\* From the pipe to the destination, in as many pieces as it takes.
SpliceOut ==
    /\ pc = "out" /\ UNCHANGED <<op, src, z>>
    /\ \E n \in 1..ctx.in_total :
          /\ dest' = write_from_raw_buffer(dest, Piece("body", n))
          /\ ctx' = [ctx EXCEPT !.in_total = @ - n, !.out_pos = IF n = ctx.in_total THEN 1 ELSE 0]
          /\ pc' = IF n = ctx.in_total THEN "in" ELSE "out"

Next ==
    \/ gzip_read_header \/ Leftover \/ ReadMore \/ WriteOut \/ Flush \/ Cleanup
    \/ SpliceIn \/ WriteSize \/ SpliceOut \/ Interrupted

\* The source and the destination answer in the end, and the fiber is resumed
\* when they do.
Spec == Init /\ [][Next]_vars /\ WF_vars(Next)

----------------------------------------------------------------------------
(* Properties *)

Ended == pc \in {"done", "raised", "badheader"}
DataBytes == DataIn(SubSeq(src.data, ctx.in_pos + 1, Len(src.data)))

\* A gzip header given as a string that ends before the header does.
CutString == op = "gunzip" /\ src.kind = "string" /\ Len(src.data) < HEADER

\* The bytes that were written in pieces of the kinds W.
Bytes(W, ps) ==
    LET sum[i \in 0..Len(ps)] ==
            IF i = 0 THEN 0 ELSE sum[i - 1] + (IF ps[i].what \in W THEN ps[i].n ELSE 0)
    IN  sum[Len(ps)]
Kept == {"header", "body", "footer"}

\* The positions stay in the buffers: so does the footer, which is put behind
\* what zlib has left of the output buffer.  The two ways in which gunzip's
\* input passes its end are named: a string cut off in its header (the data is
\* looked for behind it), and a header that came in several reads (zlib is given
\* up to HEADER - 1 bytes too many).
TypeOK ==
    /\ ctx.out_len \in 0..CHUNK /\ ctx.out_pos \in 0..CHUNK /\ ctx.avail_out \in 0..CHUNK
    /\ ctx.in_pos \in 0..Len(src.data) \/ CutString
    /\ pc = "leftover" /\ src.kind # "string" =>
          ctx.in_total < CHUNK + (IF ctx.split THEN HEADER ELSE 1)
    /\ ctx.buf \in Seq(ByteKinds \cup {"none"}) /\ Len(ctx.buf) = CHUNK + HEADER
    /\ src.read \in 0..Len(src.data)
    /\ \A i \in DOMAIN dest : dest[i].n \in 1..CHUNK

\* The number that is returned is the number of bytes that were written,
\* although the header is counted before it is written and the footer is
\* written on the way.
OutTotalExact == pc = "done" /\ op # "chunked" => ctx.out_total = Bytes(Kept, dest)

\* A gzip footer is written at most once, is the end of the file, comes after
\* all that zlib had to give, and tells the length of what was compressed.
FooterSeals ==
    LET footers == {i \in DOMAIN dest : dest[i].what = "footer"}
    IN  op = "gzip" /\ footers # {} =>
        /\ footers = {Len(dest)} /\ Last(dest) = Piece("footer", FOOTER)
        /\ z.finished /\ z.held = 0 /\ ctx.isize = z.given
        /\ Bytes({"body"}, dest) = z.given + Trailer
        /\ Head(dest).what = "header"

\* A source that gives all that is asked for is compressed or inflated to its
\* end.  Exempt are the two ways in which the output buffer ends a file early:
\* the last flush fills it, or leaves too little room for the footer; and a
\* string cut off in its gzip header, for which zlib is given other memory.
WholeSource ==
    /\ pc = "done" /\ src.kind \in {"string", "file"} /\ ~CutString
    /\ (Compressing => ctx.avail_out >= FOOTER)
    => /\ src.read = Len(src.data) /\ z.given >= DataBytes /\ z.held = 0
       /\ ~Compressing => Bytes(Kept, dest) = Ratio * DataBytes
       /\ op = "gzip" => Bytes({"footer"}, dest) = FOOTER

\* A gzip header that ends at p: the fixed part, and as many strings as its
\* flags tell, each with its terminator.
HeaderEndsAt(p) ==
    LET nuls == {i \in (HEADER + 1)..p : src.data[i] = "nul"}
    IN  /\ p \in HEADER..Len(src.data) /\ src.data[1] = "magic"
        /\ \/ src.data[2] = "plain" /\ p = HEADER
           \/ src.data[2] = "one" /\ nuls = {p}
           \/ src.data[2] = "two" /\ \E q \in nuls : q # p /\ nuls = {q, p}

\* gunzip finds the data right behind the header or refuses the source, and
\* of the sources whose first CHUNK bytes it gets in one read it refuses none
\* with a header in them.  Not understood, and yet taken, may be a string cut
\* off in its header, and a header that came in several reads.
HeaderUnderstood ==
    op = "gunzip" =>
        /\ pc \in {"leftover", "drain", "read", "write", "flush", "cleanup", "done"} =>
              HeaderEndsAt(ctx.in_pos) \/ CutString \/ ctx.split
        /\ pc = "badheader" /\ src.kind \in {"string", "file"} =>
              \A p \in HEADER..Len(src.data) :
                  HeaderEndsAt(p) => src.kind = "file" /\ p > CHUNK

\* The state of a reader of chunks: the bytes missing in the open chunk; -1: none
\* is open, -2: the end, -3: bad.
ReadPiece(left, p) ==
    IF p.what = "size" /\ left = -1 THEN p.n
    ELSE IF p.what = "body" /\ left >= p.n THEN left - p.n
    ELSE IF p.what = "crlf" /\ left = 0 THEN -1
    ELSE IF p.what = "last" /\ left = -1 THEN -2 ELSE -3
ReadChunks(ps) ==
    LET left[i \in 0..Len(ps)] == IF i = 0 THEN -1 ELSE ReadPiece(left[i - 1], ps[i])
    IN  left[Len(ps)]

\* Every chunk is announced with the number of bytes that follow, and closed
\* before the next one, however the pipe splits it; the last one closes it all.
ChunksWellFormed ==
    op = "chunked" =>
        /\ ReadChunks(dest) # -3
        /\ pc = "done" => ReadChunks(dest) = -2 /\ Bytes({"body"}, dest) = DataBytes

\* Whatever way a call ends, zlib's memory is freed.
ZlibIsFreed == Ended => ~z.open

\* A call ends: the loops around zlib make progress.
Terminates == <>Ended

\* What the comments promise: the data of the source goes to the destination.
SourceIsDrained == pc = "done" => src.read = Len(src.data)

\* The positions stay in the buffers, the call returns what it wrote, and zlib's
\* memory is freed whatever way it ends.
WellFormed == TypeOK /\ OutTotalExact /\ ZlibIsFreed
=============================================================================
