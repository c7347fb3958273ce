------------------------- MODULE IOExtensionsProofs -------------------------
(***************************************************************************)
(* Proofs about the compression calls and http1_splice_chunked, for any    *)
(* size of the buffers, of the gzip header and footer, any sources, gzip   *)
(* files or not, anything in memory that was not written, and any amount   *)
(* that zlib holds back.                                                   *)
(*                                                                         *)
(* What was written is a sequence of pieces, and the properties are about  *)
(* sums over it (Bytes) and about a reader that walks along it             *)
(* (ReadChunks), two recursive functions.  A piece at the end adds its own *)
(* bytes to the sum, or is one more step of the reader: this is shown      *)
(* first, by looking at the least length for which it would fail.          *)
(*                                                                         *)
(* ExtInv then follows the call.  Typed, Staged: what is in the buffers at *)
(* each place.  Totalled: what is counted is what was written and the      *)
(* header, which is counted before.  ReadToEnd: where the whole source has *)
(* been read.  DeflateAccounts, InflateAccounts: what zlib was given, what *)
(* it holds and what came out.  FooterLast, HeaderRead, ChunksRead: the    *)
(* framing.                                                                *)
(***************************************************************************)
EXTENDS IOExtensions, DequeProofs, FiniteSetTheorems

----------------------------------------------------------------------------
(* Sums over what was written *)

\* f[i] is the sum over the first i of n pieces.
IsSum(f, W, ps, n) ==
    f = [i \in 0..n |-> IF i = 0 THEN 0
                        ELSE f[i - 1] + (IF ps[i].what \in W THEN ps[i].n ELSE 0)]

\* Bytes is defined: there is such a function, by induction on n.
LEMMA SumExists ==
  ASSUME NEW W, NEW ps, NEW N \in Nat
  PROVE  \E f : IsSum(f, W, ps, N)
<1> DEFINE Bad == {n \in 0..N : ~\E f : IsSum(f, W, ps, n)}
<1>1. SUFFICES ASSUME Bad # {} PROVE FALSE
  OBVIOUS
<1>2. PICK m \in Bad : \A y \in Bad : m <= y
  <2>1. Bad \in SUBSET Nat
    OBVIOUS
  <2>2. QED
    BY <1>1, <2>1, MinOfNats
<1>3. IsSum([i \in 0..0 |-> 0], W, ps, 0)
  BY DEF IsSum
<1>4. m # 0
  BY <1>3, <1>2
<1>5. m - 1 \in 0..N /\ m - 1 \notin Bad
  BY <1>2, <1>4
<1>6. PICK f : IsSum(f, W, ps, m - 1)
  BY <1>5
<1> DEFINE g == [i \in 0..m |-> IF i = m
                    THEN f[m - 1] + (IF ps[m].what \in W THEN ps[m].n ELSE 0) ELSE f[i]]
<1>7. IsSum(g, W, ps, m)
  <2>1. \A i \in 0..m : g[i] = IF i = 0 THEN 0
                               ELSE g[i - 1] + (IF ps[i].what \in W THEN ps[i].n ELSE 0)
    BY <1>6, <1>4, <1>2 DEF IsSum
  <2>2. QED
    BY <2>1 DEF IsSum
<1>8. QED
  BY <1>7, <1>2

LEMMA BytesIs ==
  ASSUME NEW W, NEW ps, Len(ps) \in Nat
  PROVE  \E f : IsSum(f, W, ps, Len(ps)) /\ Bytes(W, ps) = f[Len(ps)]
<1>1. Bytes(W, ps) = (CHOOSE f : IsSum(f, W, ps, Len(ps)))[Len(ps)]
  BY Zenon DEF Bytes, IsSum
<1>2. \E f : IsSum(f, W, ps, Len(ps))
  BY SumExists, Zenon
<1>3. QED
  BY <1>1, <1>2, Zenon

PieceKinds == {"header", "body", "footer", "crlf", "size", "last"}
PieceRecords == [what : PieceKinds, n : Nat]

\* The first n sums depend on the first n pieces only.
LEMMA SumsAgree ==
  ASSUME NEW W, NEW ps \in Seq(PieceRecords), NEW qs \in Seq(PieceRecords), NEW n \in Nat,
         n <= Len(ps), n <= Len(qs), \A i \in 1..n : ps[i] = qs[i],
         NEW f, IsSum(f, W, ps, Len(ps)), NEW g, IsSum(g, W, qs, Len(qs))
  PROVE  f[n] = g[n] /\ f[n] \in Nat
<1> DEFINE Bad == {i \in 0..n : ~(f[i] = g[i] /\ f[i] \in Nat)}
<1>1. SUFFICES ASSUME Bad # {} PROVE FALSE
  OBVIOUS
<1>2. PICK m \in Bad : \A y \in Bad : m <= y
  <2>1. Bad \in SUBSET Nat
    OBVIOUS
  <2>2. QED
    BY <1>1, <2>1, MinOfNats
<1>3. f[0] = 0 /\ g[0] = 0
  BY DEF IsSum
<1>4. m # 0
  BY <1>3, <1>2
<1>5. f[m - 1] = g[m - 1] /\ f[m - 1] \in Nat
  BY <1>2, <1>4
<1>a. /\ m \in 1..n /\ m \in 0..Len(ps) /\ m \in 0..Len(qs)
      /\ m \in 1..Len(ps) /\ m # 0 /\ ~(f[m] = g[m] /\ f[m] \in Nat)
  BY <1>2, <1>4
<1> HIDE DEF Bad
<1>6. f[m] = f[m - 1] + (IF ps[m].what \in W THEN ps[m].n ELSE 0)
  BY <1>a DEF IsSum
<1>7. g[m] = g[m - 1] + (IF qs[m].what \in W THEN qs[m].n ELSE 0)
  BY <1>a DEF IsSum
<1>8. ps[m] = qs[m] /\ ps[m].n \in Nat
  <2>1. ps[m] = qs[m] /\ ps[m] \in PieceRecords
    BY <1>a
  <2>2. QED
    BY <2>1 DEF PieceRecords
<1>9. QED
  BY <1>a, <1>5, <1>6, <1>7, <1>8

LEMMA BytesEmpty ==
  ASSUME NEW W
  PROVE  Bytes(W, <<>>) = 0
<1>1. Len(<<>>) = 0
  OBVIOUS
<1>2. PICK f : IsSum(f, W, <<>>, 0) /\ Bytes(W, <<>>) = f[0]
  BY <1>1, BytesIs
<1>3. QED
  BY <1>2 DEF IsSum

\* One more piece adds its bytes.
LEMMA BytesAppend ==
  ASSUME NEW W, NEW ps \in Seq(PieceRecords), NEW p \in PieceRecords
  PROVE  /\ Bytes(W, ps) \in Nat
         /\ Bytes(W, Append(ps, p)) = Bytes(W, ps) + (IF p.what \in W THEN p.n ELSE 0)
<1> DEFINE qs == Append(ps, p)
           N == Len(ps)
<1>1. qs \in Seq(PieceRecords) /\ Len(qs) = N + 1 /\ N \in Nat /\ qs[N + 1] = p
      /\ \A i \in 1..N : ps[i] = qs[i]
  OBVIOUS
<1> HIDE DEF qs
<1>2. PICK f : IsSum(f, W, ps, N) /\ Bytes(W, ps) = f[N]
  BY BytesIs
<1>3. PICK g : IsSum(g, W, qs, Len(qs)) /\ Bytes(W, qs) = g[Len(qs)]
  BY <1>1, BytesIs
<1>4. f[N] = g[N] /\ f[N] \in Nat
  <2>1. N <= Len(ps) /\ N <= Len(qs)
    BY <1>1
  <2>2. QED
    BY <1>1, <1>2, <1>3, <2>1, SumsAgree, Zenon
<1>b. N + 1 \in 0..Len(qs) /\ N + 1 # 0 /\ (N + 1) - 1 = N
  BY <1>1
<1>5. g[N + 1] = g[N] + (IF p.what \in W THEN p.n ELSE 0)
  BY <1>1, <1>b, <1>3 DEF IsSum
<1>6. QED
  BY <1>1, <1>2, <1>3, <1>4, <1>5 DEF qs

\* f[i] is what a reader of chunks knows after i of n pieces.
IsRead(f, ps, n) ==
    f = [i \in 0..n |-> IF i = 0 THEN -1 ELSE ReadPiece(f[i - 1], ps[i])]

\* ReadChunks is defined, by induction on n.
LEMMA ReadExists ==
  ASSUME NEW ps, NEW N \in Nat
  PROVE  \E f : IsRead(f, ps, N)
<1> DEFINE Bad == {n \in 0..N : ~\E f : IsRead(f, ps, n)}
<1>1. SUFFICES ASSUME Bad # {} PROVE FALSE
  OBVIOUS
<1>2. PICK m \in Bad : \A y \in Bad : m <= y
  <2>1. Bad \in SUBSET Nat
    OBVIOUS
  <2>2. QED
    BY <1>1, <2>1, MinOfNats
<1>3. IsRead([i \in 0..0 |-> -1], ps, 0)
  BY DEF IsRead
<1>4. m # 0
  BY <1>3, <1>2
<1>5. m - 1 \in 0..N /\ m - 1 \notin Bad
  BY <1>2, <1>4
<1>6. PICK f : IsRead(f, ps, m - 1)
  BY <1>5
<1> DEFINE g == [i \in 0..m |-> IF i = m THEN ReadPiece(f[m - 1], ps[m]) ELSE f[i]]
<1>7. IsRead(g, ps, m)
  <2>1. \A i \in 0..m : g[i] = IF i = 0 THEN -1 ELSE ReadPiece(g[i - 1], ps[i])
    BY <1>6, <1>4, <1>2 DEF IsRead
  <2>2. QED
    BY <2>1 DEF IsRead
<1>8. QED
  BY <1>7, <1>2

LEMMA ReadIs ==
  ASSUME NEW ps, Len(ps) \in Nat
  PROVE  \E f : IsRead(f, ps, Len(ps)) /\ ReadChunks(ps) = f[Len(ps)]
<1>1. ReadChunks(ps) = (CHOOSE f : IsRead(f, ps, Len(ps)))[Len(ps)]
  BY Zenon DEF ReadChunks, IsRead
<1>2. \E f : IsRead(f, ps, Len(ps))
  BY ReadExists, Zenon
<1>3. QED
  BY <1>1, <1>2, Zenon

LEMMA ReadsAgree ==
  ASSUME NEW ps, NEW qs, Len(ps) \in Nat, Len(qs) \in Nat, NEW n \in Nat,
         n <= Len(ps), n <= Len(qs), \A i \in 1..n : ps[i] = qs[i],
         NEW f, IsRead(f, ps, Len(ps)), NEW g, IsRead(g, qs, Len(qs))
  PROVE  f[n] = g[n]
<1> DEFINE Bad == {i \in 0..n : f[i] # g[i]}
<1>1. SUFFICES ASSUME Bad # {} PROVE FALSE
  OBVIOUS
<1>2. PICK m \in Bad : \A y \in Bad : m <= y
  <2>1. Bad \in SUBSET Nat
    OBVIOUS
  <2>2. QED
    BY <1>1, <2>1, MinOfNats
<1>3. f[0] = -1 /\ g[0] = -1
  BY DEF IsRead
<1>4. m # 0
  BY <1>3, <1>2
<1>5. f[m - 1] = g[m - 1]
  BY <1>2, <1>4
<1>6. /\ m \in 1..n /\ m \in 0..Len(ps) /\ m \in 0..Len(qs) /\ m # 0 /\ f[m] # g[m]
  BY <1>2, <1>4
<1> HIDE DEF Bad
<1>7. f[m] = ReadPiece(f[m - 1], ps[m])
  BY <1>6 DEF IsRead
<1>8. g[m] = ReadPiece(g[m - 1], qs[m])
  BY <1>6 DEF IsRead
<1>9. QED
  BY <1>5, <1>6, <1>7, <1>8

LEMMA ReadEmpty == ReadChunks(<<>>) = -1
<1>1. Len(<<>>) = 0
  OBVIOUS
<1>2. PICK f : IsRead(f, <<>>, 0) /\ ReadChunks(<<>>) = f[0]
  BY <1>1, ReadIs
<1>3. QED
  BY <1>2 DEF IsRead

LEMMA ReadAppend ==
  ASSUME NEW ps \in Seq(PieceRecords), NEW p \in PieceRecords
  PROVE  ReadChunks(Append(ps, p)) = ReadPiece(ReadChunks(ps), p)
<1> DEFINE qs == Append(ps, p)
           N == Len(ps)
<1>1. qs \in Seq(PieceRecords) /\ Len(qs) = N + 1 /\ N \in Nat /\ qs[N + 1] = p
      /\ \A i \in 1..N : ps[i] = qs[i]
  OBVIOUS
<1> HIDE DEF qs
<1>2. PICK f : IsRead(f, ps, N) /\ ReadChunks(ps) = f[N]
  BY ReadIs
<1>3. PICK g : IsRead(g, qs, Len(qs)) /\ ReadChunks(qs) = g[Len(qs)]
  BY <1>1, ReadIs
<1>4. f[N] = g[N]
  <2>1. N <= Len(ps) /\ N <= Len(qs) /\ Len(qs) \in Nat
    BY <1>1
  <2>2. QED
    BY <1>1, <1>2, <1>3, <2>1, ReadsAgree
<1>5. N + 1 \in 0..Len(qs) /\ N + 1 # 0 /\ (N + 1) - 1 = N
  BY <1>1
<1>6. g[N + 1] = ReadPiece(g[N], p)
  BY <1>1, <1>5, <1>3 DEF IsRead
<1>7. QED
  BY <1>1, <1>2, <1>3, <1>4, <1>6 DEF qs

\* What a write adds, whatever was written before.
WrittenPieces == [what : PieceKinds, n : 1..CHUNK]

Grown(d, what, n, e) ==
    /\ e \in Seq(WrittenPieces)
    /\ \A W : /\ Bytes(W, d) \in Nat
              /\ Bytes(W, e) = Bytes(W, d) + (IF what \in W THEN n ELSE 0)
    /\ ReadChunks(e) = IF n > 0 THEN ReadPiece(ReadChunks(d), Piece(what, n))
                       ELSE ReadChunks(d)
    /\ n = 0 => e = d
    /\ n > 0 => e = Append(d, Piece(what, n))

LEMMA WriteAdds ==
  ASSUME NEW d \in Seq(WrittenPieces), NEW what \in PieceKinds, NEW n \in 0..CHUNK
  PROVE  Grown(d, what, n, write_from_raw_buffer(d, Piece(what, n)))
<1> DEFINE e == write_from_raw_buffer(d, Piece(what, n))
<1>1. CHUNK \in Nat
  BY ExtAssumption
<1>2. WrittenPieces \subseteq PieceRecords /\ Piece(what, n) \in PieceRecords
  BY <1>1 DEF WrittenPieces, PieceRecords, Piece
<1>3. d \in Seq(PieceRecords)
  BY <1>2
<1>4. Piece(what, n).what = what /\ Piece(what, n).n = n
  BY DEF Piece
<1>5. \A W : Bytes(W, d) \in Nat
  BY <1>2, <1>3, BytesAppend
<1>6. CASE n = 0
  <2>1. e = d
    BY <1>4, <1>6 DEF write_from_raw_buffer
  <2> HIDE DEF e
  <2>2. Grown(d, what, n, e)
    BY <2>1, <1>5, <1>6 DEF Grown
  <2>3. QED
    BY <2>2 DEF e
<1>7. CASE n > 0
  <2>1. e = Append(d, Piece(what, n)) /\ n # 0
    BY <1>4, <1>7 DEF write_from_raw_buffer
  <2> HIDE DEF e
  <2>2. Piece(what, n) \in WrittenPieces
    BY <1>1, <1>7 DEF WrittenPieces, Piece
  <2>3. e \in Seq(WrittenPieces)
    BY <2>1, <2>2
  <2>4. \A W : Bytes(W, e) = Bytes(W, d) + (IF what \in W THEN n ELSE 0)
    BY <1>2, <1>3, <1>4, <2>1, BytesAppend
  <2>5. ReadChunks(e) = ReadPiece(ReadChunks(d), Piece(what, n))
    BY <1>2, <1>3, <2>1, ReadAppend
  <2>6. Grown(d, what, n, e)
    BY <1>5, <1>7, <2>1, <2>3, <2>4, <2>5 DEF Grown
  <2>7. QED
    BY <2>6 DEF e
<1>8. QED
  BY <1>1, <1>6, <1>7

----------------------------------------------------------------------------
(* The invariant *)

\* What a place in a buffer may hold.
Cells == ByteKinds \cup {"none"}
Ops == {"gzip", "gunzip", "deflate", "inflate", "chunked"}
Looping == {"drain", "read", "write", "flush", "cleanup", "done"}
Places == Looping \cup {"header", "leftover", "badheader", "raised", "in", "size", "out"}

Sources == [kind : Kinds, data : Seq(Cells), read : Nat]
Contexts ==
    [f_gzip_footer : BOOLEAN, buf : [1..(CHUNK + HEADER) -> Cells], in_pos : Nat,
     in_total : Int,
     out_pos : 0..CHUNK, out_total : Nat, avail_in : Seq(Cells), avail_out : 0..CHUNK,
     out_len : 0..CHUNK, eof : BOOLEAN, isize : Int, split : BOOLEAN]
Streams == [open : BOOLEAN, held : Nat, given : Nat, finished : BOOLEAN]

Typed ==
    /\ op \in Ops /\ src \in Sources /\ ctx \in Contexts /\ z \in Streams
    /\ dest \in Seq(WrittenPieces) /\ pc \in Places
    /\ src.data \in Contents(op) /\ src.read <= Len(src.data)
    /\ ctx.in_pos <= Len(src.data) \/ CutString

\* Which call is where, and when zlib's memory is not there.
Staged ==
    /\ pc \in {"in", "size", "out"} => op = "chunked"
    /\ op = "chunked" => pc \in {"in", "size", "out", "done", "raised"} /\ ~z.open
    /\ pc \in {"header", "leftover", "drain", "badheader"} => op = "gunzip"
    /\ pc = "header" \/ Ended => ~z.open
    /\ ctx.f_gzip_footer <=> op = "gzip"
    /\ pc \notin {"drain", "write", "raised"} => ctx.avail_in = <<>>

\* The header is counted before it is written, and written first.
Totalled ==
    op # "chunked" =>
        /\ ctx.out_total = Bytes(Kept, dest) + ctx.out_pos
        /\ op # "gzip" => ctx.out_pos = 0
        /\ pc \in {"cleanup", "done"} => ctx.out_pos = 0
        /\ op = "gzip" => (ctx.out_pos > 0 <=> dest = <<>>)
        /\ op = "gzip" /\ dest # <<>> => dest[1].what = "header"

\* A string is read at once; where the whole source was read.
ReadToEnd ==
    /\ src.kind = "string" => /\ pc \in {"header", "leftover", "read"} => src.read = 0
                              /\ pc = "write" => ctx.eof
                              /\ pc \notin {"drain", "flush"}
    /\ pc = "flush" => src.read = Len(src.data)
    /\ src.kind \in {"string", "file"} =>
          /\ pc = "write" /\ ctx.eof => src.read = Len(src.data)
          /\ pc \in {"cleanup", "done"} => src.read = Len(src.data)

\* What deflate was given, holds and has given out.
DeflateAccounts ==
    Compressing =>
        /\ Bytes({"body"}, dest) + z.held = z.given + (IF z.finished THEN Trailer ELSE 0)
        /\ ctx.in_total = z.given + Len(ctx.avail_in) /\ ctx.in_total = src.read
        /\ ctx.in_pos = 0
        /\ z.finished => /\ ctx.avail_in = <<>> /\ pc \notin {"read", "flush"}
                         /\ pc = "write" => ctx.eof
        /\ pc \in {"cleanup", "done"} =>
              z.finished /\ (ctx.avail_out >= FOOTER => z.held = 0)

NoFooter ==
    (\A i \in DOMAIN dest : dest[i].what # "footer") /\ Bytes({"footer"}, dest) = 0
Sealed ==
    /\ dest # <<>> /\ dest[Len(dest)] = Piece("footer", FOOTER)
    /\ \A i \in DOMAIN dest : dest[i].what = "footer" => i = Len(dest)
    /\ ctx.isize = z.given /\ z.held = 0 /\ Bytes({"footer"}, dest) = FOOTER
FooterLast ==
    op = "gzip" =>
        IF pc \in {"cleanup", "done"} /\ ctx.avail_out >= FOOTER THEN Sealed ELSE NoFooter

\* What inflate was given, holds and has given out.
DataUpTo(bytes, n) == Cardinality({i \in 1..n : bytes[i] = "data"})
Passed == IF src.kind = "string" /\ pc = "read" THEN ctx.in_pos ELSE src.read
InflateAccounts ==
    op \in {"gunzip", "inflate"} =>
        /\ pc \notin {"drain", "write", "raised"} => z.held = 0
        /\ pc \in {"header", "leftover"} => dest = <<>> /\ z.given = 0
        /\ op = "inflate" => ctx.in_pos = 0
        /\ src.kind \in {"string", "file"} /\ pc \in Looping /\ ~CutString =>
              /\ Bytes(Kept, dest) + z.held + Ratio * DataIn(ctx.avail_in)
                    + Ratio * DataUpTo(src.data, ctx.in_pos) = Ratio * DataUpTo(src.data, Passed)
              /\ z.given + Len(ctx.avail_in) + ctx.in_pos >= src.read

\* Where gunzip is in the header of its source.
HeaderRead ==
    op = "gunzip" =>
        /\ pc = "header" => /\ ctx.in_total = src.read /\ src.read < HEADER
                            /\ ~ctx.split => src.read = 0
                            /\ src.kind = "file" /\ src.read > 0 => src.read = Len(src.data)
        /\ pc = "leftover" /\ src.kind # "string" =>
              /\ ctx.in_total \in Nat /\ ctx.in_total < CHUNK + HEADER
              /\ ~ctx.split => ctx.in_total <= CHUNK
        /\ pc = "leftover" /\ src.kind = "file" =>
              /\ ctx.in_total = src.read /\ src.read <= CHUNK
              /\ \A i \in 1..src.read : ctx.buf[i] = src.data[i]
              /\ ctx.in_pos <= src.read
        /\ pc \in Looping \cup {"leftover"} =>
              HeaderEndsAt(ctx.in_pos) \/ CutString \/ ctx.split
        /\ pc = "badheader" /\ src.kind \in {"string", "file"} =>
              \A p \in HEADER..Len(src.data) :
                  HeaderEndsAt(p) => src.kind = "file" /\ p > CHUNK

\* What a reader of the chunks knows when the writer is at pc.
ChunksRead ==
    op = "chunked" =>
        /\ src.kind = "stream" /\ ctx.in_pos = 0 /\ ReadChunks(dest) # -3
        /\ pc \in {"in", "size"} => /\ ctx.out_pos \in {0, 1}
                                    /\ ReadChunks(dest) = ctx.out_pos - 1
        /\ pc = "out" => ReadChunks(dest) = ctx.in_total /\ ctx.in_total > 0
        /\ pc \in {"size", "out"} => ctx.in_total \in 0..CHUNK
        /\ pc = "size" /\ ctx.in_total = 0 => src.read = Len(src.data)
        /\ pc = "done" => ReadChunks(dest) = -2 /\ src.read = Len(src.data)
        /\ pc # "raised" => Bytes({"body"}, dest)
              + (IF pc \in {"size", "out"} THEN ctx.in_total ELSE 0) = src.read

ExtInv ==
    /\ Typed /\ Staged /\ Totalled /\ ReadToEnd /\ DeflateAccounts /\ FooterLast
    /\ InflateAccounts /\ HeaderRead /\ ChunksRead

----------------------------------------------------------------------------
(* Sources *)

LEMMA Constants ==
  /\ CHUNK \in Nat /\ HEADER \in Nat /\ FOOTER \in Nat /\ Hold \in Nat /\ Trailer \in Nat
  /\ Ratio \in Nat /\ MaxData \in Nat /\ MaxSpliced \in Nat
  /\ HEADER >= 2 /\ HEADER + 4 <= CHUNK /\ FOOTER > 0 /\ Ratio > 0
  /\ GzipFiles \subseteq Seq(ByteKinds) /\ Unwritten \subseteq ByteKinds /\ MaxStray \in Nat
BY ExtAssumption

LEMMA CopiesOf ==
  ASSUME NEW b \in Cells, NEW n \in Nat
  PROVE  /\ Copies(b, n) \in Seq(Cells) /\ Len(Copies(b, n)) = n
         /\ \A i \in 1..n : Copies(b, n)[i] = b
BY DEF Copies

\* What a source may hold.
LEMMA ContentsOf ==
  ASSUME NEW o \in Ops, NEW data \in Contents(o)
  PROVE  /\ data \in Seq(ByteKinds) /\ data \in Seq(Cells)
         /\ o # "gunzip" => \A i \in 1..Len(data) : data[i] = "data"
<1>1. CASE o = "gunzip"
  <2>1. data \in Seq(ByteKinds)
    BY <1>1, Constants DEF Contents
  <2>2. ByteKinds \subseteq Cells
    BY DEF Cells
  <2>3. QED
    BY <1>1, <2>1, <2>2
<1>2. CASE o # "gunzip"
  <2>1. PICK n \in Nat : data = Copies("data", n)
    BY <1>2, Constants DEF Contents
  <2>2. data \in Seq(ByteKinds) /\ Len(data) = n /\ \A i \in 1..n : data[i] = "data"
    BY <2>1 DEF Copies, ByteKinds
  <2>3. data \in Seq(Cells)
    BY <2>2 DEF Cells
  <2>4. QED
    BY <1>2, <2>2, <2>3
<1>3. QED
  BY <1>1, <1>2

\* The data in a part of a source.
LEMMA DataFinite ==
  ASSUME NEW bytes, NEW n \in Nat
  PROVE  /\ IsFiniteSet({i \in 1..n : bytes[i] = "data"})
         /\ DataUpTo(bytes, n) \in Nat /\ DataUpTo(bytes, n) <= n
<1>1. IsFiniteSet(1..n) /\ Cardinality(1..n) = n
  BY FS_Interval
<1>2. {i \in 1..n : bytes[i] = "data"} \subseteq 1..n
  OBVIOUS
<1>3. QED
  BY <1>1, <1>2, FS_Subset, FS_CardinalityType DEF DataUpTo

LEMMA DataInIs ==
  ASSUME NEW bytes \in Seq(Cells)
  PROVE  /\ DataIn(bytes) = DataUpTo(bytes, Len(bytes))
         /\ DataIn(bytes) \in Nat /\ DataIn(bytes) <= Len(bytes)
         /\ bytes = <<>> => DataIn(bytes) = 0
<1>1. DOMAIN bytes = 1..Len(bytes) /\ Len(bytes) \in Nat
  OBVIOUS
<1>2. DataIn(bytes) = DataUpTo(bytes, Len(bytes))
  BY <1>1 DEF DataIn, DataUpTo
<1>3. bytes = <<>> => Len(bytes) = 0
  OBVIOUS
<1>4. /\ DataUpTo(bytes, Len(bytes)) \in Nat
      /\ DataUpTo(bytes, Len(bytes)) <= Len(bytes)
  BY <1>1, DataFinite
<1>5. QED
  BY <1>1, <1>2, <1>3, <1>4

LEMMA DataSplit ==
  ASSUME NEW bytes \in Seq(Cells), NEW a \in Nat, NEW n \in Nat, a + n <= Len(bytes),
         NEW part \in Seq(Cells), Len(part) = n,
         \A i \in 1..n : part[i] = bytes[a + i]
  PROVE  DataUpTo(bytes, a + n) = DataUpTo(bytes, a) + DataIn(part)
<1> DEFINE A == {i \in 1..a : bytes[i] = "data"}
           B == {i \in (a + 1)..(a + n) : bytes[i] = "data"}
           P == {i \in 1..n : part[i] = "data"}
           f == [i \in P |-> a + i]
<1>1. IsFiniteSet(A) /\ IsFiniteSet(P)
  BY DataFinite
<1>2. f \in Bijection(P, B)
  <2>1. f \in [P -> B]
    OBVIOUS
  <2>2. \A x, y \in P : f[x] = f[y] => x = y
    OBVIOUS
  <2>3. ASSUME NEW y \in B PROVE \E x \in P : f[x] = y
    <3>1. y - a \in P /\ f[y - a] = y
      OBVIOUS
    <3>2. QED
      BY <3>1
  <2>4. QED
    BY <2>1, <2>2, <2>3 DEF Bijection, Injection, Surjection, IsInjective
<1>3. IsFiniteSet(B) /\ Cardinality(B) = Cardinality(P)
  <2>1. ExistsBijection(P, B)
    BY <1>2, Zenon DEF ExistsBijection
  <2>2. QED
    BY <1>1, <2>1, FS_Bijection, Zenon
<1>4. {i \in 1..(a + n) : bytes[i] = "data"} = A \cup B /\ A \cap B = {}
  OBVIOUS
<1>5. Cardinality(A \cup B) = Cardinality(A) + Cardinality(B)
  <2>1. Cardinality(A \cup B) = Cardinality(A) + Cardinality(B) - Cardinality(A \cap B)
    BY <1>1, <1>3, FS_Union, Zenon
  <2>2. Cardinality(A \cap B) = 0
    BY <1>4, FS_EmptySet
  <2>3. Cardinality(A) \in Nat /\ Cardinality(B) \in Nat
    BY <1>1, <1>3, FS_CardinalityType
  <2>4. QED
    BY <2>1, <2>2, <2>3
<1>6. DataIn(part) = Cardinality(P)
  BY DEF DataIn
<1>7. QED
  BY <1>3, <1>4, <1>5, <1>6 DEF DataUpTo

\* Without data in the first a bytes.
LEMMA DataAfter ==
  ASSUME NEW bytes, NEW a \in Nat, \A i \in 1..a : bytes[i] # "data"
  PROVE  DataUpTo(bytes, a) = 0
<1>1. {i \in 1..a : bytes[i] = "data"} = {}
  OBVIOUS
<1>2. QED
  BY <1>1, FS_EmptySet DEF DataUpTo

\* read_to_raw_buffer: what a read may return, and where the source is then.
LEMMA ReadsOf ==
  ASSUME Typed, NEW n \in ReadLengths
  PROVE  /\ n \in 0..CHUNK /\ src.read + n <= Len(src.data)
         /\ n = 0 => src.read = Len(src.data)
         /\ src.kind = "file" /\ n < CHUNK => src.read + n = Len(src.data)
         /\ Rest \in Seq(Cells) /\ Len(Rest) = Len(src.data) - src.read
         /\ \A i \in 1..Len(Rest) : Rest[i] = src.data[src.read + i]
         /\ SubSeq(Rest, 1, n) \in Seq(Cells) /\ Len(SubSeq(Rest, 1, n)) = n
         /\ \A i \in 1..n : SubSeq(Rest, 1, n)[i] = src.data[src.read + i]
<1>1. src.data \in Seq(Cells) /\ src.read \in Nat /\ src.read <= Len(src.data)
  BY DEF Typed, Sources
<1>2. /\ Rest \in Seq(Cells) /\ Len(Rest) = Len(src.data) - src.read
      /\ \A i \in 1..Len(Rest) : Rest[i] = src.data[src.read + i]
  <2> DEFINE data == src.data
             k == src.read
  <2>1. data \in Seq(Cells) /\ k \in Nat /\ k <= Len(data)
    BY <1>1
  <2>2. Rest = SubSeq(data, k + 1, Len(data))
    BY DEF Rest
  <2> HIDE DEF data, k
  <2>3. /\ Rest \in Seq(Cells) /\ Len(Rest) = Len(data) - k
        /\ \A i \in 1..Len(Rest) : Rest[i] = data[k + i]
    BY <2>1, <2>2
  <2>4. QED
    BY <2>3 DEF data, k
<1>3. Rest = <<>> <=> Len(Rest) = 0
  BY <1>2
<1>4. /\ n \in 0..CHUNK /\ n <= Len(Rest) /\ (n = 0 => Len(Rest) = 0)
      /\ src.kind = "file" /\ n < CHUNK => n = Len(Rest)
  BY <1>2, <1>3, Constants DEF ReadLengths
<1>5. /\ SubSeq(Rest, 1, n) \in Seq(Cells) /\ Len(SubSeq(Rest, 1, n)) = n
      /\ \A i \in 1..n : SubSeq(Rest, 1, n)[i] = Rest[i]
  BY <1>2, <1>4
<1>6. \A i \in 1..n : SubSeq(Rest, 1, n)[i] = src.data[src.read + i]
  BY <1>2, <1>4, <1>5
<1>7. QED
  BY <1>1, <1>2, <1>4, <1>5, <1>6

LEMMA BufferRead ==
  ASSUME Typed, NEW n \in ReadLengths
  PROVE  /\ read_to_raw_buffer(n) \in [1..(CHUNK + HEADER) -> Cells]
         /\ \A i \in 1..n : read_to_raw_buffer(n)[i] = src.data[src.read + i]
<1>1. /\ n \in 0..CHUNK /\ n <= Len(Rest) /\ Rest \in Seq(Cells)
      /\ \A i \in 1..Len(Rest) : Rest[i] = src.data[src.read + i]
      /\ ctx.buf \in [1..(CHUNK + HEADER) -> Cells] /\ CHUNK \in Nat /\ Len(Rest) \in Nat
  <2>1. src.data \in Seq(Cells) /\ src.read \in Nat /\ ctx.buf \in [1..(CHUNK + HEADER) -> Cells]
    BY DEF Typed, Sources, Contexts
  <2>2. QED
    BY <2>1, ReadsOf, Constants
<1>2. \A i \in 1..n : Rest[i] \in Cells
  BY <1>1
<1>3. QED
  BY <1>1, <1>2, Constants DEF read_to_raw_buffer

----------------------------------------------------------------------------
(* z_stream_write_out *)

HasFooter(d) == \E i \in DOMAIN d : d[i].what = "footer"

Appended(d, p, e) ==
    /\ e # <<>> /\ Len(e) = Len(d) + 1 /\ e[Len(e)] = p
    /\ d # <<>> => e[1] = d[1]
    /\ d = <<>> => e[1] = p
    /\ p.what # "footer" /\ ~HasFooter(d) => ~HasFooter(e)
    /\ ~HasFooter(d) => \A i \in DOMAIN e : e[i].what = "footer" => i = Len(e)

LEMMA AppendPiece ==
  ASSUME NEW d \in Seq(WrittenPieces), NEW p \in WrittenPieces
  PROVE  Appended(d, p, Append(d, p))
<1> DEFINE e == Append(d, p)
<1>1. /\ e \in Seq(WrittenPieces) /\ Len(e) = Len(d) + 1 /\ e[Len(d) + 1] = p
      /\ \A i \in 1..Len(d) : e[i] = d[i]
      /\ Len(d) \in Nat /\ (d = <<>> <=> Len(d) = 0) /\ (e = <<>> <=> Len(e) = 0)
      /\ DOMAIN d = 1..Len(d) /\ DOMAIN e = 1..(Len(d) + 1)
  OBVIOUS
<1> HIDE DEF e
<1>2. \A i \in DOMAIN e : i \in DOMAIN d \/ i = Len(e)
  BY <1>1
<1>3. Appended(d, p, e)
  BY <1>1, <1>2 DEF HasFooter, Appended
<1>4. QED
  BY <1>3 DEF e

\* Header, body and footer in one write.
AllWritten(d, h, b, f, e) ==
    /\ e \in Seq(WrittenPieces)
    /\ Bytes(Kept, d) \in Nat /\ Bytes(Kept, e) = Bytes(Kept, d) + h + b + f
    /\ Bytes({"body"}, d) \in Nat /\ Bytes({"body"}, e) = Bytes({"body"}, d) + b
    /\ Bytes({"footer"}, d) \in Nat /\ Bytes({"footer"}, e) = Bytes({"footer"}, d) + f
    /\ d # <<>> => e # <<>> /\ e[1] = d[1]
    /\ d = <<>> /\ h > 0 => e # <<>> /\ e[1].what = "header"
    /\ f = 0 /\ ~HasFooter(d) => ~HasFooter(e)
    /\ f > 0 => e # <<>> /\ e[Len(e)] = Piece("footer", f)
    /\ f > 0 /\ ~HasFooter(d) => \A i \in DOMAIN e : e[i].what = "footer" => i = Len(e)

LEMMA WholeWrite ==
  ASSUME NEW d \in Seq(WrittenPieces), NEW h \in 0..CHUNK, NEW b \in 0..CHUNK,
         NEW f \in 0..CHUNK, NEW e,
         e = write_from_raw_buffer(
                 write_from_raw_buffer(write_from_raw_buffer(d, Piece("header", h)),
                                       Piece("body", b)), Piece("footer", f))
  PROVE  AllWritten(d, h, b, f, e)
<1>1. CHUNK \in Nat
  BY Constants
<1>2. "header" \in PieceKinds /\ "body" \in PieceKinds /\ "footer" \in PieceKinds
  BY DEF PieceKinds
<1>3. \A k \in {"header", "body", "footer"}, n \in 1..CHUNK :
         Piece(k, n) \in WrittenPieces /\ Piece(k, n).what = k
  BY <1>2 DEF WrittenPieces, Piece
<1> DEFINE d1 == write_from_raw_buffer(d, Piece("header", h))
           d2 == write_from_raw_buffer(d1, Piece("body", b))
<1>4. Grown(d, "header", h, d1)
  BY <1>2, WriteAdds
<1>a. d1 \in Seq(WrittenPieces)
  BY <1>4 DEF Grown
<1> HIDE DEF d1
<1>5. Grown(d1, "body", b, d2)
  BY <1>2, <1>a, WriteAdds
<1>b. d2 \in Seq(WrittenPieces)
  BY <1>5 DEF Grown
<1>6. e = write_from_raw_buffer(d2, Piece("footer", f))
  BY DEF d1
<1> HIDE DEF d2
<1>7. Grown(d2, "footer", f, e)
  BY <1>2, <1>b, <1>6, WriteAdds
<1>8. /\ \A W : Bytes(W, d) \in Nat
      /\ Bytes(Kept, e) = Bytes(Kept, d) + h + b + f
      /\ Bytes({"body"}, e) = Bytes({"body"}, d) + b
      /\ Bytes({"footer"}, e) = Bytes({"footer"}, d) + f
  <2>1. /\ "header" \in Kept /\ "body" \in Kept /\ "footer" \in Kept
        /\ "header" \notin {"body"} /\ "footer" \notin {"body"}
        /\ "header" \notin {"footer"} /\ "body" \notin {"footer"}
    BY DEF Kept
  <2>2. Bytes(Kept, d1) = Bytes(Kept, d) + h /\ Bytes(Kept, d2) = Bytes(Kept, d1) + b
        /\ Bytes(Kept, e) = Bytes(Kept, d2) + f /\ Bytes(Kept, d) \in Nat
    BY <1>4, <1>5, <1>7, <2>1 DEF Grown
  <2>3. Bytes({"body"}, d1) = Bytes({"body"}, d) + 0
        /\ Bytes({"body"}, d2) = Bytes({"body"}, d1) + b
        /\ Bytes({"body"}, e) = Bytes({"body"}, d2) + 0 /\ Bytes({"body"}, d) \in Nat
    BY <1>4, <1>5, <1>7, <2>1 DEF Grown
  <2>4. Bytes({"footer"}, d1) = Bytes({"footer"}, d) + 0
        /\ Bytes({"footer"}, d2) = Bytes({"footer"}, d1) + 0
        /\ Bytes({"footer"}, e) = Bytes({"footer"}, d2) + f /\ Bytes({"footer"}, d) \in Nat
    BY <1>4, <1>5, <1>7, <2>1 DEF Grown
  <2>5. QED
    BY <1>4, <2>2, <2>3, <2>4 DEF Grown
<1>9. /\ d # <<>> => d1 # <<>> /\ d1[1] = d[1]
      /\ d = <<>> /\ h > 0 => d1 # <<>> /\ d1[1].what = "header"
      /\ ~HasFooter(d) => ~HasFooter(d1)
  <2>1. CASE h = 0
    BY <1>4, <2>1 DEF Grown
  <2>2. CASE h > 0
    <3>1. /\ Piece("header", h) \in WrittenPieces /\ Piece("header", h).what = "header"
          /\ d1 = Append(d, Piece("header", h))
      BY <1>1, <1>3, <1>4, <2>2 DEF Grown
    <3>2. QED
      <4>1. Appended(d, Piece("header", h), d1)
        BY <3>1, AppendPiece
      <4>2. QED
        BY <4>1, <3>1 DEF Appended
  <2>3. QED
    BY <1>1, <2>1, <2>2
<1>10. /\ d1 # <<>> => d2 # <<>> /\ d2[1] = d1[1]
       /\ ~HasFooter(d1) => ~HasFooter(d2)
  <2>1. CASE b = 0
    BY <1>5, <2>1 DEF Grown
  <2>2. CASE b > 0
    <3>1. /\ Piece("body", b) \in WrittenPieces /\ Piece("body", b).what = "body"
          /\ d2 = Append(d1, Piece("body", b))
      BY <1>1, <1>3, <1>5, <2>2 DEF Grown
    <3>2. QED
      <4>1. Appended(d1, Piece("body", b), d2)
        BY <1>a, <3>1, AppendPiece
      <4>2. QED
        BY <4>1, <3>1 DEF Appended
  <2>3. QED
    BY <1>1, <2>1, <2>2
<1>11. /\ d2 # <<>> => e # <<>> /\ e[1] = d2[1]
       /\ f = 0 /\ ~HasFooter(d2) => ~HasFooter(e)
       /\ f > 0 => e # <<>> /\ e[Len(e)] = Piece("footer", f)
       /\ f > 0 /\ ~HasFooter(d2) => \A i \in DOMAIN e : e[i].what = "footer" => i = Len(e)
  <2>1. CASE f = 0
    BY <1>7, <2>1 DEF Grown
  <2>2. CASE f > 0
    <3>1. Piece("footer", f) \in WrittenPieces /\ e = Append(d2, Piece("footer", f))
      BY <1>1, <1>3, <1>7, <2>2 DEF Grown
    <3>2. QED
      <4>1. Appended(d2, Piece("footer", f), e)
        BY <1>b, <3>1, AppendPiece
      <4>2. f # 0
        BY <2>2
      <4>3. QED
        BY <4>1, <4>2 DEF Appended
  <2>3. QED
    BY <1>1, <2>1, <2>2
<1>12. e \in Seq(WrittenPieces)
  BY <1>7 DEF Grown
<1>13. QED
  BY <1>12, <1>8, <1>9, <1>10, <1>11 DEF AllWritten

\* What a call of z_stream_write_out does: o bytes come from zlib, h stay in
\* it, and f bytes of footer follow.
FromZlib(finish, o, h) ==
    /\ o \in Nat /\ h \in Nat /\ ctx.out_pos + o <= CHUNK
    /\ Compressing => /\ o + h = z.held + Len(ctx.avail_in)
                                 + (IF finish /\ ~z.finished THEN Trailer ELSE 0)
                      /\ finish /\ ctx.out_pos + o < CHUNK => h = 0
    /\ ~Compressing => /\ o + h = z.held + Ratio * DataIn(ctx.avail_in)
                       /\ ctx.out_pos + o < CHUNK => h = 0
FooterOf(finish, o) ==
    IF finish /\ ctx.f_gzip_footer /\ CHUNK - (ctx.out_pos + o) >= FOOTER THEN FOOTER ELSE 0
CtxAfter(finish, o) ==
    /\ ctx' \in Contexts
    /\ ctx'.f_gzip_footer = ctx.f_gzip_footer /\ ctx'.in_pos = ctx.in_pos
    /\ ctx'.in_total = ctx.in_total /\ ctx'.out_pos = 0 /\ ctx'.eof = ctx.eof
    /\ ctx'.out_total = ctx.out_total + o + FooterOf(finish, o) /\ ctx'.avail_in = <<>>
    /\ ctx'.avail_out = CHUNK - (ctx.out_pos + o)
    /\ ctx'.isize = IF FooterOf(finish, o) > 0 THEN ctx.in_total ELSE ctx.isize
    /\ ctx'.split = ctx.split
ZAfter(finish, h) ==
    /\ z' \in Streams /\ z'.open = z.open /\ z'.held = h
    /\ z'.given = z.given + Len(ctx.avail_in) /\ z'.finished = (z.finished \/ finish)
DestAfter(finish, o) == AllWritten(dest, ctx.out_pos, o, FooterOf(finish, o), dest')

LEMMA CtxFields ==
  ASSUME ctx \in Contexts
  PROVE  /\ ctx.f_gzip_footer \in BOOLEAN /\ ctx.buf \in [1..(CHUNK + HEADER) -> Cells]
         /\ ctx.in_pos \in Nat /\ ctx.in_total \in Int /\ ctx.out_pos \in 0..CHUNK
         /\ ctx.out_total \in Nat /\ ctx.avail_in \in Seq(Cells)
         /\ ctx.avail_out \in 0..CHUNK /\ ctx.out_len \in 0..CHUNK /\ ctx.eof \in BOOLEAN
         /\ ctx.isize \in Int /\ ctx.split \in BOOLEAN
BY DEF Contexts

LEMMA ZFields ==
  ASSUME z \in Streams
  PROVE  z.open \in BOOLEAN /\ z.held \in Nat /\ z.given \in Nat /\ z.finished \in BOOLEAN
BY DEF Streams

LEMMA LesserOf ==
  ASSUME NEW C \in Nat, NEW p \in 0..C, NEW all \in Nat
  PROVE  /\ Lesser(all, C - p) \in Nat /\ Lesser(all, C - p) <= all
         /\ p + Lesser(all, C - p) <= C
         /\ p + Lesser(all, C - p) < C => all - Lesser(all, C - p) = 0
BY DEF Lesser

LEMMA ZlibGives ==
  ASSUME Typed, NEW finish \in BOOLEAN,
         NEW r \in (IF Compressing THEN Deflated(CHUNK - ctx.out_pos, finish)
                                   ELSE Inflated(CHUNK - ctx.out_pos))
  PROVE  FromZlib(finish, r.out, r.held)
<1> DEFINE room == CHUNK - ctx.out_pos
<1>1. /\ CHUNK \in Nat /\ ctx.out_pos \in 0..CHUNK /\ ctx.avail_in \in Seq(Cells)
      /\ z.held \in Nat /\ Trailer \in Nat /\ Ratio \in Nat /\ Hold \in Nat
  BY Constants, CtxFields, ZFields DEF Typed
<1>2. room \in Nat /\ Len(ctx.avail_in) \in Nat
  BY <1>1
<1>3. CASE Compressing
  <2> DEFINE more == IF finish /\ ~z.finished THEN Trailer ELSE 0
             all == z.held + Len(ctx.avail_in) + more
             p == ctx.out_pos
             outs == IF finish THEN {Lesser(all, room)}
                     ELSE {n \in 0..Lesser(all, room) : all - n <= Hold \/ n = room}
  <2>a. more \in Nat
    BY <1>1
  <2> HIDE DEF more
  <2>1. all \in Nat
    <3>1. \A x, y, w \in Nat : x + y + w \in Nat
      OBVIOUS
    <3>2. QED
      BY <1>1, <1>2, <2>a, <3>1, Zenon
  <2>2. Deflated(room, finish) = {[out |-> n, held |-> all - n] : n \in outs}
    BY Zenon DEF Deflated, more
  <2>3. r \in Deflated(room, finish)
    BY <1>3
  <2>4. p \in 0..CHUNK /\ room = CHUNK - p
    BY <1>1
  <2> HIDE DEF all, p, room
  <2>5. /\ Lesser(all, room) \in Nat /\ Lesser(all, room) <= all
        /\ p + Lesser(all, room) <= CHUNK
        /\ p + Lesser(all, room) < CHUNK => all - Lesser(all, room) = 0
    BY <1>1, <2>1, <2>4, LesserOf
  <2>6. /\ outs \subseteq Nat
        /\ \A n \in outs : n <= Lesser(all, room) /\ (finish => n = Lesser(all, room))
    BY <2>5
  <2> HIDE DEF outs
  <2>7. PICK n \in outs : r = [out |-> n, held |-> all - n]
    BY <2>2, <2>3
  <2>8. r.out = n /\ r.held = all - n /\ n \in Nat /\ n <= Lesser(all, room)
    BY <2>6, <2>7
  <2>9. r.out \in Nat /\ r.held \in Nat /\ p + r.out <= CHUNK /\ r.out + r.held = all
    <3> DEFINE L == Lesser(all, room)
    <3>1. /\ L \in Nat /\ L <= all /\ p + L <= CHUNK /\ all \in Nat /\ CHUNK \in Nat
          /\ p \in 0..CHUNK /\ n \in Nat /\ n <= L
      BY <1>1, <2>1, <2>4, <2>5, <2>8
    <3> HIDE DEF L
    <3>2. n \in Nat /\ all - n \in Nat /\ p + n <= CHUNK /\ n + (all - n) = all
      BY <3>1
    <3>3. QED
      BY <2>8, <3>2, Zenon
  <2>10. finish /\ p + r.out < CHUNK => r.held = 0
    BY <2>5, <2>6, <2>8
  <2>11. QED
    BY <1>3, <2>9, <2>10 DEF FromZlib, all, p, more
<1>4. CASE ~Compressing
  <2> DEFINE D == DataIn(ctx.avail_in)
             all == z.held + Ratio * D
  <2>1. D \in Nat
    BY <1>1, DataInIs
  <2>2. Ratio * D \in Nat
    BY <1>1, <2>1
  <2>3. all \in Nat
    BY <1>1, <2>2
  <2>4. r = [out |-> Lesser(all, room), held |-> all - Lesser(all, room)]
    BY <1>4 DEF Inflated
  <2>5. r.out = Lesser(all, room) /\ r.held = all - Lesser(all, room)
    BY <2>4
  <2> DEFINE p == ctx.out_pos
  <2>a. p \in 0..CHUNK /\ room = CHUNK - p
    BY <1>1
  <2> HIDE DEF all, p, room
  <2>b. /\ Lesser(all, room) \in Nat /\ Lesser(all, room) <= all
        /\ p + Lesser(all, room) <= CHUNK
        /\ p + Lesser(all, room) < CHUNK => all - Lesser(all, room) = 0
    BY <1>1, <2>3, <2>a, LesserOf
  <2>6. /\ r.out \in Nat /\ r.held \in Nat /\ p + r.out <= CHUNK
        /\ r.out + r.held = all /\ (p + r.out < CHUNK => r.held = 0)
    BY <2>3, <2>5, <2>b
  <2>7. QED
    BY <1>4, <2>6 DEF FromZlib, all, p
<1>5. QED
  BY <1>3, <1>4

LEMMA FooterFits ==
  ASSUME NEW C \in Nat, NEW F \in Nat, NEW p \in 0..C, NEW o \in Nat, p + o <= C,
         NEW G, NEW f, f = (IF G /\ C - (p + o) >= F THEN F ELSE 0), NEW t \in Nat
  PROVE  /\ f \in 0..C /\ p + o + f \in 0..C /\ (p + o + f) - (p + o) = f /\ o \in 0..C
         /\ C - p - o = C - (p + o) /\ C - (p + o) \in 0..C
         /\ (IF p + o + f = 0 THEN t ELSE t + (p + o + f) - p) = t + o + f
         /\ t + o + f \in Nat
<1>1. CASE G /\ C - (p + o) >= F
  BY <1>1
<1>2. CASE ~(G /\ C - (p + o) >= F)
  BY <1>2
<1>3. QED
  BY <1>1, <1>2

LEMMA WriteOutEffect ==
  ASSUME Typed, NEW finish \in BOOLEAN, z_stream_write_out(finish)
  PROVE  \E o, h : /\ FromZlib(finish, o, h) /\ CtxAfter(finish, o)
                   /\ ZAfter(finish, h) /\ DestAfter(finish, o)
<1>1. PICK r \in (IF Compressing THEN Deflated(CHUNK - ctx.out_pos, finish)
                                 ELSE Inflated(CHUNK - ctx.out_pos)) : Written(r, finish)
  BY Zenon DEF z_stream_write_out
<1> DEFINE o == r.out
           h == r.held
           f == FooterOf(finish, o)
           len == ctx.out_pos + o
           whole == len + f
<1>2. FromZlib(finish, o, h)
  BY ZlibGives
<1>3. /\ o \in Nat /\ h \in Nat /\ ctx.out_pos + o <= CHUNK
  BY <1>2 DEF FromZlib
<1>4. /\ CHUNK \in Nat /\ FOOTER \in Nat /\ ctx \in Contexts /\ z \in Streams
      /\ dest \in Seq(WrittenPieces)
  BY Constants DEF Typed
<1>5. ctx.out_pos \in 0..CHUNK /\ ctx.out_total \in Nat /\ ctx.in_total \in Int
      /\ ctx.isize \in Int /\ ctx.avail_in \in Seq(Cells) /\ ctx.f_gzip_footer \in BOOLEAN
  BY <1>4, CtxFields
<1>6. /\ f \in 0..CHUNK /\ whole \in 0..CHUNK /\ whole - len = f /\ o \in 0..CHUNK
      /\ CHUNK - ctx.out_pos - o = CHUNK - (ctx.out_pos + o)
      /\ CHUNK - (ctx.out_pos + o) \in 0..CHUNK
      /\ (IF whole = 0 THEN ctx.out_total ELSE ctx.out_total + whole - ctx.out_pos)
            = ctx.out_total + o + f
      /\ ctx.out_total + o + f \in Nat
  <2> DEFINE p == ctx.out_pos
             t == ctx.out_total
             G == finish /\ ctx.f_gzip_footer
  <2>1. f = (IF G /\ CHUNK - (p + o) >= FOOTER THEN FOOTER ELSE 0)
    BY Zenon DEF FooterOf
  <2>2. p \in 0..CHUNK /\ t \in Nat /\ p + o <= CHUNK
    BY <1>3, <1>5
  <2> HIDE DEF p, t, G, f, o
  <2>3. /\ f \in 0..CHUNK /\ p + o + f \in 0..CHUNK /\ (p + o + f) - (p + o) = f
        /\ o \in 0..CHUNK
        /\ CHUNK - p - o = CHUNK - (p + o) /\ CHUNK - (p + o) \in 0..CHUNK
        /\ (IF p + o + f = 0 THEN t ELSE t + (p + o + f) - p) = t + o + f
        /\ t + o + f \in Nat
    BY <1>3, <1>4, <2>1, <2>2, FooterFits
  <2>4. QED
    BY <2>3 DEF p, t
<1>7. /\ dest' = write_from_raw_buffer(
                     write_from_raw_buffer(write_from_raw_buffer(dest, Piece("header", ctx.out_pos)),
                                           Piece("body", o)), Piece("footer", f))
      /\ ctx' = [ctx EXCEPT !.out_total = IF whole = 0 THEN @ ELSE @ + whole - ctx.out_pos,
                            !.out_pos = 0, !.out_len = whole, !.avail_in = <<>>,
                            !.avail_out = CHUNK - ctx.out_pos - o,
                            !.isize = IF f > 0 THEN ctx.in_total ELSE @]
      /\ z' = [z EXCEPT !.held = h, !.given = @ + Len(ctx.avail_in),
                        !.finished = @ \/ finish]
  <2> DEFINE footer == finish /\ ctx.f_gzip_footer /\ CHUNK - len >= FOOTER
  <2>1. f = (IF footer THEN FOOTER ELSE 0) /\ (footer <=> f > 0)
    BY <1>4, Constants DEF FooterOf
  <2>2. /\ dest' = write_from_raw_buffer(
                     write_from_raw_buffer(write_from_raw_buffer(dest, Piece("header", ctx.out_pos)),
                                           Piece("body", o)),
                     Piece("footer", (len + (IF footer THEN FOOTER ELSE 0)) - len))
        /\ ctx' = [ctx EXCEPT
                      !.out_total = IF len + (IF footer THEN FOOTER ELSE 0) = 0 THEN @
                                    ELSE @ + (len + (IF footer THEN FOOTER ELSE 0)) - ctx.out_pos,
                      !.out_pos = 0, !.out_len = len + (IF footer THEN FOOTER ELSE 0),
                      !.avail_in = <<>>,
                      !.avail_out = CHUNK - ctx.out_pos - o,
                      !.isize = IF footer THEN ctx.in_total ELSE @]
        /\ z' = [z EXCEPT !.held = h, !.given = @ + Len(ctx.avail_in),
                          !.finished = @ \/ finish]
    BY <1>1, Zenon DEF Written
  <2> HIDE DEF f, footer
  <2>3. QED
    BY <2>1, <2>2, <1>6
<1>8. DestAfter(finish, o)
  <2> DEFINE hd == ctx.out_pos
  <2>1. dest' = write_from_raw_buffer(
                   write_from_raw_buffer(write_from_raw_buffer(dest, Piece("header", hd)),
                                         Piece("body", o)), Piece("footer", f))
    BY <1>7
  <2>2. hd \in 0..CHUNK /\ f \in 0..CHUNK /\ o \in 0..CHUNK
    BY <1>5, <1>6
  <2> HIDE DEF hd, f, o
  <2>3. AllWritten(dest, hd, o, f, dest')
    BY <1>4, <2>1, <2>2, WholeWrite
  <2>4. QED
    BY <2>3 DEF DestAfter, hd, f
<1>9. CtxAfter(finish, o)
  <2>3. <<>> \in Seq(Cells) /\ 0 \in 0..CHUNK
    BY <1>4
  <2> HIDE DEF f, o
  <2>4. ctx' = [ctx EXCEPT !.out_total = ctx.out_total + o + f,
                            !.out_pos = 0, !.out_len = whole, !.avail_in = <<>>,
                            !.avail_out = CHUNK - (ctx.out_pos + o),
                            !.isize = IF f > 0 THEN ctx.in_total ELSE ctx.isize]
    BY <1>7, <1>6
  <2> HIDE DEF whole
  <2>5. /\ ctx' \in Contexts
        /\ ctx'.f_gzip_footer = ctx.f_gzip_footer /\ ctx'.in_pos = ctx.in_pos
        /\ ctx'.in_total = ctx.in_total /\ ctx'.out_pos = 0 /\ ctx'.eof = ctx.eof
        /\ ctx'.out_total = ctx.out_total + o + f /\ ctx'.avail_in = <<>>
        /\ ctx'.avail_out = CHUNK - (ctx.out_pos + o)
        /\ ctx'.isize = IF f > 0 THEN ctx.in_total ELSE ctx.isize
        /\ ctx'.split = ctx.split
    BY <1>4, <1>5, <1>6, <2>3, <2>4 DEF Contexts
  <2>6. QED
    BY <2>5 DEF CtxAfter, f
<1>10. ZAfter(finish, h)
  <2>1. Len(ctx.avail_in) \in Nat
    BY <1>5
  <2> DEFINE g == z.given + Len(ctx.avail_in)
             e == z.finished \/ finish
  <2>2. g \in Nat /\ e \in BOOLEAN /\ h \in Nat
    BY <1>3, <1>4, <2>1 DEF Streams
  <2>3. z' = [z EXCEPT !.held = h, !.given = g, !.finished = e]
    BY <1>7
  <2> HIDE DEF h, g, e
  <2>4. /\ z' \in Streams /\ z'.open = z.open /\ z'.held = h
        /\ z'.given = g /\ z'.finished = e
    BY <1>4, <2>2, <2>3 DEF Streams
  <2>5. QED
    BY <2>4 DEF ZAfter, g, e
<1>11. QED
  BY <1>2, <1>8, <1>9, <1>10, Zenon

----------------------------------------------------------------------------
(* The invariant holds initially *)

LEMMA SetupOf ==
  ASSUME NEW o \in Ops, NEW s \in 0..2, NEW c, c = setup_ctx(o, s)
  PROVE  /\ c \in Contexts /\ c.f_gzip_footer = (o = "gzip") /\ c.in_pos = 0
         /\ c.in_total = 0 /\ c.out_pos = c.out_total /\ c.avail_in = <<>>
         /\ ~c.split /\ (o = "gzip" => c.out_pos > 0)
         /\ o # "gzip" => c.out_pos = 0
<1> DEFINE head == IF o = "gzip" THEN gzip_prepare_header(s) ELSE 0
           buf == Copies("none", CHUNK + HEADER)
<1>1. head \in 0..CHUNK /\ head \in Nat /\ (o = "gzip" => head > 0) /\ (o # "gzip" => head = 0)
  BY Constants DEF gzip_prepare_header
<1>2. buf \in [1..(CHUNK + HEADER) -> Cells]
  BY Constants DEF Copies, Cells, ByteKinds
<1>3. c = [f_gzip_footer |-> o = "gzip", buf |-> buf, in_pos |-> 0,
           in_total |-> 0, out_pos |-> head, out_total |-> head,
           avail_in |-> <<>>, avail_out |-> 0, out_len |-> 0, eof |-> FALSE, isize |-> 0,
           split |-> FALSE]
  BY Zenon DEF setup_ctx
<1>4. (o = "gzip") \in BOOLEAN /\ 0 \in 0..CHUNK /\ <<>> \in Seq(Cells) /\ FALSE \in BOOLEAN
  BY Constants
<1> HIDE DEF head, buf
<1>5. QED
  BY <1>1, <1>2, <1>3, <1>4 DEF Contexts

LEMMA InitInv == Init => ExtInv
<1> SUFFICES ASSUME Init PROVE ExtInv
  OBVIOUS
<1>1. op \in Ops
  BY DEF Init, Ops
<1>2. PICK k \in Kinds, data \in Contents(op) :
          /\ op = "chunked" => k = "stream"
          /\ src = [kind |-> k, data |-> data, read |-> 0]
  BY DEF Init
<1>3. PICK s \in 0..2 : ctx = setup_ctx(op, s)
  <2>1. PICK s \in 0..2 : ctx = setup_ctx(op, IF op = "gzip" THEN s ELSE 0)
    BY DEF Init
  <2>2. (IF op = "gzip" THEN s ELSE 0) \in 0..2
    OBVIOUS
  <2>3. QED
    BY <2>1, <2>2
<1>4. /\ z = [open |-> op # "gunzip" /\ op # "chunked", held |-> 0, given |-> 0, finished |-> FALSE]
      /\ dest = <<>>
      /\ pc = IF op = "gunzip" THEN "header" ELSE IF op = "chunked" THEN "in" ELSE "read"
  BY DEF Init
<1>5. /\ ctx \in Contexts /\ ctx.f_gzip_footer = (op = "gzip") /\ ctx.in_pos = 0
      /\ ctx.in_total = 0 /\ ctx.out_pos = ctx.out_total /\ ctx.avail_in = <<>>
      /\ ~ctx.split /\ (op = "gzip" => ctx.out_pos > 0)
      /\ op # "gzip" => ctx.out_pos = 0
  BY <1>1, <1>3, SetupOf
<1>6. data \in Seq(Cells)
  BY <1>1, ContentsOf
<1>7. /\ src \in Sources /\ src.data \in Contents(op) /\ src.read = 0 /\ src.kind \in Kinds
      /\ op = "chunked" => src.kind = "stream"
      /\ src.data \in Seq(Cells) /\ Len(src.data) \in Nat
  BY <1>2, <1>6 DEF Sources
<1>8. /\ z \in Streams /\ z.open = (op # "gunzip" /\ op # "chunked") /\ z.held = 0
      /\ z.given = 0 /\ z.finished = FALSE
  BY <1>4 DEF Streams
<1>9. /\ \A W : Bytes(W, dest) = 0
      /\ ReadChunks(dest) = -1 /\ DOMAIN dest = {} /\ dest \in Seq(WrittenPieces)
  BY <1>4, BytesEmpty, ReadEmpty
<1>10. Typed
  BY <1>1, <1>4, <1>5, <1>7, <1>8, <1>9 DEF Typed, Places, Looping, Ops
<1>11. Staged
  BY <1>1, <1>4, <1>5, <1>8 DEF Staged, Ended, Ops
<1>12. Totalled
  <2>1. Bytes(Kept, dest) = 0 /\ ctx.out_total \in Nat
    BY <1>5, <1>9 DEF Contexts
  <2>2. QED
    BY <2>1, <1>4, <1>5 DEF Totalled
<1>13. ReadToEnd
  BY <1>4, <1>7 DEF ReadToEnd
<1>14. DeflateAccounts
  <2>1. Bytes({"body"}, dest) = 0 /\ Len(ctx.avail_in) = 0
    BY <1>5, <1>9
  <2>2. QED
    BY <1>4, <1>5, <1>7, <1>8, <2>1 DEF DeflateAccounts, Compressing
<1>15. FooterLast
  BY <1>4, <1>9 DEF FooterLast, NoFooter
<1>16. InflateAccounts
  <2>1. Bytes(Kept, dest) = 0 /\ Len(ctx.avail_in) = 0
    BY <1>5, <1>9
  <2>2. DataIn(ctx.avail_in) = 0 /\ DataUpTo(src.data, 0) = 0 /\ src.read = 0
    <3>1. <<>> \in Seq(Cells)
      OBVIOUS
    <3>2. DataIn(<<>>) = 0
      BY <3>1, DataInIs
    <3>3. DataUpTo(src.data, 0) = 0
      BY DataAfter
    <3>4. QED
      BY <1>5, <1>7, <3>2, <3>3
  <2>3. QED
    BY <1>4, <1>5, <1>7, <1>8, <2>1, <2>2, Constants DEF InflateAccounts, Looping, Passed
<1>17. HeaderRead
  BY <1>4, <1>5, <1>7, Constants DEF HeaderRead, Looping
<1>18. ChunksRead
  <2>1. Bytes({"body"}, dest) = 0
    BY <1>9
  <2>2. QED
    BY <1>4, <1>5, <1>7, <1>9, <2>1 DEF ChunksRead
<1>19. QED
  BY <1>10, <1>11, <1>12, <1>13, <1>14, <1>15, <1>16, <1>17, <1>18 DEF ExtInv

----------------------------------------------------------------------------
(* Every step preserves it *)

LEMMA StutterKeeps ==
  ASSUME ExtInv, UNCHANGED vars
  PROVE  ExtInv'
BY DEF vars, ExtInv, Typed, Staged, Totalled, ReadToEnd, DeflateAccounts, FooterLast,
       InflateAccounts, HeaderRead, ChunksRead, Compressing, NoFooter, Sealed, Ended,
       HeaderEndsAt, CutString, Passed

LEMMA LeaveEffect ==
  ASSUME Typed, NEW how \in Places, Leave(how), UNCHANGED <<op, src, ctx, dest>>
  PROVE  /\ Typed' /\ pc' = how /\ ~z'.open /\ z'.held = z.held /\ z'.given = z.given
         /\ z'.finished = z.finished /\ op' = op /\ src' = src /\ ctx' = ctx /\ dest' = dest
<1>1. pc' = how /\ z' = [z EXCEPT !.open = FALSE] /\ z \in Streams
  BY DEF Leave, Typed
<1>2. /\ z' \in Streams /\ ~z'.open /\ z'.held = z.held /\ z'.given = z.given
      /\ z'.finished = z.finished
  BY <1>1 DEF Streams
<1>3. QED
  BY <1>1, <1>2 DEF Typed, CutString

LEMMA RaiseKeeps ==
  ASSUME ExtInv, Leave("raised"), UNCHANGED <<op, src, ctx, dest>>,
         pc \in {"header", "read", "drain", "write", "flush", "in", "size", "out"}
  PROVE  ExtInv'
<1>1. Typed /\ "raised" \in Places
  BY DEF ExtInv, Places
<1>2. /\ Typed' /\ pc' = "raised" /\ ~z'.open /\ z'.held = z.held /\ z'.given = z.given
      /\ z'.finished = z.finished /\ op' = op /\ src' = src /\ ctx' = ctx /\ dest' = dest
  BY <1>1, LeaveEffect
<1>3. Staged'
  BY <1>2 DEF ExtInv, Staged, Ended
<1>4. Totalled'
  BY <1>2 DEF ExtInv, Totalled
<1>5. ReadToEnd'
  BY <1>2 DEF ExtInv, ReadToEnd
<1>6. DeflateAccounts'
  BY <1>2 DEF ExtInv, DeflateAccounts, Compressing
<1>7. FooterLast'
  BY <1>2 DEF ExtInv, FooterLast, NoFooter
<1>8. InflateAccounts'
  BY <1>2 DEF ExtInv, InflateAccounts, Looping
<1>9. HeaderRead'
  BY <1>2 DEF ExtInv, HeaderRead, Looping
<1>10. ChunksRead'
  BY <1>2 DEF ExtInv, ChunksRead
<1>11. QED
  BY <1>2, <1>3, <1>4, <1>5, <1>6, <1>7, <1>8, <1>9, <1>10 DEF ExtInv

LEMMA CleanupKeeps ==
  ASSUME ExtInv, Cleanup
  PROVE  ExtInv'
<1>1. Typed /\ "done" \in Places /\ pc = "cleanup"
  BY DEF ExtInv, Places, Looping, Cleanup
<1>2. /\ Typed' /\ pc' = "done" /\ ~z'.open /\ z'.held = z.held /\ z'.given = z.given
      /\ z'.finished = z.finished /\ op' = op /\ src' = src /\ ctx' = ctx /\ dest' = dest
  BY <1>1, LeaveEffect DEF Cleanup
<1>3. Staged'
  BY <1>1, <1>2 DEF ExtInv, Staged, Ended
<1>4. Totalled'
  BY <1>1, <1>2 DEF ExtInv, Totalled
<1>5. ReadToEnd'
  BY <1>1, <1>2 DEF ExtInv, ReadToEnd
<1>6. DeflateAccounts'
  BY <1>1, <1>2 DEF ExtInv, DeflateAccounts, Compressing
<1>7. FooterLast'
  BY <1>1, <1>2 DEF ExtInv, FooterLast, NoFooter, Sealed
<1>8. InflateAccounts'
  BY <1>1, <1>2 DEF ExtInv, InflateAccounts, Looping, CutString, Passed
<1>9. HeaderRead'
  BY <1>1, <1>2 DEF ExtInv, HeaderRead, Looping, HeaderEndsAt, CutString
<1>10. ChunksRead'
  BY <1>1, <1>2 DEF ExtInv, ChunksRead, Staged
<1>11. QED
  BY <1>2, <1>3, <1>4, <1>5, <1>6, <1>7, <1>8, <1>9, <1>10 DEF ExtInv

\* What does not concern a call that splices.
LEMMA SplicesKeep ==
  ASSUME ExtInv, op = "chunked", op' = op, src'.kind = src.kind, z' = z,
         ctx'.f_gzip_footer = ctx.f_gzip_footer, ctx'.avail_in = ctx.avail_in,
         pc \in {"in", "size", "out"}, pc' \in {"in", "size", "out", "done"}, Typed', ChunksRead'
  PROVE  ExtInv'
<1>1. Staged'
  BY DEF ExtInv, Staged, Ended
<1>2. Totalled' /\ FooterLast' /\ HeaderRead'
  BY DEF Totalled, FooterLast, HeaderRead
<1>3. DeflateAccounts' /\ InflateAccounts'
  BY DEF DeflateAccounts, InflateAccounts, Compressing
<1>4. ReadToEnd'
  BY DEF ExtInv, ReadToEnd, ChunksRead
<1>5. QED
  BY <1>1, <1>2, <1>3, <1>4 DEF ExtInv

LEMMA SpliceInKeeps ==
  ASSUME ExtInv, SpliceIn
  PROVE  ExtInv'
<1>1. /\ Typed /\ pc = "in" /\ op = "chunked" /\ op' = op /\ dest' = dest /\ z' = z
      /\ pc' = "size"
  BY DEF ExtInv, Staged, SpliceIn
<1>2. PICK n \in ReadLengths : /\ src' = [src EXCEPT !.read = @ + n]
                               /\ ctx' = [ctx EXCEPT !.in_total = n]
  BY DEF SpliceIn
<1>3. /\ n \in 0..CHUNK /\ src.read + n <= Len(src.data)
      /\ n = 0 => src.read = Len(src.data)
  BY <1>1, ReadsOf
<1>4. CHUNK \in Nat /\ n \in Nat /\ n \in Int /\ src.read \in Nat /\ src \in Sources /\ ctx \in Contexts
  BY <1>1, <1>3, Constants DEF Typed, Sources
<1>5. /\ src' \in Sources /\ src'.data = src.data /\ src'.read = src.read + n
      /\ src'.kind = src.kind
  BY <1>2, <1>4 DEF Sources
<1>6. /\ ctx' \in Contexts /\ ctx'.in_total = n /\ ctx'.out_pos = ctx.out_pos
      /\ ctx'.f_gzip_footer = ctx.f_gzip_footer /\ ctx'.avail_in = ctx.avail_in
      /\ ctx'.in_pos = ctx.in_pos
  BY <1>2, <1>4 DEF Contexts
<1>7. Typed'
  BY <1>1, <1>3, <1>5, <1>6 DEF Typed, Places, CutString
<1>8. ChunksRead'
  <2>1. /\ src.kind = "stream" /\ ctx.in_pos = 0 /\ ReadChunks(dest) # -3
        /\ ctx.out_pos \in {0, 1} /\ ReadChunks(dest) = ctx.out_pos - 1
        /\ Bytes({"body"}, dest) + 0 = src.read
    BY <1>1 DEF ExtInv, ChunksRead
  <2>2. Bytes({"body"}, dest) \in Nat
    <3>1. dest \in Seq(WrittenPieces) /\ "body" \in PieceKinds /\ 0 \in 0..CHUNK
      BY <1>1, <1>4 DEF Typed, PieceKinds
    <3>2. QED
      BY <3>1, WriteAdds DEF Grown
  <2>3. Bytes({"body"}, dest) + n = src.read + n
    BY <1>4, <2>1, <2>2
  <2>4. n = 0 => src.read + n = Len(src.data)
    BY <1>3, <1>4
  <2>5. QED
    BY <1>1, <1>3, <1>4, <1>5, <1>6, <2>1, <2>3, <2>4 DEF ChunksRead
<1>9. QED
  BY <1>1, <1>5, <1>6, <1>7, <1>8, SplicesKeep

LEMMA WriteSizeKeeps ==
  ASSUME ExtInv, WriteSize
  PROVE  ExtInv'
<1> DEFINE t == ctx.in_total
           p == ctx.out_pos
           d1 == write_from_raw_buffer(dest, Piece("crlf", p))
           what == IF t = 0 THEN "last" ELSE "size"
           n == IF t = 0 THEN 1 ELSE t
<1>1. /\ Typed /\ pc = "size" /\ op = "chunked" /\ op' = op /\ src' = src /\ z' = z
      /\ ctx' = [ctx EXCEPT !.out_pos = 0] /\ pc' = IF t = 0 THEN "done" ELSE "out"
  BY DEF ExtInv, Staged, WriteSize
<1>2. dest' = write_from_raw_buffer(d1, Piece(what, n))
  BY DEF WriteSize, EndOfChunk
<1>3. CHUNK \in Nat /\ CHUNK >= 1 /\ dest \in Seq(WrittenPieces) /\ ctx \in Contexts
  <2>1. CHUNK \in Nat /\ CHUNK >= 1
    BY Constants
  <2>2. QED
    BY <1>1, <2>1 DEF Typed
<1>4. /\ src.kind = "stream" /\ ctx.in_pos = 0 /\ p \in {0, 1} /\ ReadChunks(dest) = p - 1
      /\ t \in Nat /\ t <= CHUNK /\ (t = 0 => src.read = Len(src.data))
      /\ Bytes({"body"}, dest) + t = src.read
  BY <1>1 DEF ExtInv, ChunksRead, Typed, Contexts
<1>5. "crlf" \in PieceKinds /\ what \in PieceKinds /\ p \in 0..CHUNK /\ n \in 0..CHUNK /\ n > 0
  BY <1>3, <1>4 DEF PieceKinds
<1>6. /\ ctx' \in Contexts /\ ctx'.in_total = t /\ ctx'.out_pos = 0
      /\ ctx'.f_gzip_footer = ctx.f_gzip_footer /\ ctx'.avail_in = ctx.avail_in
      /\ ctx'.in_pos = ctx.in_pos
  <2>1. 0 \in 0..CHUNK
    BY <1>3
  <2>2. QED
    BY <1>1, <1>3, <2>1 DEF Contexts
<1> HIDE DEF t, p, d1, n, what
<1>7. Grown(dest, "crlf", p, d1)
  BY <1>3, <1>5, WriteAdds DEF d1
<1>8. d1 \in Seq(WrittenPieces) /\ Bytes({"body"}, dest) \in Nat
      /\ Bytes({"body"}, d1) = Bytes({"body"}, dest)
  <2>1. "crlf" \notin {"body"}
    OBVIOUS
  <2>2. Bytes({"body"}, dest) \in Nat /\ Bytes({"body"}, d1) = Bytes({"body"}, dest) + 0
    BY <1>7, <2>1 DEF Grown
  <2>3. QED
    BY <1>7, <2>2 DEF Grown
<1>9. Grown(d1, what, n, dest')
  BY <1>2, <1>5, <1>8, WriteAdds
<1>10. dest' \in Seq(WrittenPieces) /\ Bytes({"body"}, dest') = Bytes({"body"}, dest)
  <2>1. what \notin {"body"}
    BY DEF what
  <2>2. Bytes({"body"}, dest') = Bytes({"body"}, d1) + 0
    BY <1>9, <2>1 DEF Grown
  <2>3. QED
    BY <1>8, <1>9, <2>2 DEF Grown
<1>11. ReadChunks(d1) = -1
  <2>1. CASE p = 0
    BY <1>4, <1>7, <2>1 DEF Grown
  <2>2. CASE p = 1
    <3>1. ReadChunks(dest) = 0
      BY <1>4, <2>2
    <3>2. ReadChunks(d1) = ReadPiece(0, Piece("crlf", 1))
      BY <1>7, <2>2, <3>1 DEF Grown
    <3>3. QED
      BY <3>2 DEF ReadPiece, Piece
  <2>3. QED
    BY <1>4, <2>1, <2>2
<1>12. ReadChunks(dest') = IF t = 0 THEN -2 ELSE t
  <2>1. ReadChunks(dest') = ReadPiece(-1, Piece(what, n))
    BY <1>5, <1>9, <1>11 DEF Grown
  <2>2. CASE t = 0
    BY <2>1, <2>2 DEF ReadPiece, Piece, what, n
  <2>3. CASE t # 0
    BY <2>1, <2>3 DEF ReadPiece, Piece, what, n
  <2>4. QED
    BY <2>2, <2>3
<1>13. Typed'
  BY <1>1, <1>6, <1>10 DEF Typed, Places, Looping, CutString
<1>14. ChunksRead'
  BY <1>1, <1>4, <1>6, <1>8, <1>10, <1>12 DEF ChunksRead
<1>15. pc' \in {"in", "size", "out", "done"}
  BY <1>1
<1>16. QED
  BY <1>1, <1>6, <1>13, <1>14, <1>15, SplicesKeep

LEMMA SpliceOutKeeps ==
  ASSUME ExtInv, SpliceOut
  PROVE  ExtInv'
<1> DEFINE t == ctx.in_total
<1>1. /\ Typed /\ pc = "out" /\ op = "chunked" /\ op' = op /\ src' = src /\ z' = z
  BY DEF ExtInv, Staged, SpliceOut
<1>2. PICK n \in 1..t :
          /\ dest' = write_from_raw_buffer(dest, Piece("body", n))
          /\ ctx' = [ctx EXCEPT !.in_total = t - n, !.out_pos = IF n = t THEN 1 ELSE 0]
          /\ pc' = IF n = t THEN "in" ELSE "out"
  BY Zenon DEF SpliceOut
<1>3. CHUNK \in Nat /\ CHUNK >= 1 /\ dest \in Seq(WrittenPieces) /\ ctx \in Contexts
  <2>1. CHUNK \in Nat /\ CHUNK >= 1
    BY Constants
  <2>2. QED
    BY <1>1, <2>1 DEF Typed
<1>4. /\ src.kind = "stream" /\ ctx.in_pos = 0 /\ t \in Nat /\ t <= CHUNK /\ ReadChunks(dest) = t
      /\ Bytes({"body"}, dest) + t = src.read
  BY <1>1 DEF ExtInv, ChunksRead, Typed, Contexts
<1>5. n \in 0..CHUNK /\ n > 0 /\ "body" \in PieceKinds /\ t - n \in Nat /\ t - n \in Int /\ n <= t
  BY <1>3, <1>4 DEF PieceKinds
<1>6. /\ ctx' \in Contexts /\ ctx'.in_total = t - n /\ ctx'.out_pos = (IF n = t THEN 1 ELSE 0)
      /\ ctx'.f_gzip_footer = ctx.f_gzip_footer /\ ctx'.avail_in = ctx.avail_in
      /\ ctx'.in_pos = ctx.in_pos
  <2>1. (IF n = t THEN 1 ELSE 0) \in 0..CHUNK
    BY <1>3
  <2>2. QED
    BY <1>2, <1>3, <1>5, <2>1 DEF Contexts
<1> HIDE DEF t
<1>7. Grown(dest, "body", n, dest')
  BY <1>2, <1>3, <1>5, WriteAdds
<1>8. /\ dest' \in Seq(WrittenPieces) /\ Bytes({"body"}, dest) \in Nat
      /\ Bytes({"body"}, dest') = Bytes({"body"}, dest) + n
  <2>1. "body" \in {"body"}
    OBVIOUS
  <2>2. QED
    BY <1>7, <2>1 DEF Grown
<1>9. ReadChunks(dest') = t - n
  <2>1. ReadChunks(dest') = ReadPiece(t, Piece("body", n))
    BY <1>4, <1>5, <1>7 DEF Grown
  <2>2. QED
    BY <1>5, <2>1 DEF ReadPiece, Piece
<1>10. Typed'
  BY <1>1, <1>2, <1>6, <1>8 DEF Typed, Places, Looping, CutString
<1>11. ChunksRead'
  <2>1. CASE n = t
    BY <1>1, <1>2, <1>4, <1>5, <1>6, <1>8, <1>9, <2>1 DEF ChunksRead
  <2>2. CASE n # t
    <3>1. t - n > 0 /\ t - n <= CHUNK
      BY <1>3, <1>4, <1>5, <2>2
    <3>2. Bytes({"body"}, dest') + (t - n) = src.read
      BY <1>4, <1>5, <1>8
    <3>3. QED
      BY <1>1, <1>2, <1>4, <1>5, <1>6, <1>9, <2>2, <3>1, <3>2 DEF ChunksRead
  <2>3. QED
    BY <2>1, <2>2
<1>12. pc' \in {"in", "size", "out", "done"}
  BY <1>2
<1>13. QED
  BY <1>1, <1>6, <1>10, <1>11, <1>12, SplicesKeep

\* Whether zlib is told to finish, and where the call is afterwards.
Emits(finish) ==
    /\ pc \in {"drain", "write", "flush"} /\ op' = op /\ src' = src
    /\ finish \in BOOLEAN /\ (finish <=> (pc = "write" /\ ctx.eof) \/ pc = "flush")
    /\ pc' \in {"drain", "read", "write", "cleanup"}
    /\ pc' \in {"drain", "write"} => pc' = pc /\ ctx'.avail_out = 0
    /\ pc' = "cleanup" => finish /\ (pc = "flush" \/ ctx'.avail_out # 0)
    /\ pc' = "read" => ~finish /\ ctx'.avail_out # 0
    /\ finish /\ ctx'.avail_out # 0 => pc' = "cleanup"
    /\ z_stream_write_out(finish)

LEMMA WriteOutEmits ==
  ASSUME Typed, WriteOut
  PROVE  Emits(pc = "write" /\ ctx.eof)
<1>1. ctx.eof \in BOOLEAN
  BY CtxFields DEF Typed
<1>2. /\ pc \in {"drain", "write"} /\ op' = op /\ src' = src
      /\ z_stream_write_out(pc = "write" /\ ctx.eof)
      /\ pc' = IF ctx'.avail_out = 0 THEN pc
               ELSE IF pc = "write" /\ ctx.eof THEN "cleanup" ELSE "read"
  BY DEF WriteOut
<1>3. QED
  BY <1>1, <1>2 DEF Emits

LEMMA FlushEmits ==
  ASSUME Flush
  PROVE  Emits(TRUE)
<1>1. pc = "flush" /\ pc' = "cleanup" /\ op' = op /\ src' = src /\ z_stream_write_out(TRUE)
  BY Zenon DEF Flush
<1>2. \A t \in BOOLEAN : t = TRUE => z_stream_write_out(t)
  BY <1>1, Zenon
<1>3. \A t \in BOOLEAN : t = TRUE => Emits(t)
  BY <1>1, <1>2, Zenon DEF Emits
<1>4. QED
  BY <1>3, Zenon

LEMMA EmitKeeps ==
  ASSUME ExtInv, NEW finish \in BOOLEAN, Emits(finish)
  PROVE  ExtInv'
<1>1. Typed /\ z_stream_write_out(finish)
  BY DEF ExtInv, Emits
<1>2. PICK o, h : /\ FromZlib(finish, o, h) /\ CtxAfter(finish, o)
                  /\ ZAfter(finish, h) /\ DestAfter(finish, o)
  BY <1>1, WriteOutEffect
<1> DEFINE f == FooterOf(finish, o)
           p == ctx.out_pos
<1>3. /\ o \in Nat /\ h \in Nat /\ p \in 0..CHUNK /\ p + o <= CHUNK /\ CHUNK \in Nat
      /\ FOOTER \in Nat /\ FOOTER > 0 /\ (f = 0 \/ f = FOOTER) /\ f \in Nat
  <2>1. ctx.out_pos \in 0..CHUNK
    BY <1>1, CtxFields DEF Typed
  <2>2. QED
    BY <1>2, <2>1, Constants DEF FromZlib, FooterOf
<1>4. /\ z.held \in Nat /\ z.given \in Nat /\ z.finished \in BOOLEAN
      /\ ctx.avail_in \in Seq(Cells) /\ Len(ctx.avail_in) \in Nat
      /\ ctx.eof \in BOOLEAN /\ ctx.out_total \in Nat /\ ctx.in_total \in Int
  BY <1>1, CtxFields, ZFields DEF Typed
<1>5. pc \in {"drain", "write", "flush"} /\ op # "chunked"
  BY DEF Emits, ExtInv, Staged
<1>6. /\ ctx' \in Contexts /\ ctx'.f_gzip_footer = ctx.f_gzip_footer /\ ctx'.in_pos = ctx.in_pos
      /\ ctx'.in_total = ctx.in_total /\ ctx'.out_pos = 0 /\ ctx'.eof = ctx.eof
      /\ ctx'.out_total = ctx.out_total + o + f /\ ctx'.avail_in = <<>>
      /\ ctx'.avail_out = CHUNK - (p + o)
      /\ ctx'.isize = IF f > 0 THEN ctx.in_total ELSE ctx.isize
      /\ ctx'.split = ctx.split
  BY <1>2 DEF CtxAfter
<1>7. /\ z' \in Streams /\ z'.open = z.open /\ z'.held = h
      /\ z'.given = z.given + Len(ctx.avail_in) /\ z'.finished = (z.finished \/ finish)
  BY <1>2 DEF ZAfter
<1>8. AllWritten(dest, p, o, f, dest')
  BY <1>2 DEF DestAfter
<1>9. /\ op' = op /\ src' = src
      /\ (finish <=> (pc = "write" /\ ctx.eof) \/ pc = "flush")
      /\ pc' \in {"drain", "read", "write", "cleanup"}
      /\ pc' \in {"drain", "write"} => pc' = pc /\ ctx'.avail_out = 0
      /\ pc' = "cleanup" => finish /\ (pc = "flush" \/ ctx'.avail_out # 0)
      /\ pc' = "read" => ~finish /\ ctx'.avail_out # 0
      /\ finish /\ ctx'.avail_out # 0 => pc' = "cleanup"
  BY DEF Emits
<1>10. ctx'.avail_out \in Nat /\ (ctx'.avail_out # 0 <=> p + o < CHUNK)
       /\ f = IF finish /\ op = "gzip" /\ ctx'.avail_out >= FOOTER THEN FOOTER ELSE 0
  <2>1. ctx.f_gzip_footer <=> op = "gzip"
    BY DEF ExtInv, Staged
  <2>2. f = IF finish /\ op = "gzip" /\ ctx'.avail_out >= FOOTER THEN FOOTER ELSE 0
    BY <1>6, <2>1 DEF FooterOf
  <2> HIDE DEF f, p
  <2>3. QED
    BY <1>3, <1>6, <2>2
<1> HIDE DEF f, p
<1>11. Typed'
  BY <1>1, <1>6, <1>7, <1>8, <1>9 DEF Typed, AllWritten, Places, Looping, CutString
<1>12. Staged'
  BY <1>5, <1>6, <1>7, <1>9 DEF ExtInv, Staged, Ended
<1>13. Totalled'
  <2>1. /\ ctx.out_total = Bytes(Kept, dest) + p
        /\ (op = "gzip" => (p > 0 <=> dest = <<>>))
        /\ (op = "gzip" /\ dest # <<>> => dest[1].what = "header")
    BY <1>5 DEF ExtInv, Totalled, p
  <2>2. /\ Bytes(Kept, dest) \in Nat /\ Bytes(Kept, dest') = Bytes(Kept, dest) + p + o + f
        /\ dest # <<>> => dest' # <<>> /\ dest'[1] = dest[1]
        /\ dest = <<>> /\ p > 0 => dest' # <<>> /\ dest'[1].what = "header"
    BY <1>8 DEF AllWritten
  <2>3. ctx'.out_total = Bytes(Kept, dest')
    BY <1>3, <1>6, <2>1, <2>2
  <2>4. op = "gzip" => dest' # <<>> /\ dest'[1].what = "header"
    BY <2>1, <2>2
  <2>5. Bytes(Kept, dest') = Bytes(Kept, dest') + 0
    BY <1>3, <2>2
  <2>6. QED
    BY <1>6, <1>9, <2>3, <2>4, <2>5 DEF Totalled
<1>14. ReadToEnd'
  BY <1>5, <1>6, <1>9 DEF ExtInv, ReadToEnd
<1>15. DeflateAccounts'
  <2> SUFFICES ASSUME Compressing PROVE DeflateAccounts'
    BY <1>9 DEF DeflateAccounts, Compressing
  <2> DEFINE T == IF z.finished THEN Trailer ELSE 0
             T1 == IF finish /\ ~z.finished THEN Trailer ELSE 0
             T2 == IF z'.finished THEN Trailer ELSE 0
             B == Bytes({"body"}, dest)
             B2 == Bytes({"body"}, dest')
             L == Len(ctx.avail_in)
             H == z.held
             G == z.given
  <2>1. /\ B + H = G + T
        /\ ctx.in_total = G + L /\ ctx.in_total = src.read /\ ctx.in_pos = 0
        /\ z.finished => /\ ctx.avail_in = <<>> /\ pc \notin {"read", "flush"}
                         /\ pc = "write" => ctx.eof
    BY DEF ExtInv, DeflateAccounts
  <2>2. o + h = H + L + T1 /\ (finish /\ p + o < CHUNK => h = 0)
    BY <1>2 DEF FromZlib, p
  <2>3. B \in Nat /\ B2 = B + o
    BY <1>8 DEF AllWritten
  <2>4. T2 = T + T1 /\ T \in Nat /\ T1 \in Nat
    BY <1>4, <1>7, Constants
  <2>5. z'.held = h /\ z'.given = G + L /\ H \in Nat /\ G \in Nat /\ L \in Nat
    BY <1>4, <1>7
  <2>6. Compressing' <=> Compressing
    BY <1>9 DEF Compressing
  <2>7. pc # "drain"
    BY <1>5 DEF ExtInv, Staged, Compressing
  <2>8. Len(ctx'.avail_in) = 0
    BY <1>6
  <2>9. /\ z'.finished => pc' \notin {"read", "flush"} /\ (pc' = "write" => ctx'.eof)
        /\ pc' \in {"cleanup", "done"} => z'.finished
    BY <1>5, <1>6, <1>7, <1>9, <2>1, <2>7
  <2>10. pc' \in {"cleanup", "done"} /\ ctx'.avail_out >= FOOTER => h = 0
    BY <1>3, <1>9, <1>10, <2>2
  <2> HIDE DEF T, T1, T2, B, B2, L, H, G
  <2>11. B2 + h = (G + L) + T2
    BY <1>3, <2>1, <2>2, <2>3, <2>4, <2>5
  <2>12. /\ ctx'.in_total = z'.given + Len(ctx'.avail_in) /\ ctx'.in_total = src'.read
    BY <1>6, <1>9, <2>1, <2>5, <2>8
  <2>13. B2 + z'.held = z'.given + T2
    BY <2>5, <2>11
  <2>14. QED
    BY <1>6, <2>1, <2>5, <2>9, <2>10, <2>12, <2>13 DEF DeflateAccounts, B2, T2
<1>16. FooterLast'
  <2> SUFFICES ASSUME op = "gzip" PROVE FooterLast'
    BY <1>9 DEF FooterLast
  <2>1. NoFooter
    BY <1>5 DEF ExtInv, FooterLast
  <2>2. ~HasFooter(dest) /\ Bytes({"footer"}, dest) = 0
    BY <2>1 DEF NoFooter, HasFooter
  <2>3. CASE pc' \in {"cleanup", "done"} /\ ctx'.avail_out >= FOOTER
    <3>1. finish /\ f = FOOTER /\ f > 0
      BY <1>3, <1>9, <1>10, <2>3
    <3>2. /\ dest' # <<>> /\ dest'[Len(dest')] = Piece("footer", FOOTER)
          /\ \A i \in DOMAIN dest' : dest'[i].what = "footer" => i = Len(dest')
          /\ Bytes({"footer"}, dest') = 0 + FOOTER
      BY <1>8, <2>2, <3>1 DEF AllWritten
    <3>3. ctx'.isize = z'.given /\ z'.held = 0
      <4>1. Compressing /\ DeflateAccounts
        BY DEF Compressing, ExtInv
      <4>2. ctx.in_total = z.given + Len(ctx.avail_in)
        BY <4>1 DEF DeflateAccounts
      <4>3. finish /\ p + o < CHUNK => h = 0
        BY <1>2, <4>1 DEF FromZlib, p
      <4>4. QED
        BY <1>3, <1>6, <1>7, <1>10, <2>3, <3>1, <4>2, <4>3
    <3>4. 0 + FOOTER = FOOTER
      BY <1>3
    <3>5. Sealed'
      BY <3>2, <3>3, <3>4 DEF Sealed
    <3>6. QED
      BY <2>3, <3>5 DEF FooterLast
  <2>4. CASE ~(pc' \in {"cleanup", "done"} /\ ctx'.avail_out >= FOOTER)
    <3>1. f = 0
      BY <1>3, <1>9, <1>10, <2>4
    <3>2. ~HasFooter(dest') /\ Bytes({"footer"}, dest') = 0 + 0
      BY <1>8, <2>2, <3>1 DEF AllWritten
    <3>3. NoFooter'
      BY <3>2 DEF NoFooter, HasFooter
    <3>4. QED
      BY <2>4, <3>3 DEF FooterLast
  <2>5. QED
    BY <2>3, <2>4
<1>17. InflateAccounts'
  <2> SUFFICES ASSUME op \in {"gunzip", "inflate"} PROVE InflateAccounts'
    BY <1>9 DEF InflateAccounts
  <2> DEFINE D == Ratio * DataIn(ctx.avail_in)
             D2 == Ratio * DataIn(ctx'.avail_in)
             B == Bytes(Kept, dest)
             B2 == Bytes(Kept, dest')
             L == Len(ctx.avail_in)
             H == z.held
             G == z.given
             U == Ratio * DataUpTo(src.data, src.read)
             V == Ratio * DataUpTo(src.data, ctx.in_pos)
  <2>1. /\ pc \notin {"drain", "write", "raised"} => H = 0
        /\ (op = "inflate" => ctx.in_pos = 0)
        /\ src.kind \in {"string", "file"} /\ pc \in Looping /\ ~CutString =>
              /\ B + H + D + V = U
              /\ G + L + ctx.in_pos >= src.read
    BY <1>5 DEF ExtInv, InflateAccounts, Passed
  <2>2. /\ ~Compressing /\ p = 0 /\ f = 0
    BY <1>5, <1>10 DEF Compressing, ExtInv, Totalled, p
  <2>3. o + h = H + D /\ (p + o < CHUNK => h = 0)
    BY <1>2, <2>2 DEF FromZlib, p
  <2>4. B \in Nat /\ B2 = B + 0 + o + 0
    BY <1>8, <2>2 DEF AllWritten
  <2>5. DataIn(ctx.avail_in) \in Nat /\ (ctx.avail_in = <<>> => DataIn(ctx.avail_in) = 0)
        /\ DataIn(ctx'.avail_in) = 0
    <3>1. <<>> \in Seq(Cells)
      OBVIOUS
    <3>2. QED
      BY <1>4, <1>6, <3>1, DataInIs
  <2>6. D \in Nat /\ D2 = 0 /\ (ctx.avail_in = <<>> => D = 0)
    BY <2>5, Constants
  <2>7. pc = "flush" => ctx.avail_in = <<>>
    BY DEF ExtInv, Staged
  <2>8. H \in Nat /\ G \in Nat /\ L \in Nat /\ z'.held = h /\ z'.given = G + L
    BY <1>4, <1>7
  <2>9. pc' \notin {"drain", "write", "raised"} => h = 0
    <3>1. pc = "flush" => h = 0
      <4> HIDE DEF D, H
      <4>1. pc = "flush" => D = 0 /\ H = 0
        BY <2>1, <2>6, <2>7
      <4>2. QED
        BY <1>3, <2>3, <4>1
    <3>2. QED
      BY <1>9, <1>10, <2>3, <3>1
  <2>10. pc \in Looping /\ pc' \notin {"header", "leftover"}
    BY <1>5, <1>9 DEF Looping
  <2>11. ctx.in_pos \in Nat /\ src.read \in Nat /\ Len(ctx'.avail_in) = 0
    BY <1>1, <1>6 DEF Typed, Contexts, Sources
  <2>a. V \in Nat
    <3>1. DataUpTo(src.data, ctx.in_pos) \in Nat
      BY <2>11, DataFinite
    <3>2. QED
      BY <3>1, Constants
  <2> HIDE DEF D, D2, B, B2, L, H, G, V
  <2>12. B + H + D + V = U => B2 + h + D2 + V = U
    BY <1>3, <2>3, <2>4, <2>6, <2>8, <2>a
  <2>13. /\ src.kind \in {"string", "file"} /\ ~CutString =>
               /\ B2 + z'.held + D2 + V = U
               /\ z'.given + Len(ctx'.avail_in) + ctx'.in_pos >= src.read
    <3>1. (G + L) + 0 + ctx.in_pos = G + L + ctx.in_pos
      BY <2>8, <2>11
    <3>2. QED
      BY <1>6, <2>1, <2>8, <2>10, <2>11, <2>12, <3>1
  <2>b. src.kind = "string" => pc' # "read"
    BY <1>5, <1>9 DEF ExtInv, ReadToEnd
  <2> HIDE DEF U
  <2>14. /\ U = Ratio * DataUpTo(src'.data, Passed') /\ V = Ratio * DataUpTo(src'.data, ctx'.in_pos)
         /\ CutString' = CutString
    BY <1>6, <1>9, <2>b DEF U, V, Passed, CutString
  <2>15. QED
    BY <1>6, <1>9, <2>1, <2>8, <2>9, <2>10, <2>13, <2>14 DEF InflateAccounts, B2, D2
<1>18. HeaderRead'
  <2>1. /\ ctx'.in_pos = ctx.in_pos /\ ctx'.split = ctx.split /\ CutString' = CutString
        /\ \A q : HeaderEndsAt(q)' <=> HeaderEndsAt(q)
    BY <1>6, <1>9 DEF CutString, HeaderEndsAt
  <2>2. HeaderEndsAt(ctx.in_pos)' <=> HeaderEndsAt(ctx.in_pos)
    BY <1>6, <1>9 DEF HeaderEndsAt
  <2>3. pc' \in Looping /\ pc \in Looping /\ pc' \notin {"header", "leftover", "badheader"}
    BY <1>5, <1>9 DEF Looping
  <2>4. op = "gunzip" => HeaderEndsAt(ctx.in_pos) \/ CutString \/ ctx.split
    BY <2>3 DEF ExtInv, HeaderRead
  <2>5. QED
    BY <1>9, <2>1, <2>2, <2>3, <2>4 DEF HeaderRead
<1>19. ChunksRead'
  BY <1>5, <1>9 DEF ChunksRead
<1>20. QED
  BY <1>11, <1>12, <1>13, <1>14, <1>15, <1>16, <1>17, <1>18, <1>19 DEF ExtInv

\* The header that was read is not forgotten.
LEMMA HeaderStays ==
  ASSUME op' = op, src'.data = src.data, src'.kind = src.kind, ctx'.in_pos = ctx.in_pos,
         ctx'.split = ctx.split, pc' \in Looping,
         op = "gunzip" => HeaderEndsAt(ctx.in_pos) \/ CutString \/ ctx.split
  PROVE  HeaderRead' /\ CutString' = CutString
<1>1. CutString' = CutString /\ (HeaderEndsAt(ctx.in_pos)' <=> HeaderEndsAt(ctx.in_pos))
  BY DEF CutString, HeaderEndsAt
<1>2. pc' \notin {"header", "leftover", "badheader"}
  BY DEF Looping
<1>3. QED
  BY <1>1, <1>2 DEF HeaderRead

LEMMA LeftoverKeeps ==
  ASSUME ExtInv, Leftover
  PROVE  ExtInv'
<1>1. /\ Typed /\ pc = "leftover" /\ op = "gunzip" /\ op' = op /\ src' = src /\ z' = z
      /\ dest' = dest
  BY DEF ExtInv, Staged, Leftover
<1>2. /\ ctx \in Contexts /\ ctx.in_pos \in Nat /\ ctx.in_total \in Int
      /\ ctx.buf \in [1..(CHUNK + HEADER) -> Cells] /\ src.data \in Seq(Cells)
      /\ src.read \in Nat /\ ctx.avail_in = <<>> /\ z.held = 0 /\ z.given = 0 /\ dest = <<>>
      /\ HeaderEndsAt(ctx.in_pos) \/ CutString \/ ctx.split
      /\ src.kind # "string" => ctx.in_total \in Nat /\ ctx.in_total < CHUNK + HEADER
      /\ src.read <= Len(src.data) /\ Len(src.data) \in Nat
  BY <1>1, CtxFields DEF ExtInv, Typed, Sources, Staged, InflateAccounts, HeaderRead
<1>3. /\ Bytes(Kept, dest) = 0 /\ CHUNK \in Nat /\ HEADER \in Nat
      /\ DataUpTo(src.data, ctx.in_pos) \in Nat /\ Ratio \in Nat
  BY <1>1, <1>2, BytesEmpty, DataFinite, Constants
<1>4. DataIn(<<>>) = 0
  <2>1. <<>> \in Seq(Cells)
    OBVIOUS
  <2>2. QED
    BY <2>1, DataInIs
<1>5. src.kind = "file" => /\ ctx.in_total = src.read /\ src.read <= CHUNK
                           /\ \A i \in 1..src.read : ctx.buf[i] = src.data[i]
                           /\ ctx.in_pos <= src.read
  BY <1>1 DEF ExtInv, HeaderRead
<1>6. CASE src.kind # "string" /\ ctx.in_total > ctx.in_pos
  <2> DEFINE a == ctx.in_pos
             t == ctx.in_total
             buf == ctx.buf
             part == SubSeq(buf, a + 1, t)
  <2>1. ctx' = [ctx EXCEPT !.in_total = t - a, !.avail_in = part] /\ pc' = "drain"
    BY <1>6 DEF Leftover
  <2>2. a \in Nat /\ t \in Nat /\ t > a /\ buf \in [1..(CHUNK + HEADER) -> Cells]
        /\ t < CHUNK + HEADER /\ t - a \in Nat /\ t - a \in Int
    BY <1>2, <1>3, <1>6
  <2>3. /\ part \in Seq(Cells)
        /\ Len(part) = t - a /\ \A i \in 1..(t - a) : part[i] = buf[a + i]
    <3> HIDE DEF a, t, buf
    <3>1. buf \in Seq(Cells) /\ Len(buf) = CHUNK + HEADER
      BY <1>3, <2>2
    <3>2. QED
      BY <1>3, <2>2, <3>1
  <2> HIDE DEF part
  <2>4. /\ ctx' \in Contexts /\ ctx'.in_pos = a /\ ctx'.avail_in = part
        /\ ctx'.out_pos = ctx.out_pos /\ ctx'.out_total = ctx.out_total
        /\ ctx'.f_gzip_footer = ctx.f_gzip_footer /\ ctx'.split = ctx.split
    BY <1>2, <2>1, <2>2, <2>3 DEF Contexts
  <2>5. Typed'
    BY <1>1, <2>1, <2>4 DEF Typed, Places, Looping, CutString
  <2>6. Staged' /\ Totalled' /\ ReadToEnd' /\ HeaderRead'
    <3>1. Staged'
      BY <1>1, <2>1, <2>4 DEF ExtInv, Staged, Ended
    <3>2. Totalled'
      BY <1>1, <2>1, <2>4 DEF ExtInv, Totalled
    <3>3. ReadToEnd'
      BY <1>1, <1>6, <2>1 DEF ReadToEnd
    <3>4. HeaderRead'
      <4>1. pc' \in Looping
        BY <2>1 DEF Looping
      <4>2. QED
        BY <1>1, <1>2, <2>4, <4>1, HeaderStays
    <3>5. QED
      BY <3>1, <3>2, <3>3, <3>4
  <2>7. DeflateAccounts' /\ FooterLast' /\ ChunksRead'
    BY <1>1 DEF DeflateAccounts, FooterLast, ChunksRead, Compressing
  <2>8. InflateAccounts'
    <3>1. src.kind = "file" =>
             /\ Len(part) = src.read - a
             /\ DataUpTo(src.data, src.read) = DataUpTo(src.data, a) + DataIn(part)
      <4> SUFFICES ASSUME src.kind = "file"
                   PROVE  /\ Len(part) = src.read - a
                          /\ DataUpTo(src.data, src.read) = DataUpTo(src.data, a) + DataIn(part)
        OBVIOUS
      <4> DEFINE data == src.data
                 n == src.read - a
      <4>1. t = src.read /\ n \in Nat /\ a + n = src.read
        BY <1>2, <1>5, <2>2
      <4>2. /\ data \in Seq(Cells) /\ a + n <= Len(data) /\ Len(part) = n
            /\ \A i \in 1..n : a + i \in 1..src.read
        BY <1>2, <2>2, <2>3, <4>1
      <4>3. \A i \in 1..n : part[i] = data[a + i]
        BY <1>5, <2>3, <4>1, <4>2
      <4> HIDE DEF data, n, a
      <4>4. DataUpTo(data, a + n) = DataUpTo(data, a) + DataIn(part)
        <5>1. a \in Nat /\ n \in Nat /\ part \in Seq(Cells)
          BY <2>2, <2>3, <4>1
        <5>2. QED
          BY <4>2, <4>3, <5>1, DataSplit, Zenon
      <4>5. QED
        BY <4>1, <4>2, <4>4 DEF data, n
    <3> DEFINE U == DataUpTo(src.data, src.read)
               V == DataUpTo(src.data, a)
               d == DataIn(part)
    <3>2. d \in Nat /\ V \in Nat
      BY <1>3, <2>3, DataInIs
    <3> HIDE DEF U, V, d
    <3>3. src.kind = "file" => U = V + d
      BY <3>1 DEF U, V, d
    <3>4. src.kind = "file" => 0 + 0 + Ratio * d + Ratio * V = Ratio * U
      <4>1. Ratio * (V + d) = Ratio * V + Ratio * d /\ Ratio * V \in Nat /\ Ratio * d \in Nat
        BY <1>3, <3>2
      <4>2. QED
        BY <3>3, <4>1
    <3>5. src.kind = "file" => 0 + Len(part) + a >= src.read
      <4> HIDE DEF a
      <4>1. QED
        BY <1>2, <2>2, <3>1
    <3>6. /\ U = DataUpTo(src'.data, Passed') /\ V = DataUpTo(src'.data, ctx'.in_pos)
          /\ d = DataIn(ctx'.avail_in)
      BY <1>1, <2>1, <2>4 DEF U, V, d, Passed
    <3> HIDE DEF a
    <3>7. QED
      BY <1>1, <1>2, <1>3, <1>6, <2>1, <2>4, <3>4, <3>5, <3>6 DEF InflateAccounts, a
  <2>9. QED
    BY <2>5, <2>6, <2>7, <2>8 DEF ExtInv
<1>7. CASE ~(src.kind # "string" /\ ctx.in_total > ctx.in_pos)
  <2>1. ctx' = ctx /\ pc' = "read"
    BY <1>7 DEF Leftover
  <2>2. Typed'
    BY <1>1, <2>1 DEF Typed, Places, Looping, CutString
  <2>3. Staged'
    BY <1>1, <1>2, <2>1 DEF ExtInv, Staged, Ended
  <2>4. Totalled'
    BY <1>1, <2>1 DEF ExtInv, Totalled
  <2>5. ReadToEnd'
    BY <1>1, <2>1 DEF ExtInv, ReadToEnd
  <2>6. HeaderRead'
    <3>1. pc' \in Looping
      BY <2>1 DEF Looping
    <3>2. QED
      BY <1>1, <1>2, <2>1, <3>1, HeaderStays
  <2>7. DeflateAccounts' /\ FooterLast' /\ ChunksRead'
    BY <1>1 DEF DeflateAccounts, FooterLast, ChunksRead, Compressing
  <2>8. InflateAccounts'
    <3>1. src.kind \in {"string", "file"} => Passed' = ctx.in_pos /\ src.read <= ctx.in_pos
      <4>1. CASE src.kind = "string"
        <5>1. src.read = 0
          BY <1>1, <4>1 DEF ExtInv, ReadToEnd
        <5>2. QED
          BY <1>1, <1>2, <2>1, <4>1, <5>1 DEF Passed
      <4>2. CASE src.kind = "file"
        <5>1. ctx.in_pos = src.read
          BY <1>2, <1>5, <1>7, <4>2
        <5>2. QED
          BY <1>1, <1>2, <2>1, <4>2, <5>1 DEF Passed
      <4>3. QED
        BY <4>1, <4>2
    <3> DEFINE V == DataUpTo(src.data, ctx.in_pos)
    <3>2. Len(<<>>) = 0 /\ 0 + 0 + Ratio * 0 + Ratio * V = Ratio * V
          /\ 0 + 0 + ctx.in_pos = ctx.in_pos
      <4>1. V \in Nat
        BY <1>3
      <4> HIDE DEF V
      <4>2. QED
        BY <1>2, <1>3, <4>1
    <3>3. QED
      BY <1>1, <1>2, <1>3, <1>4, <2>1, <3>1, <3>2 DEF InflateAccounts
  <2>9. QED
    BY <2>2, <2>3, <2>4, <2>5, <2>6, <2>7, <2>8 DEF ExtInv
<1>8. QED
  BY <1>6, <1>7

LEMMA ReadMoreKeeps ==
  ASSUME ExtInv, ReadMore
  PROVE  ExtInv'
<1>1. /\ Typed /\ pc = "read" /\ op # "chunked" /\ op' = op /\ dest' = dest
  <2>1. pc = "read" /\ op' = op /\ dest' = dest
    BY Zenon DEF ReadMore
  <2>2. QED
    BY <2>1 DEF ExtInv, Staged
<1>2. /\ ctx \in Contexts /\ ctx.in_pos \in Nat /\ ctx.in_total \in Int
      /\ src \in Sources /\ src.data \in Seq(Cells) /\ src.read \in Nat
      /\ ctx.avail_in = <<>> /\ src.read <= Len(src.data)
      /\ ctx.in_pos <= Len(src.data) \/ CutString
      /\ z.held \in Nat /\ z.given \in Nat /\ Len(src.data) \in Nat
  BY <1>1, CtxFields, ZFields DEF ExtInv, Typed, Sources, Staged
<1>3. CHUNK \in Nat /\ Ratio \in Nat /\ HEADER \in Nat
  BY Constants
<1>4. DataIn(<<>>) = 0 /\ Len(<<>>) = 0 /\ Ratio * 0 = 0
  <2>1. <<>> \in Seq(Cells)
    OBVIOUS
  <2>2. DataIn(<<>>) = 0
    BY <2>1, DataInIs
  <2>3. QED
    BY <2>2, <1>3
<1>a. op = "gunzip" => HeaderEndsAt(ctx.in_pos) \/ CutString \/ ctx.split
  BY <1>1 DEF ExtInv, HeaderRead, Looping
<1>b. Bytes(Kept, dest) \in Nat /\ Bytes({"body"}, dest) \in Nat
  <2>1. dest \in Seq(WrittenPieces) /\ "body" \in PieceKinds /\ 0 \in 0..CHUNK
    BY <1>1, <1>3 DEF Typed, PieceKinds
  <2>2. QED
    BY <2>1, WriteAdds DEF Grown
\* What the two ways to read have in common.
<1>5. ASSUME NEW part \in Seq(Cells), z' = z,
             src' \in Sources, src'.data = src.data, src'.kind = src.kind,
             src'.read <= Len(src.data),
             ctx' \in Contexts, ctx'.avail_in = part, ctx'.split = ctx.split,
             ctx'.in_pos = ctx.in_pos, ctx'.out_pos = ctx.out_pos,
             ctx'.out_total = ctx.out_total, ctx'.f_gzip_footer = ctx.f_gzip_footer,
             pc' \in {"write", "flush"}, pc' = "flush" => part = <<>>,
             ReadToEnd',
             Compressing => /\ src'.read = src.read + Len(part)
                            /\ ctx'.in_total = ctx.in_total + Len(part),
             op \in {"gunzip", "inflate"} /\ src.kind \in {"string", "file"} /\ ~CutString =>
                 /\ DataUpTo(src.data, src'.read) = DataUpTo(src.data, Passed) + DataIn(part)
                 /\ z.given + Len(part) + ctx.in_pos >= src'.read
      PROVE  ExtInv'
  <2>1. Typed'
    BY <1>1, <1>5 DEF Typed, Places, Looping, CutString
  <2>2. Staged'
    BY <1>1, <1>5 DEF ExtInv, Staged, Ended
  <2>3. Totalled'
    BY <1>1, <1>5 DEF ExtInv, Totalled
  <2>4. DeflateAccounts'
    <3> SUFFICES ASSUME Compressing PROVE DeflateAccounts'
      BY <1>1 DEF DeflateAccounts, Compressing
    <3>1. /\ Bytes({"body"}, dest) + z.held = z.given + (IF z.finished THEN Trailer ELSE 0)
          /\ ctx.in_total = z.given + Len(ctx.avail_in) /\ ctx.in_total = src.read
          /\ ctx.in_pos = 0 /\ ~z.finished
      BY <1>1 DEF ExtInv, DeflateAccounts
    <3>2. ctx.in_total = z.given /\ Len(part) \in Nat
      BY <1>2, <1>4, <3>1
    <3>3. ctx'.in_total = z.given + Len(part) /\ ctx'.in_total = src'.read
      BY <1>5, <3>1, <3>2
    <3>4. QED
      BY <1>1, <1>5, <3>1, <3>3 DEF DeflateAccounts
  <2>5. FooterLast'
    BY <1>1, <1>5 DEF ExtInv, FooterLast, NoFooter
  <2>6. InflateAccounts'
    <3> SUFFICES ASSUME op \in {"gunzip", "inflate"} PROVE InflateAccounts'
      BY <1>1 DEF InflateAccounts
    <3> DEFINE B == Bytes(Kept, dest)
               u == DataUpTo(src.data, Passed)
               u2 == DataUpTo(src.data, src'.read)
               v == DataUpTo(src.data, ctx.in_pos)
               d == DataIn(part)
               S == src.kind \in {"string", "file"} /\ ~CutString
    <3>1. /\ z.held = 0 /\ (op = "inflate" => ctx.in_pos = 0)
          /\ S => B + z.held + Ratio * DataIn(ctx.avail_in) + Ratio * v = Ratio * u
      BY <1>1 DEF ExtInv, InflateAccounts, Looping
    <3>2. S => B + 0 + 0 + Ratio * v = Ratio * u
      BY <1>2, <1>4, <3>1
    <3>3. u \in Nat /\ d \in Nat /\ v \in Nat
      <4>1. Passed \in Nat
        BY <1>2 DEF Passed
      <4>2. QED
        BY <1>2, <4>1, DataFinite, DataInIs
    <3>4. S => u2 = u + d
      BY <1>5
    <3> HIDE DEF B, u, u2, d, v
    <3>5. S => B + 0 + Ratio * d + Ratio * v = Ratio * u2
      <4>1. Ratio * (u + d) = Ratio * u + Ratio * d /\ Ratio * u \in Nat /\ Ratio * d \in Nat
            /\ Ratio * v \in Nat
        BY <1>3, <3>3
      <4>2. B \in Nat
        BY <1>b DEF B
      <4>3. QED
        BY <3>2, <3>4, <4>1, <4>2
    <3>6. S => z.given + Len(part) + ctx.in_pos >= src'.read
      BY <1>5
    <3>a. CutString' = CutString /\ Passed' = src'.read
      BY <1>1, <1>5 DEF CutString, Passed
    <3>7. u2 = DataUpTo(src'.data, Passed') /\ d = DataIn(ctx'.avail_in)
          /\ v = DataUpTo(src'.data, ctx'.in_pos)
          /\ B = Bytes(Kept, dest') /\ (S <=> src'.kind \in {"string", "file"} /\ ~CutString')
          /\ Len(part) = Len(ctx'.avail_in) /\ z'.held = 0 /\ z'.given = z.given
      BY <1>1, <1>5, <3>1, <3>a DEF u2, d, B, v
    <3> HIDE DEF S
    <3>8. QED
      BY <1>1, <1>5, <3>1, <3>5, <3>6, <3>7 DEF InflateAccounts
  <2>7. HeaderRead'
    <3>1. pc' \in Looping
      BY <1>5 DEF Looping
    <3>2. QED
      BY <1>1, <1>5, <1>a, <3>1, HeaderStays
  <2>8. ChunksRead'
    BY <1>1 DEF ChunksRead
  <2>9. QED
    BY <1>5, <2>1, <2>2, <2>3, <2>4, <2>5, <2>6, <2>7, <2>8 DEF ExtInv
<1>6. CASE src.kind = "string"
  <2> DEFINE data == src.data
             a == ctx.in_pos
             N == Len(data)
             total == ctx.in_total + (N - a)
  <2>1. PICK part \in StringInput :
        /\ ctx' = [ctx EXCEPT !.avail_in = part, !.eof = TRUE, !.in_total = total]
        /\ src' = [src EXCEPT !.read = N] /\ pc' = "write" /\ z' = z
    BY <1>6 DEF ReadMore, EndOfFile
  <2>2. data \in Seq(Cells) /\ a \in Nat /\ N \in Nat /\ total \in Int
    BY <1>2
  <2>3. /\ part \in Seq(Cells)
        /\ a <= N => Len(part) = N - a /\ \A i \in 1..(N - a) : part[i] = data[a + i]
    <3>1. CASE a <= N
      <4>1. part = SubSeq(data, a + 1, N)
        BY <2>1, <3>1 DEF StringInput
      <4> HIDE DEF data, a
      <4>2. QED
        BY <2>2, <3>1, <4>1
    <3>2. CASE ~(a <= N)
      <4>1. PICK n \in 0..MaxStray : part = Copies("data", n)
        BY <2>1, <3>2 DEF StringInput
      <4>2. n \in Nat /\ "data" \in Cells
        BY Constants DEF Cells, ByteKinds
      <4>3. QED
        BY <3>2, <4>1, <4>2, CopiesOf
    <3>3. QED
      BY <3>1, <3>2
  <2> HIDE DEF data, a, N, total
  <2>4. /\ src' \in Sources /\ src'.data = src.data /\ src'.kind = src.kind /\ src'.read = N
    BY <1>2, <2>1, <2>2 DEF Sources
  <2>5. /\ ctx' \in Contexts /\ ctx'.avail_in = part /\ ctx'.split = ctx.split
        /\ ctx'.in_total = total /\ ctx'.eof = TRUE
        /\ ctx'.in_pos = ctx.in_pos /\ ctx'.out_pos = ctx.out_pos
        /\ ctx'.out_total = ctx.out_total /\ ctx'.f_gzip_footer = ctx.f_gzip_footer
    BY <1>2, <2>1, <2>2, <2>3 DEF Contexts
  <2>6. src'.read = Len(src'.data) /\ src'.read <= Len(src.data)
    BY <1>2, <2>4 DEF N, data
  <2>7. ReadToEnd'
    BY <1>6, <2>1, <2>4, <2>5, <2>6 DEF ReadToEnd
  <2>8. src.read = 0 /\ Passed = a
    BY <1>1, <1>6 DEF ExtInv, ReadToEnd, Passed, a
  <2>9. Compressing => src'.read = src.read + Len(part) /\ ctx'.in_total = ctx.in_total + Len(part)
    <3>1. Compressing => a = 0
      BY DEF ExtInv, DeflateAccounts, a
    <3>2. QED
      BY <1>2, <2>2, <2>3, <2>4, <2>5, <2>8, <3>1 DEF total
  <2>10. op \in {"gunzip", "inflate"} /\ ~CutString =>
                 /\ DataUpTo(src.data, src'.read) = DataUpTo(src.data, Passed) + DataIn(part)
                 /\ z.given + Len(part) + ctx.in_pos >= src'.read
    <3> SUFFICES ASSUME op \in {"gunzip", "inflate"}, ~CutString
                 PROVE  /\ DataUpTo(src.data, src'.read)
                              = DataUpTo(src.data, Passed) + DataIn(part)
                        /\ z.given + Len(part) + ctx.in_pos >= src'.read
      OBVIOUS
    <3> DEFINE n == N - a
    <3>a. a <= N
      BY <1>2 DEF a, N, data
    <3>1. n \in Nat /\ a + n = N /\ a + n <= Len(data) /\ Len(part) = n
      BY <2>2, <2>3, <3>a DEF N
    <3>2. \A i \in 1..n : part[i] = data[a + i]
      BY <2>3, <3>a
    <3> HIDE DEF n
    <3>3. DataUpTo(data, a + n) = DataUpTo(data, a) + DataIn(part)
      BY <2>2, <2>3, <3>1, <3>2, DataSplit
    <3>6. z.given + Len(part) + a >= N
      BY <1>2, <2>2, <3>1
    <3>7. QED
      BY <2>4, <2>8, <3>1, <3>3, <3>6 DEF data, a
  <2>11. QED
    BY <1>5, <2>1, <2>3, <2>4, <2>5, <2>6, <2>7, <2>9, <2>10
<1>7. CASE EndOfFile /\ Leave("raised") /\ UNCHANGED <<src, ctx>>
  <2>1. UNCHANGED <<op, src, ctx, dest>>
    BY <1>1, <1>7
  <2>2. pc \in {"header", "read", "drain", "write", "flush", "in", "size", "out"}
    BY <1>1
  <2>3. QED
    BY <1>7, <2>1, <2>2, RaiseKeeps
<1>8. CASE \E n \in ReadLengths :
              /\ src.kind # "string"
              /\ src' = [src EXCEPT !.read = @ + n]
              /\ ctx' = [ctx EXCEPT !.buf = read_to_raw_buffer(n), !.in_total = @ + n,
                              !.eof = n > 0 /\ n < CHUNK, !.avail_in = SubSeq(Rest, 1, n)]
              /\ pc' = IF n = 0 THEN "flush" ELSE "write"
              /\ z' = z
  <2>1. PICK n \in ReadLengths :
              /\ src.kind # "string"
              /\ src' = [src EXCEPT !.read = @ + n]
              /\ ctx' = [ctx EXCEPT !.buf = read_to_raw_buffer(n), !.in_total = @ + n,
                              !.eof = n > 0 /\ n < CHUNK, !.avail_in = SubSeq(Rest, 1, n)]
              /\ pc' = IF n = 0 THEN "flush" ELSE "write"
              /\ z' = z
    BY <1>8, Zenon
  <2> DEFINE part == SubSeq(Rest, 1, n)
             buf == read_to_raw_buffer(n)
             e == n > 0 /\ n < CHUNK
  <2>2. /\ n \in 0..CHUNK /\ src.read + n <= Len(src.data)
        /\ n = 0 => src.read = Len(src.data)
        /\ src.kind = "file" /\ n < CHUNK => src.read + n = Len(src.data)
        /\ part \in Seq(Cells) /\ Len(part) = n
        /\ \A i \in 1..n : part[i] = src.data[src.read + i]
    BY <1>1, ReadsOf
  <2>3. buf \in [1..(CHUNK + HEADER) -> Cells] /\ e \in BOOLEAN /\ n \in Nat
    BY <1>1, <1>3, <2>2, BufferRead
  <2>4. /\ src' \in Sources /\ src'.data = src.data /\ src'.kind = src.kind
        /\ src'.read = src.read + n
    BY <1>2, <2>1, <2>3 DEF Sources
  <2>5. ctx' = [ctx EXCEPT !.buf = buf, !.in_total = ctx.in_total + n, !.eof = e,
                           !.avail_in = part]
    BY <2>1
  <2> HIDE DEF buf, part
  <2>6. /\ ctx' \in Contexts /\ ctx'.avail_in = part /\ ctx'.split = ctx.split
        /\ ctx'.in_total = ctx.in_total + Len(part) /\ ctx'.eof = e
        /\ ctx'.in_pos = ctx.in_pos /\ ctx'.out_pos = ctx.out_pos
        /\ ctx'.out_total = ctx.out_total /\ ctx'.f_gzip_footer = ctx.f_gzip_footer
    <3> HIDE DEF e
    <3>1. ctx.in_total + n \in Int
      BY <1>2, <2>3
    <3>2. QED
      BY <1>2, <2>2, <2>3, <2>5, <3>1 DEF Contexts
  <2>7. pc' \in {"write", "flush"} /\ (pc' = "flush" => n = 0 /\ part = <<>>)
    BY <2>1, <2>2
  <2>8. src'.read <= Len(src.data)
    BY <2>2, <2>4
  <2>9. ReadToEnd'
    <3>1. pc' = "flush" => src'.read = Len(src'.data)
      BY <1>2, <2>2, <2>4, <2>7
    <3>2. src.kind = "file" /\ pc' = "write" /\ ctx'.eof => src'.read = Len(src'.data)
      BY <2>2, <2>4, <2>6
    <3>3. src'.kind # "string" /\ pc' \notin {"cleanup", "done"}
      BY <2>1, <2>4, <2>7
    <3>4. QED
      BY <2>4, <3>1, <3>2, <3>3 DEF ReadToEnd
  <2>10. op \in {"gunzip", "inflate"} /\ src.kind \in {"string", "file"} /\ ~CutString =>
                 /\ DataUpTo(src.data, src'.read) = DataUpTo(src.data, Passed) + DataIn(part)
                 /\ z.given + Len(part) + ctx.in_pos >= src'.read
    <3> SUFFICES ASSUME op \in {"gunzip", "inflate"}, src.kind \in {"string", "file"}, ~CutString
                 PROVE  /\ DataUpTo(src.data, src'.read)
                              = DataUpTo(src.data, Passed) + DataIn(part)
                        /\ z.given + Len(part) + ctx.in_pos >= src'.read
      OBVIOUS
    <3> DEFINE data == src.data
               a == src.read
    <3>1. data \in Seq(Cells) /\ a \in Nat /\ a + n <= Len(data)
          /\ \A i \in 1..n : part[i] = data[a + i]
      BY <1>2, <2>2
    <3> HIDE DEF data, a
    <3>2. DataUpTo(data, a + n) = DataUpTo(data, a) + DataIn(part)
      BY <2>2, <2>3, <3>1, DataSplit
    <3>3. z.given + Len(ctx.avail_in) + ctx.in_pos >= a
      BY <1>1 DEF ExtInv, InflateAccounts, Looping, a
    <3>4. z.given + n + ctx.in_pos >= a + n
      <4> DEFINE g == z.given
                 l == Len(ctx.avail_in)
                 i == ctx.in_pos
      <4>1. g \in Nat /\ i \in Nat /\ l = 0 /\ g + l + i >= a
        BY <1>2, <1>4, <3>3
      <4> HIDE DEF g, l, i
      <4>2. g + n + i >= a + n
        BY <2>3, <3>1, <4>1
      <4>3. QED
        BY <4>2 DEF g, i
    <3>a. Passed = a
      BY <2>1 DEF Passed, a
    <3>5. QED
      BY <2>2, <2>4, <3>2, <3>4, <3>a DEF data, a
  <2>11. src'.read = src.read + Len(part)
    BY <2>2, <2>4
  <2>12. QED
    BY <1>5, <2>1, <2>2, <2>4, <2>6, <2>7, <2>8, <2>9, <2>10, <2>11
<1>9. QED
  BY <1>6, <1>7, <1>8, Zenon DEF ReadMore

\* The string at pos ends with the first terminator behind it.
LEMMA StringRead ==
  ASSUME NEW bytes, NEW pos \in Nat, NEW total \in Nat,
         NEW r, r = read_gzip_header_str(bytes, pos, total)
  PROVE  /\ r \in Nat /\ (pos > total => r = pos + 1)
         /\ pos <= total /\ r # 0 => /\ r \in (pos + 1)..total /\ bytes[r] = "nul"
                                     /\ \A i \in (pos + 1)..(r - 1) : bytes[i] # "nul"
         /\ pos <= total /\ r = 0 => \A i \in (pos + 1)..total : bytes[i] # "nul"
<1> DEFINE nuls == {i \in (pos + 1)..total : bytes[i] = "nul"}
           first == CHOOSE i \in nuls : \A j \in nuls : i <= j
<1>1. r = IF pos > total THEN pos + 1 ELSE IF nuls = {} THEN 0 ELSE first
  BY Zenon DEF read_gzip_header_str
<1>2. CASE pos > total
  BY <1>1, <1>2
<1>3. CASE pos <= total /\ nuls = {}
  <2>1. \A i \in (pos + 1)..total : bytes[i] # "nul"
    BY <1>3
  <2>2. r = 0
    <3>1. ~(pos > total)
      BY <1>3
    <3>2. QED
      BY <1>1, <1>3, <3>1
  <2>3. QED
    BY <1>3, <2>1, <2>2
<1>4. CASE pos <= total /\ nuls # {}
  <2>1. nuls \in SUBSET Nat
    OBVIOUS
  <2> HIDE DEF nuls
  <2>2. first \in nuls /\ \A j \in nuls : first <= j
    <3>1. \E m \in nuls : \A j \in nuls : m <= j
      BY <1>4, <2>1, MinOfNats
    <3>2. QED
      BY <3>1, Zenon
  <2> HIDE DEF first
  <2>3. r = first
    <3>1. ~(pos > total)
      BY <1>4
    <3>2. QED
      BY <1>1, <1>4, <3>1
  <2>4. r \in (pos + 1)..total /\ bytes[r] = "nul"
    BY <2>2, <2>3 DEF nuls
  <2>5. ASSUME NEW i \in (pos + 1)..(r - 1) PROVE bytes[i] # "nul"
    <3>1. i \in (pos + 1)..total /\ ~(r <= i)
      BY <2>4
    <3>2. QED
      BY <2>2, <2>3, <3>1 DEF nuls
  <2>6. QED
    BY <1>4, <2>4, <2>5
<1>5. QED
  BY <1>2, <1>3, <1>4

\* r is the first terminator behind pos, or 0.
FirstNul(bytes, pos, total, r) ==
    /\ r \in Nat
    /\ r # 0 => /\ r \in (pos + 1)..total /\ bytes[r] = "nul"
                /\ \A i \in (pos + 1)..(r - 1) : bytes[i] # "nul"
    /\ r = 0 => \A i \in (pos + 1)..total : bytes[i] # "nul"

LEMMA StringInside ==
  ASSUME NEW bytes, NEW pos \in Nat, NEW total \in Nat, pos <= total
  PROVE  FirstNul(bytes, pos, total, read_gzip_header_str(bytes, pos, total))
BY StringRead DEF FirstNul

LEMMA FirstNulOf ==
  ASSUME NEW bytes, NEW data, NEW pos \in Nat, NEW total \in Nat, NEW r,
         FirstNul(bytes, pos, total, r), \A i \in 1..total : bytes[i] = data[i]
  PROVE  FirstNul(data, pos, total, r)
BY DEF FirstNul

\* The data begins among the bytes that were read.
LEMMA StartBound ==
  ASSUME NEW bytes, NEW total \in Nat, NEW start, start = DataStart(bytes, total)
  PROVE  start \in Nat /\ (total >= HEADER => start <= total)
<1> DEFINE one == read_gzip_header_str(bytes, HEADER, total)
           two == read_gzip_header_str(bytes, one, total)
<1>1. HEADER \in Nat
  BY Constants
<1>2. one \in Nat /\ (HEADER <= total /\ one # 0 => one \in (HEADER + 1)..total)
  BY <1>1, StringRead
<1>3. start \in {0, HEADER, one, two}
  BY Zenon DEF DataStart
<1> HIDE DEF one
<1>4. two \in Nat /\ (one <= total /\ two # 0 => two \in (one + 1)..total)
  BY <1>2, StringRead
<1> HIDE DEF two
<1>5. total >= HEADER => one <= total /\ two <= total
  BY <1>1, <1>2, <1>4
<1>6. QED
  BY <1>1, <1>2, <1>3, <1>4, <1>5

\* Of a source that was read to total, a header is found if it ends there, and
\* where it ends.
LEMMA DataStartOf ==
  ASSUME Typed, NEW bytes, NEW total \in Nat, total >= HEADER, total <= Len(src.data),
         \A i \in 1..total : bytes[i] = src.data[i],
         NEW start, start = DataStart(bytes, total)
  PROVE  /\ start # 0 => HeaderEndsAt(start)
         /\ start = 0 => \A p \in HEADER..total : ~HeaderEndsAt(p)
<1> DEFINE data == src.data
           one == read_gzip_header_str(bytes, HEADER, total)
           two == read_gzip_header_str(bytes, one, total)
           Nuls(p) == {i \in (HEADER + 1)..p : data[i] = "nul"}
<1>1. HEADER \in Nat /\ HEADER >= 2 /\ Len(data) \in Nat /\ total <= Len(data)
  <2>1. src.data \in Seq(Cells)
    BY DEF Typed, Sources
  <2>2. QED
    BY <2>1, Constants
<1>2. ASSUME NEW pos \in Nat, pos <= total
      PROVE  FirstNul(data, pos, total, read_gzip_header_str(bytes, pos, total))
  <2>1. FirstNul(bytes, pos, total, read_gzip_header_str(bytes, pos, total))
    BY <1>2, StringInside, Zenon
  <2>2. \A i \in 1..total : bytes[i] = data[i]
    OBVIOUS
  <2> HIDE DEF data
  <2>3. QED
    BY <2>1, <2>2, FirstNulOf, Zenon
<1>3. start = IF bytes[1] # "magic" \/ bytes[2] \notin {"plain", "one", "two"} THEN 0
              ELSE IF bytes[2] = "plain" THEN HEADER
              ELSE IF bytes[2] = "one" \/ one = 0 THEN one ELSE two
  BY Zenon DEF DataStart
<1>4. FirstNul(data, HEADER, total, one)
  BY <1>1, <1>2
<1> HIDE DEF one
<1>5. bytes[1] = data[1] /\ bytes[2] = data[2]
  BY <1>1
<1>6. /\ one \in Nat
      /\ one # 0 => /\ one \in (HEADER + 1)..total /\ data[one] = "nul"
                    /\ \A i \in (HEADER + 1)..(one - 1) : data[i] # "nul"
      /\ one = 0 => \A i \in (HEADER + 1)..total : data[i] # "nul"
  BY <1>4 DEF FirstNul
<1>7. one # 0 => /\ two \in Nat
                 /\ two # 0 => /\ two \in (one + 1)..total /\ data[two] = "nul"
                               /\ \A i \in (one + 1)..(two - 1) : data[i] # "nul"
                 /\ two = 0 => \A i \in (one + 1)..total : data[i] # "nul"
  <2> SUFFICES ASSUME one # 0 PROVE FirstNul(data, one, total, two)
    BY DEF FirstNul
  <2>1. one \in Nat /\ one <= total
    BY <1>1, <1>6
  <2>2. QED
    BY <1>2, <2>1
<1> HIDE DEF two, data
<1>8. \A p : HeaderEndsAt(p) <=>
        /\ p \in HEADER..Len(data) /\ data[1] = "magic"
        /\ \/ data[2] = "plain" /\ p = HEADER
           \/ data[2] = "one" /\ Nuls(p) = {p}
           \/ data[2] = "two" /\ \E q \in Nuls(p) : q # p /\ Nuls(p) = {q, p}
  BY Zenon DEF HeaderEndsAt, data
<1>9. ASSUME start # 0 PROVE HeaderEndsAt(start)
  <2>1. data[1] = "magic"
    BY <1>3, <1>5, <1>9
  <2>2. CASE data[2] = "plain"
    <3>1. start = HEADER
      BY <1>3, <1>5, <1>9, <2>2
    <3>2. QED
      BY <1>1, <1>8, <2>1, <2>2, <3>1
  <2>3. CASE data[2] = "one"
    <3>1. start = one /\ one # 0
      BY <1>3, <1>5, <1>9, <2>3
    <3>2. Nuls(one) = {one} /\ one \in HEADER..Len(data)
      BY <1>1, <1>6, <3>1
    <3>3. QED
      BY <1>8, <2>1, <2>3, <3>1, <3>2, Zenon
  <2>4. CASE data[2] = "two"
    <3>1. start = two /\ one # 0 /\ two # 0
      BY <1>3, <1>5, <1>9, <2>4
    <3>2. one # two /\ one \in Nuls(two) /\ two \in HEADER..Len(data)
      BY <1>1, <1>6, <1>7, <3>1
    <3>3. Nuls(two) = {one, two}
      <4>1. ASSUME NEW i \in Nuls(two) PROVE i \in {one, two}
        BY <1>1, <1>6, <1>7, <3>1
      <4>2. two \in Nuls(two)
        <5>1. two \in (one + 1)..total /\ data[two] = "nul" /\ one >= HEADER + 1
          BY <1>6, <1>7, <3>1
        <5>2. two \in (HEADER + 1)..two
          BY <1>1, <1>6, <5>1
        <5>3. QED
          BY <5>1, <5>2
      <4>3. QED
        BY <3>2, <4>1, <4>2
    <3>4. QED
      BY <1>8, <2>1, <2>4, <3>1, <3>2, <3>3, Zenon
  <2>5. QED
    BY <1>3, <1>5, <1>9, <2>2, <2>3, <2>4
<1>10. ASSUME start = 0, NEW p \in HEADER..total, HeaderEndsAt(p) PROVE FALSE
  <2>1. /\ p \in HEADER..Len(data) /\ data[1] = "magic"
        /\ \/ data[2] = "plain" /\ p = HEADER
           \/ data[2] = "one" /\ Nuls(p) = {p}
           \/ data[2] = "two" /\ \E q \in Nuls(p) : q # p /\ Nuls(p) = {q, p}
    BY <1>8, <1>10, Zenon
  <2>2. CASE data[2] = "plain"
    BY <1>1, <1>3, <1>5, <1>10, <2>1, <2>2
  <2>3. p \in Nuls(p) => p \in (HEADER + 1)..total /\ data[p] = "nul"
    BY <1>1, <1>10
  <2>4. CASE data[2] = "one" /\ Nuls(p) = {p}
    <3>1. one = 0
      BY <1>3, <1>5, <1>10, <2>1, <2>4
    <3>2. QED
      BY <1>6, <2>3, <2>4, <3>1
  <2>5. CASE data[2] = "two" /\ \E q \in Nuls(p) : q # p /\ Nuls(p) = {q, p}
    <3>1. PICK q \in Nuls(p) : q # p /\ Nuls(p) = {q, p}
      BY <2>5
    <3>2. p \in (HEADER + 1)..total /\ data[p] = "nul"
      BY <2>3, <3>1
    <3>3. q \in (HEADER + 1)..total /\ data[q] = "nul"
      BY <1>1, <1>10, <3>1
    <3>4. one # 0 /\ two = 0
      <4>1. one # 0
        BY <1>6, <3>2
      <4>2. QED
        BY <1>3, <1>5, <1>10, <2>1, <2>5, <4>1
    <3>5. p = one /\ q = one
      BY <1>1, <1>6, <1>7, <3>2, <3>3, <3>4
    <3>6. QED
      BY <3>1, <3>5
  <2>6. QED
    BY <2>1, <2>2, <2>4, <2>5
<1>11. QED
  BY <1>9, <1>10

\* What a reader finds: the bytes that were written, and anything elsewhere.
LEMMA FoundOf ==
  ASSUME NEW bytes, NEW total \in Nat, NEW found \in Found(bytes, total)
  PROVE  /\ \A i \in DOMAIN bytes : bytes[i] \in ByteKinds => found[i] = bytes[i]
         /\ \A k \in Nat : bytes \in [1..k -> Cells] /\ total <= k /\ HEADER <= k
                              => found \in [1..k -> Cells]
<1> DEFINE N == IF total < HEADER THEN HEADER ELSE total
           unknown == {i \in 1..N : i \notin DOMAIN bytes \/ bytes[i] = "none"}
<1>1. PICK any \in [unknown -> Unwritten] :
          found = [i \in DOMAIN bytes \cup unknown |->
                      IF i \in unknown THEN any[i] ELSE bytes[i]]
  BY Zenon DEF Found
<1>2. ASSUME NEW i \in DOMAIN bytes, bytes[i] \in ByteKinds PROVE found[i] = bytes[i]
  <2>1. i \notin unknown
    <3>1. "none" \notin ByteKinds
      BY DEF ByteKinds
    <3>2. QED
      BY <1>2, <3>1
  <2> HIDE DEF unknown
  <2>2. QED
    BY <1>1, <2>1
<1>3. ASSUME NEW k \in Nat, bytes \in [1..k -> Cells], total <= k, HEADER <= k
      PROVE  found \in [1..k -> Cells]
  <2>1. unknown \subseteq 1..k /\ DOMAIN bytes = 1..k
    BY <1>3, Constants
  <2>2. \A i \in unknown : any[i] \in Cells
    <3>1. Unwritten \subseteq Cells
      BY Constants DEF Cells
    <3>2. QED
      BY <1>1, <3>1
  <2>3. \A i \in 1..k : bytes[i] \in Cells
    BY <1>3
  <2> HIDE DEF unknown
  <2>4. DOMAIN bytes \cup unknown = 1..k
    BY <2>1
  <2>5. QED
    BY <1>1, <2>2, <2>3, <2>4
<1>4. QED
  BY <1>2, <1>3

LEMMA HeaderState ==
  ASSUME ExtInv, pc = "header"
  PROVE  /\ Typed /\ op = "gunzip" /\ z.open = FALSE /\ z.held = 0 /\ z.given = 0
         /\ dest = <<>> /\ ctx.avail_in = <<>> /\ ctx.in_total = src.read /\ src.read < HEADER
         /\ src.kind = "file" /\ src.read > 0 => src.read = Len(src.data)
         /\ src.kind = "string" => src.read = 0
         /\ ~ctx.split => src.read = 0
         /\ ctx \in Contexts /\ src \in Sources /\ z \in Streams
         /\ src.data \in Seq(ByteKinds) /\ src.data \in Seq(Cells)
         /\ src.read \in Nat /\ src.read <= Len(src.data)
         /\ ctx.in_total \in Nat /\ Len(src.data) \in Nat
<1>1. Typed /\ op = "gunzip" /\ ctx.avail_in = <<>> /\ ~z.open
  BY DEF ExtInv, Staged
<1>2. /\ z.held = 0 /\ z.given = 0 /\ dest = <<>>
      /\ ctx.in_total = src.read /\ src.read < HEADER
      /\ src.kind = "file" /\ src.read > 0 => src.read = Len(src.data)
      /\ src.kind = "string" => src.read = 0
      /\ ~ctx.split => src.read = 0
  BY <1>1 DEF ExtInv, InflateAccounts, HeaderRead, ReadToEnd
<1>3. z.open = FALSE
  BY <1>1, ZFields DEF Typed
<1>4. src.data \in Seq(ByteKinds)
  BY <1>1, ContentsOf DEF Typed
<1>5. QED
  BY <1>1, <1>2, <1>3, <1>4 DEF Typed, Sources, Contexts

LEMMA ParsedKeeps ==
  ASSUME ExtInv, pc = "header", NEW found, NEW total \in Nat, NEW start \in Nat,
         op' = op, dest' = dest,
         ctx' = [ctx EXCEPT !.buf = IF src.kind = "string" THEN @ ELSE found,
                            !.in_total = total, !.in_pos = start],
         pc' = IF start = 0 THEN "badheader" ELSE "leftover",
         z' = [z EXCEPT !.open = start # 0],
         src' \in Sources, src'.data = src.data, src'.kind = src.kind,
         src'.read <= Len(src.data),
         src.kind # "string" => /\ found \in [1..(CHUNK + HEADER) -> Cells]
                                /\ total < CHUNK + HEADER /\ (~ctx.split => total <= CHUNK),
         start <= Len(src.data) \/ CutString,
         start # 0 => HeaderEndsAt(start) \/ CutString \/ ctx.split,
         start = 0 /\ src.kind \in {"string", "file"} =>
            \A p \in HEADER..Len(src.data) : HeaderEndsAt(p) => src.kind = "file" /\ p > CHUNK,
         src.kind = "string" => src'.read = 0,
         src.kind = "file" => /\ total = src'.read /\ total <= CHUNK
                              /\ \A i \in 1..total : found[i] = src.data[i]
                              /\ start <= total
  PROVE  ExtInv'
<1> DEFINE buf == IF src.kind = "string" THEN ctx.buf ELSE found
           up == start # 0
<1>1. /\ Typed /\ op = "gunzip" /\ z.open = FALSE /\ z.held = 0 /\ z.given = 0
      /\ dest = <<>> /\ ctx.avail_in = <<>>
      /\ ctx \in Contexts /\ src \in Sources /\ z \in Streams
      /\ Len(src.data) \in Nat
  BY HeaderState
<1>2. buf \in [1..(CHUNK + HEADER) -> Cells] /\ up \in BOOLEAN
  BY <1>1, CtxFields
<1>3. /\ ctx' = [ctx EXCEPT !.buf = buf, !.in_total = total, !.in_pos = start]
      /\ z' = [z EXCEPT !.open = up]
  OBVIOUS
<1>4. /\ ctx' \in Contexts /\ ctx'.buf = buf /\ ctx'.in_total = total /\ ctx'.in_pos = start
      /\ ctx'.avail_in = ctx.avail_in /\ ctx'.out_pos = ctx.out_pos
      /\ ctx'.out_total = ctx.out_total /\ ctx'.f_gzip_footer = ctx.f_gzip_footer
      /\ ctx'.split = ctx.split
  <2> HIDE DEF buf
  <2>1. total \in Int
    OBVIOUS
  <2>2. QED
    BY <1>1, <1>2, <1>3, <2>1 DEF Contexts
<1>5. z' \in Streams /\ z'.open = up /\ z'.held = 0 /\ z'.given = 0
  <2> HIDE DEF up
  <2>1. QED
    BY <1>1, <1>2, <1>3 DEF Streams
<1>6. CutString' <=> CutString
  BY DEF CutString
<1>7. Typed'
  BY <1>1, <1>2, <1>4, <1>5, <1>6 DEF Typed, Places, Looping
<1>8. Staged'
  BY <1>1, <1>3, <1>4, <1>5 DEF ExtInv, Staged, Ended
<1>9. Totalled'
  BY <1>1, <1>3, <1>4 DEF ExtInv, Totalled
<1>10. ReadToEnd'
  BY <1>3 DEF ReadToEnd
<1>11. DeflateAccounts' /\ FooterLast' /\ ChunksRead'
  BY <1>1 DEF DeflateAccounts, FooterLast, ChunksRead, Compressing
<1>12. InflateAccounts'
  BY <1>1, <1>3, <1>5 DEF InflateAccounts, Looping
<1>13. HeaderRead'
  <2>1. \A p : HeaderEndsAt(p)' <=> HeaderEndsAt(p)
    BY DEF HeaderEndsAt
  <2>2. src.kind = "file" => /\ total = src'.read /\ total <= CHUNK
                             /\ \A i \in 1..total : buf[i] = src.data[i]
                             /\ start <= total
    OBVIOUS
  <2> HIDE DEF buf, up
  <2>3. (HeaderEndsAt(ctx.in_pos) \/ CutString \/ ctx.split)'
           <=> HeaderEndsAt(start) \/ CutString \/ ctx.split
    <3>1. HeaderEndsAt(ctx.in_pos)' <=> HeaderEndsAt(start)
      BY <1>4 DEF HeaderEndsAt
    <3>2. QED
      BY <1>4, <1>6, <3>1
  <2>4. (\A p \in HEADER..Len(src.data) : HeaderEndsAt(p) => src.kind = "file" /\ p > CHUNK)'
           <=> \A p \in HEADER..Len(src.data) : HeaderEndsAt(p) => src.kind = "file" /\ p > CHUNK
    BY <2>1
  <2>5. CASE start = 0
    <3>1. pc' = "badheader"
      BY <2>5
    <3>2. src.kind \in {"string", "file"} =>
             (\A p \in HEADER..Len(src.data) :
                 HeaderEndsAt(p) => src.kind = "file" /\ p > CHUNK)'
      BY <2>4, <2>5
    <3>3. QED
      BY <3>1, <3>2 DEF HeaderRead, Looping
  <2>6. CASE start # 0
    <3>1. pc' = "leftover"
      BY <2>6
    <3>2. (HeaderEndsAt(ctx.in_pos) \/ CutString \/ ctx.split)'
      BY <2>3, <2>6
    <3>3. QED
      BY <1>4, <2>2, <3>1, <3>2 DEF HeaderRead, Looping
  <2>7. QED
    BY <2>5, <2>6
<1>14. QED
  BY <1>7, <1>8, <1>9, <1>10, <1>11, <1>12, <1>13 DEF ExtInv

\* A string is looked at whatever its length.
LEMMA StringHeaderKeeps ==
  ASSUME ExtInv, pc = "header", op' = op, dest' = dest, src' = src, src.kind = "string",
         Parsed(src.data, Len(src.data))
  PROVE  ExtInv'
<1> DEFINE N == Len(src.data)
<1>1. /\ Typed /\ op = "gunzip" /\ src.data \in Seq(ByteKinds) /\ N \in Nat
      /\ src.read = 0 /\ src \in Sources
  BY HeaderState
<1>2. PICK found \in Found(src.data, N) :
          /\ ctx' = [ctx EXCEPT !.buf = IF src.kind = "string" THEN @ ELSE found,
                                !.in_total = N, !.in_pos = DataStart(found, N)]
          /\ pc' = IF DataStart(found, N) = 0 THEN "badheader" ELSE "leftover"
          /\ z' = [z EXCEPT !.open = DataStart(found, N) # 0]
  BY Zenon DEF Parsed
<1> DEFINE start == DataStart(found, N)
<1>3. \A i \in 1..N : found[i] = src.data[i]
  <2>1. \A i \in 1..N : i \in DOMAIN src.data /\ src.data[i] \in ByteKinds
    BY <1>1
  <2> DEFINE bytes == src.data
  <2>2. \A i \in DOMAIN bytes : bytes[i] \in ByteKinds => found[i] = bytes[i]
    <3> HIDE DEF bytes
    <3>1. N \in Nat /\ found \in Found(bytes, N)
      BY <1>1, <1>2 DEF bytes
    <3> HIDE DEF N
    <3>2. QED
      BY <3>1, FoundOf
  <2>3. QED
    BY <2>1, <2>2
<1>4. start \in Nat /\ (N >= HEADER => start <= N)
  BY <1>1, StartBound
<1>5. CASE N >= HEADER
  <2>1. /\ start # 0 => HeaderEndsAt(start)
        /\ start = 0 => \A p \in HEADER..N : ~HeaderEndsAt(p)
    <3>1. N <= Len(src.data)
      BY <1>1
    <3>2. QED
      BY <1>1, <1>3, <1>5, <3>1, DataStartOf
  <2>2. start <= Len(src.data)
    BY <1>4, <1>5
  <2>3. src.kind # "file" /\ src' \in Sources /\ src'.data = src.data /\ src'.kind = src.kind
        /\ src'.read = 0 /\ src'.read <= Len(src.data)
    BY <1>1
  <2> HIDE DEF start, N
  <2>4. /\ ctx' = [ctx EXCEPT !.buf = IF src.kind = "string" THEN @ ELSE found,
                              !.in_total = N, !.in_pos = start]
        /\ pc' = (IF start = 0 THEN "badheader" ELSE "leftover")
        /\ z' = [z EXCEPT !.open = start # 0]
    BY <1>2 DEF start
  <2>5. start = 0 /\ src.kind \in {"string", "file"} =>
           \A p \in HEADER..Len(src.data) : HeaderEndsAt(p) => src.kind = "file" /\ p > CHUNK
    BY <2>1 DEF N
  <2>6. QED
    BY <1>1, <1>4, <2>1, <2>2, <2>3, <2>4, <2>5, ParsedKeeps, Zenon
<1>6. CASE ~(N >= HEADER)
  <2>1. CutString /\ HEADER..Len(src.data) = {}
    BY <1>1, <1>6, Constants DEF CutString
  <2>2. src.kind # "file" /\ src' \in Sources /\ src'.data = src.data /\ src'.kind = src.kind
        /\ src'.read = 0 /\ src'.read <= Len(src.data)
    BY <1>1
  <2> HIDE DEF start, N
  <2>3. /\ ctx' = [ctx EXCEPT !.buf = IF src.kind = "string" THEN @ ELSE found,
                              !.in_total = N, !.in_pos = start]
        /\ pc' = (IF start = 0 THEN "badheader" ELSE "leftover")
        /\ z' = [z EXCEPT !.open = start # 0]
    BY <1>2 DEF start
  <2>4. start = 0 /\ src.kind \in {"string", "file"} =>
           \A p \in HEADER..Len(src.data) : HeaderEndsAt(p) => src.kind = "file" /\ p > CHUNK
    BY <2>1
  <2>5. QED
    BY <1>1, <1>4, <2>1, <2>2, <2>3, <2>4, ParsedKeeps, Zenon
<1>7. QED
  BY <1>5, <1>6

\* Of what is read, the first bytes are looked at: those of the source, if they
\* came at once.
LEMMA ReadHeaderKeeps ==
  ASSUME ExtInv, pc = "header", op' = op, dest' = dest, src.kind # "string",
         NEW n \in ReadLengths, n > 0, NEW total, total = ctx.in_total + n, total >= HEADER,
         src' = [src EXCEPT !.read = @ + n], Parsed(read_to_raw_buffer(n), total)
  PROVE  ExtInv'
<1> DEFINE bytes == read_to_raw_buffer(n)
<1>1. /\ Typed /\ op = "gunzip" /\ ctx.in_total = src.read /\ src.read < HEADER
      /\ src.kind = "file" /\ src.read > 0 => src.read = Len(src.data)
      /\ ~ctx.split => src.read = 0
      /\ src \in Sources /\ src.data \in Seq(ByteKinds) /\ src.read \in Nat
      /\ src.read <= Len(src.data) /\ Len(src.data) \in Nat
  BY HeaderState
<1>2. CHUNK \in Nat /\ HEADER \in Nat /\ HEADER < CHUNK
  BY Constants
<1>3. /\ n \in 0..CHUNK /\ src.read + n <= Len(src.data)
      /\ src.kind = "file" /\ n < CHUNK => src.read + n = Len(src.data)
  BY <1>1, ReadsOf
<1>4. /\ bytes \in [1..(CHUNK + HEADER) -> Cells]
      /\ \A i \in 1..n : bytes[i] = src.data[src.read + i]
  BY <1>1, BufferRead
<1>5. n \in Nat /\ total = src.read + n /\ total \in Nat /\ total < CHUNK + HEADER
      /\ (~ctx.split => total <= CHUNK) /\ total <= Len(src.data)
  BY <1>1, <1>2, <1>3
<1>6. /\ src' \in Sources /\ src'.data = src.data /\ src'.kind = src.kind
      /\ src'.read = total /\ src'.read <= Len(src.data)
  BY <1>1, <1>5 DEF Sources
<1> HIDE DEF bytes
<1>7. PICK found \in Found(bytes, total) :
          /\ ctx' = [ctx EXCEPT !.buf = IF src.kind = "string" THEN @ ELSE found,
                                !.in_total = total, !.in_pos = DataStart(found, total)]
          /\ pc' = IF DataStart(found, total) = 0 THEN "badheader" ELSE "leftover"
          /\ z' = [z EXCEPT !.open = DataStart(found, total) # 0]
  BY Zenon DEF Parsed, bytes
<1> DEFINE start == DataStart(found, total)
<1>8. start \in Nat /\ start <= total
  BY <1>5, StartBound
<1>9. /\ found \in [1..(CHUNK + HEADER) -> Cells]
      /\ \A i \in DOMAIN bytes : bytes[i] \in ByteKinds => found[i] = bytes[i]
  <2> DEFINE k == CHUNK + HEADER
  <2>1. k \in Nat /\ total <= k /\ HEADER <= k /\ bytes \in [1..k -> Cells]
    BY <1>2, <1>4, <1>5
  <2> HIDE DEF k
  <2>2. QED
    BY <1>5, <1>7, <2>1, FoundOf DEF k
<1>10. src.read = 0 => total = n /\ \A i \in 1..total : found[i] = src.data[i]
  <2> SUFFICES ASSUME src.read = 0, NEW i \in 1..n PROVE found[i] = src.data[i]
    BY <1>5
  <2>1. i \in DOMAIN bytes /\ src.read + i = i /\ i \in 1..Len(src.data)
    BY <1>1, <1>2, <1>3, <1>4
  <2>2. bytes[i] = src.data[i] /\ src.data[i] \in ByteKinds
    BY <1>1, <1>4, <2>1
  <2>3. QED
    BY <1>9, <2>1, <2>2
<1>11. src.read = 0 => /\ start # 0 => HeaderEndsAt(start)
                       /\ start = 0 => \A p \in HEADER..total : ~HeaderEndsAt(p)
  <2> SUFFICES ASSUME src.read = 0
               PROVE  /\ start # 0 => HeaderEndsAt(start)
                      /\ start = 0 => \A p \in HEADER..total : ~HeaderEndsAt(p)
    OBVIOUS
  <2>1. \A i \in 1..total : found[i] = src.data[i]
    BY <1>10
  <2>2. QED
    BY <1>1, <1>5, <2>1, DataStartOf, Zenon
<1> HIDE DEF start
<1>12. src.kind = "file" => src.read = 0
  BY <1>1, <1>3, <1>5
<1>13. start <= Len(src.data)
  BY <1>1, <1>5, <1>8
<1>14. start # 0 => HeaderEndsAt(start) \/ CutString \/ ctx.split
  BY <1>1, <1>11
<1>15. start = 0 /\ src.kind \in {"string", "file"} =>
          \A p \in HEADER..Len(src.data) : HeaderEndsAt(p) => src.kind = "file" /\ p > CHUNK
  <2> SUFFICES ASSUME start = 0, src.kind = "file", NEW p \in HEADER..Len(src.data),
                      HeaderEndsAt(p)
               PROVE  p > CHUNK
    OBVIOUS
  <2>1. total = n /\ ~(p \in HEADER..total)
    BY <1>10, <1>11, <1>12
  <2>2. p > n /\ p \in Nat
    BY <1>2, <1>3, <2>1
  <2>3. n = CHUNK
    BY <1>1, <1>2, <1>3, <1>12, <2>2
  <2>4. QED
    BY <2>2, <2>3
<1>16. src.kind = "file" => /\ total = src'.read /\ total <= CHUNK
                            /\ \A i \in 1..total : found[i] = src.data[i]
                            /\ start <= total
  BY <1>2, <1>3, <1>6, <1>8, <1>10, <1>12
<1>17. /\ ctx' = [ctx EXCEPT !.buf = IF src.kind = "string" THEN @ ELSE found,
                             !.in_total = total, !.in_pos = start]
       /\ pc' = (IF start = 0 THEN "badheader" ELSE "leftover")
       /\ z' = [z EXCEPT !.open = start # 0]
  BY <1>7 DEF start
<1>18. QED
  BY <1>5, <1>6, <1>8, <1>9, <1>13, <1>14, <1>15, <1>16, <1>17, ParsedKeeps, Zenon

LEMMA HeaderKeeps ==
  ASSUME ExtInv, gzip_read_header
  PROVE  ExtInv'
<1>1. pc = "header" /\ op' = op /\ dest' = dest
  BY Zenon DEF gzip_read_header
<1>2. /\ Typed /\ op = "gunzip" /\ z.open = FALSE /\ z.held = 0 /\ z.given = 0
      /\ dest = <<>> /\ ctx.avail_in = <<>> /\ ctx.in_total = src.read /\ src.read < HEADER
      /\ src.kind = "file" /\ src.read > 0 => src.read = Len(src.data)
      /\ ctx \in Contexts /\ src \in Sources /\ z \in Streams
      /\ src.data \in Seq(Cells) /\ src.read \in Nat /\ src.read <= Len(src.data)
      /\ ctx.in_total \in Nat /\ Len(src.data) \in Nat
  BY <1>1, HeaderState
<1>3. CHUNK \in Nat /\ HEADER \in Nat /\ HEADER >= 2 /\ HEADER < CHUNK
  BY Constants
<1>4. CASE src.kind = "string" /\ Parsed(src.data, Len(src.data)) /\ UNCHANGED src
  BY <1>1, <1>4, StringHeaderKeeps
<1>5. CASE EndOfFile /\ Leave("raised") /\ UNCHANGED <<src, ctx>>
  <2>1. UNCHANGED <<op, src, ctx, dest>>
    BY <1>1, <1>5
  <2>2. pc \in {"header", "read", "drain", "write", "flush", "in", "size", "out"}
    BY <1>1
  <2>3. QED
    BY <1>5, <2>1, <2>2, RaiseKeeps
<1>6. ASSUME NEW n \in ReadLengths, src.kind # "string", src' = [src EXCEPT !.read = @ + n],
             \/ n = 0 /\ pc' = "badheader" /\ UNCHANGED <<ctx, z>>
             \/ /\ n > 0 /\ ctx.in_total + n < HEADER
                /\ ctx' = [ctx EXCEPT !.in_total = ctx.in_total + n,
                                      !.buf = read_to_raw_buffer(n), !.split = TRUE]
                /\ UNCHANGED <<pc, z>>
             \/ n > 0 /\ ctx.in_total + n >= HEADER
                /\ Parsed(read_to_raw_buffer(n), ctx.in_total + n)
      PROVE  ExtInv'
  <2> DEFINE bytes == read_to_raw_buffer(n)
             total == ctx.in_total + n
  <2>1. /\ n \in 0..CHUNK /\ src.read + n <= Len(src.data)
        /\ n = 0 => src.read = Len(src.data)
        /\ src.kind = "file" /\ n < CHUNK => src.read + n = Len(src.data)
    BY <1>2, ReadsOf
  <2>2. bytes \in [1..(CHUNK + HEADER) -> Cells]
    BY <1>2, BufferRead
  <2>3. n \in Nat /\ total = src.read + n /\ total \in Nat
    BY <1>2, <1>3, <2>1
  <2>4. /\ src' \in Sources /\ src'.data = src.data /\ src'.kind = src.kind
        /\ src'.read = total
    BY <1>2, <1>6, <2>3 DEF Sources
  <2>5. CASE n > 0 /\ total >= HEADER /\ Parsed(bytes, total)
    BY <1>1, <1>6, <2>5, ReadHeaderKeeps, Zenon
  <2> HIDE DEF bytes, total
  <2>6. CutString' <=> CutString
    BY <1>1, <2>4 DEF CutString
  <2>7. CASE n = 0 /\ pc' = "badheader" /\ UNCHANGED <<ctx, z>>
    <3>1. src'.read = src.read /\ Len(src.data) < HEADER
      BY <1>2, <2>1, <2>3, <2>4, <2>7
    <3>2. Typed'
      BY <1>1, <1>2, <2>4, <2>6, <2>7, <3>1 DEF Typed, Places
    <3>3. Staged'
      BY <1>1, <1>2, <2>7 DEF ExtInv, Staged, Ended
    <3>4. Totalled'
      BY <1>1, <1>2, <2>7 DEF ExtInv, Totalled
    <3>5. ReadToEnd'
      BY <2>7 DEF ReadToEnd
    <3>6. DeflateAccounts' /\ FooterLast' /\ ChunksRead'
      BY <1>1, <1>2 DEF DeflateAccounts, FooterLast, ChunksRead, Compressing
    <3>7. InflateAccounts'
      BY <1>1, <1>2, <2>7 DEF InflateAccounts, Looping
    <3>8. HeaderRead'
      <4>1. \A p \in HEADER..Len(src'.data) : FALSE
        BY <1>2, <1>3, <2>4, <3>1
      <4>2. pc' = "badheader"
        BY <2>7
      <4>3. QED
        BY <4>1, <4>2 DEF HeaderRead, Looping
    <3>9. QED
      BY <3>2, <3>3, <3>4, <3>5, <3>6, <3>7, <3>8 DEF ExtInv
  <2>8. CASE /\ n > 0 /\ total < HEADER
             /\ ctx' = [ctx EXCEPT !.in_total = total, !.buf = bytes, !.split = TRUE]
             /\ UNCHANGED <<pc, z>>
    <3>1. /\ ctx' \in Contexts /\ ctx'.in_total = total
          /\ ctx'.in_pos = ctx.in_pos /\ ctx'.split
          /\ ctx'.avail_in = ctx.avail_in /\ ctx'.out_pos = ctx.out_pos
          /\ ctx'.out_total = ctx.out_total /\ ctx'.f_gzip_footer = ctx.f_gzip_footer
      <4>1. total \in Int /\ TRUE \in BOOLEAN
        BY <2>3
      <4>2. QED
        BY <1>2, <2>2, <2>8, <4>1 DEF Contexts
    <3>2. Typed'
      <4>1. total <= Len(src.data)
        BY <2>1, <2>3
      <4>2. QED
        BY <1>1, <1>2, <2>4, <2>6, <2>8, <3>1, <4>1 DEF Typed
    <3>3. Staged'
      BY <1>1, <1>2, <2>8, <3>1 DEF ExtInv, Staged, Ended
    <3>4. Totalled'
      BY <1>1, <1>2, <2>8, <3>1 DEF ExtInv, Totalled
    <3>5. ReadToEnd'
      BY <1>1, <1>6, <2>4, <2>8 DEF ReadToEnd
    <3>6. DeflateAccounts' /\ FooterLast' /\ ChunksRead'
      BY <1>1, <1>2 DEF DeflateAccounts, FooterLast, ChunksRead, Compressing
    <3>7. InflateAccounts'
      BY <1>1, <1>2, <2>8, <3>1 DEF InflateAccounts, Looping
    <3>8. HeaderRead'
      <4>1. src.kind = "file" => total = Len(src.data)
        BY <1>2, <1>3, <2>1, <2>3, <2>8
      <4>2. pc' = "header"
        BY <1>1, <2>8
      <4>3. QED
        BY <2>4, <2>8, <3>1, <4>1, <4>2 DEF HeaderRead, Looping
    <3>9. QED
      BY <3>2, <3>3, <3>4, <3>5, <3>6, <3>7, <3>8 DEF ExtInv
  <2>9. QED
    BY <1>6, <2>5, <2>7, <2>8, Zenon DEF bytes, total
<1>7. QED
  <2>1. CASE /\ src.kind # "string" /\ ~EndOfFile
             /\ \E n \in ReadLengths :
                   LET total == ctx.in_total + n
                       bytes == read_to_raw_buffer(n)
                   IN  /\ src' = [src EXCEPT !.read = @ + n]
                       /\ \/ n = 0 /\ pc' = "badheader" /\ UNCHANGED <<ctx, z>>
                          \/ /\ n > 0 /\ total < HEADER
                             /\ ctx' = [ctx EXCEPT !.in_total = total, !.buf = bytes,
                                                   !.split = TRUE]
                             /\ UNCHANGED <<pc, z>>
                          \/ n > 0 /\ total >= HEADER /\ Parsed(bytes, total)
    BY <2>1, <1>6, Zenon
  <2>2. QED
    BY <1>4, <1>5, <2>1, Zenon DEF gzip_read_header

LEMMA NextKeeps ==
  ASSUME ExtInv, [Next]_vars
  PROVE  ExtInv'
<1>1. CASE gzip_read_header
  BY <1>1, HeaderKeeps
<1>2. CASE Leftover
  BY <1>2, LeftoverKeeps
<1>3. CASE ReadMore
  BY <1>3, ReadMoreKeeps
<1>4. CASE WriteOut
  <2>1. Typed
    BY DEF ExtInv
  <2>2. Emits(pc = "write" /\ ctx.eof)
    BY <1>4, <2>1, WriteOutEmits, Zenon
  <2>3. (pc = "write" /\ ctx.eof) \in BOOLEAN
    OBVIOUS
  <2>4. QED
    BY <2>2, <2>3, EmitKeeps, Zenon
<1>5. CASE Flush
  <2>1. Emits(TRUE)
    BY <1>5, FlushEmits, Zenon
  <2>2. TRUE \in BOOLEAN
    OBVIOUS
  <2>3. QED
    BY <2>1, <2>2, EmitKeeps, Zenon
<1>6. CASE Cleanup
  BY <1>6, CleanupKeeps
<1>7. CASE SpliceIn
  BY <1>7, SpliceInKeeps
<1>8. CASE WriteSize
  BY <1>8, WriteSizeKeeps
<1>9. CASE SpliceOut
  BY <1>9, SpliceOutKeeps
<1>10. CASE Interrupted
  <2>1. /\ pc \in {"header", "read", "drain", "write", "flush", "in", "size", "out"}
        /\ Leave("raised") /\ UNCHANGED <<op, src, ctx, dest>>
    BY <1>10 DEF Interrupted
  <2>2. QED
    BY <2>1, RaiseKeeps
<1>11. CASE UNCHANGED vars
  BY <1>11, StutterKeeps
<1>12. QED
  BY <1>1, <1>2, <1>3, <1>4, <1>5, <1>6, <1>7, <1>8, <1>9, <1>10, <1>11 DEF Next

LEMMA ExtInvariant == Spec => []ExtInv
<1>1. Init => ExtInv
  BY InitInv
<1>2. ExtInv /\ [Next]_vars => ExtInv'
  BY NextKeeps
<1>3. QED
  BY <1>1, <1>2, PTL DEF Spec

----------------------------------------------------------------------------
(* What follows *)

\* Whatever gunzip is given, the header, the footer and what zlib gives always
\* fit in the output buffer, and the positions stay in the input, but for a
\* string that is cut off in its header and for a header that comes in several
\* reads, after which in_total may pass the buffer by HEADER - 1 bytes.  The
\* number that z_stream_io_loop returns is the number of bytes that were
\* written, and zlib's memory is freed on every way out of it.
THEOREM BuffersHold == Spec => []WellFormed
<1>1. ExtInv => WellFormed
  <2> SUFFICES ASSUME ExtInv PROVE WellFormed
    OBVIOUS
  <2>1. /\ ctx \in Contexts /\ src \in Sources /\ dest \in Seq(WrittenPieces)
        /\ src.read <= Len(src.data) /\ (ctx.in_pos <= Len(src.data) \/ CutString)
        /\ Len(src.data) \in Nat
    BY DEF ExtInv, Typed, Sources
  <2>2. /\ ctx.out_len \in 0..CHUNK /\ ctx.out_pos \in 0..CHUNK /\ ctx.avail_out \in 0..CHUNK
        /\ ctx.buf \in [1..(CHUNK + HEADER) -> Cells] /\ ctx.out_total \in Nat
    BY <2>1, CtxFields
  <2>3. ctx.buf \in Seq(Cells) /\ Len(ctx.buf) = CHUNK + HEADER
    BY <2>2, Constants
  <2> DEFINE more == IF ctx.split THEN HEADER ELSE 1
  <2>10. ctx.in_pos \in 0..Len(src.data) \/ CutString
    BY <2>1, CtxFields
  <2>11. pc = "leftover" /\ src.kind # "string" => ctx.in_total < CHUNK + more
    <3> SUFFICES ASSUME pc = "leftover", src.kind # "string"
                 PROVE  ctx.in_total < CHUNK + more
      OBVIOUS
    <3>1. /\ ctx.in_total \in Nat /\ ctx.in_total < CHUNK + HEADER
          /\ ~ctx.split => ctx.in_total <= CHUNK
      BY DEF ExtInv, Staged, HeaderRead
    <3>2. QED
      BY <3>1, Constants
  <2>4. src.read \in 0..Len(src.data)
    BY <2>1 DEF Sources
  <2>5. ASSUME NEW i \in DOMAIN dest PROVE dest[i].n \in 1..CHUNK
    <3>1. dest[i] \in WrittenPieces
      BY <2>1
    <3>2. QED
      BY <3>1 DEF WrittenPieces
  <2>6. TypeOK
    BY <2>2, <2>3, <2>4, <2>5, <2>10, <2>11 DEF TypeOK, Cells
  <2>7. OutTotalExact
    <3> SUFFICES ASSUME pc = "done", op # "chunked" PROVE ctx.out_total = Bytes(Kept, dest)
      BY DEF OutTotalExact
    <3>1. ctx.out_total = Bytes(Kept, dest) + 0
      BY DEF ExtInv, Totalled
    <3>2. Bytes(Kept, dest) \in Nat
      <4>1. "body" \in PieceKinds /\ 0 \in 0..CHUNK
        BY Constants DEF PieceKinds
      <4>2. QED
        BY <2>1, <4>1, WriteAdds DEF Grown
    <3>3. QED
      BY <3>1, <3>2
  <2>8. ZlibIsFreed
    BY DEF ExtInv, Staged, ZlibIsFreed
  <2>9. QED
    BY <2>6, <2>7, <2>8 DEF WellFormed
<1>2. QED
  BY <1>1, ExtInvariant, PTL

\* A gzip footer is written once and last, after all that zlib had to give,
\* and tells the length of what was compressed.
THEOREM FooterSealsFile == Spec => []FooterSeals
<1>1. ExtInv => FooterSeals
  <2> DEFINE footers == {i \in DOMAIN dest : dest[i].what = "footer"}
  <2> SUFFICES ASSUME ExtInv, op = "gzip", footers # {}
               PROVE  /\ footers = {Len(dest)} /\ Last(dest) = Piece("footer", FOOTER)
                      /\ z.finished /\ z.held = 0 /\ ctx.isize = z.given
                      /\ Bytes({"body"}, dest) = z.given + Trailer
                      /\ Head(dest).what = "header"
    BY Zenon DEF FooterSeals
  <2>1. pc \in {"cleanup", "done"} /\ ctx.avail_out >= FOOTER /\ Sealed
    <3>1. ~NoFooter
      BY DEF NoFooter
    <3>2. QED
      BY <3>1 DEF ExtInv, FooterLast
  <2>2. Compressing /\ dest \in Seq(WrittenPieces) /\ z \in Streams
    BY DEF Compressing, ExtInv, Typed
  <2>3. /\ Bytes({"body"}, dest) + z.held = z.given + (IF z.finished THEN Trailer ELSE 0)
        /\ z.finished /\ z.held = 0
    BY <2>1, <2>2 DEF ExtInv, DeflateAccounts
  <2>4. Bytes({"body"}, dest) \in Nat
    <3>1. "body" \in PieceKinds /\ 0 \in 0..CHUNK
      BY Constants DEF PieceKinds
    <3>2. QED
      BY <2>2, <3>1, WriteAdds DEF Grown
  <2>5. Bytes({"body"}, dest) = z.given + Trailer
    <3>1. Bytes({"body"}, dest) + 0 = z.given + Trailer
      BY <2>3
    <3>2. QED
      BY <2>4, <3>1
  <2>6. /\ dest # <<>> /\ dest[Len(dest)] = Piece("footer", FOOTER) /\ ctx.isize = z.given
        /\ \A i \in DOMAIN dest : dest[i].what = "footer" => i = Len(dest)
    BY <2>1 DEF Sealed
  <2>7. footers = {Len(dest)}
    BY <2>6
  <2>8. Last(dest) = Piece("footer", FOOTER)
    BY <2>6 DEF Last
  <2>9. Head(dest).what = "header"
    <3>1. dest[1].what = "header"
      BY <2>6 DEF ExtInv, Totalled
    <3>2. Head(dest) = dest[1]
      BY <2>2, <2>6
    <3>3. QED
      BY <3>1, <3>2
  <2>10. QED
    BY <2>3, <2>5, <2>6, <2>7, <2>8, <2>9
<1>2. QED
  BY <1>1, ExtInvariant, PTL

LEMMA AllIsData ==
  ASSUME NEW data \in Seq(Cells), \A i \in 1..Len(data) : data[i] = "data"
  PROVE  DataIn(data) = Len(data)
<1>1. {i \in DOMAIN data : data[i] = "data"} = 1..Len(data) /\ Len(data) \in Nat
  OBVIOUS
<1>2. Cardinality(1..Len(data)) = Len(data)
  <2>1. 1 \in Int /\ Len(data) \in Int /\ (1 > Len(data) => Len(data) = 0)
        /\ (1 <= Len(data) => Len(data) - 1 + 1 = Len(data))
    BY <1>1
  <2>2. Cardinality(1..Len(data)) = IF 1 > Len(data) THEN 0 ELSE Len(data) - 1 + 1
    BY <2>1, FS_Interval
  <2>3. QED
    BY <1>1, <2>1, <2>2
<1>3. QED
  BY <1>1, <1>2 DEF DataIn

\* What SubSeq gives up to the end: the cells behind the first a.
LEMMA TailCells ==
    ASSUME NEW data \in Seq(Cells), NEW a \in Nat, NEW N \in Nat, a <= N, N <= Len(data)
    PROVE  /\ SubSeq(data, a + 1, N) \in Seq(Cells)
           /\ Len(SubSeq(data, a + 1, N)) = N - a
           /\ \A i \in 1..(N - a) : SubSeq(data, a + 1, N)[i] = data[a + i]
<1>1. SubSeq(data, a + 1, N) \in Seq(Cells)
  OBVIOUS
<1>2. Len(SubSeq(data, a + 1, N)) = N - a
  OBVIOUS
<1>3. ASSUME NEW i \in 1..(N - a) PROVE SubSeq(data, a + 1, N)[i] = data[a + i]
  BY <1>3
<1>4. QED
  BY <1>1, <1>2, <1>3

\* gunzip and inflate give out all the data of a string or a file that is
\* behind its header, gzip and deflate take all of it, unless the output buffer
\* ends the file early; a string cut off in its gzip header is exempt.
THEOREM SourceIsWhole == Spec => []WholeSource
<1>1. ExtInv => WholeSource
  <2> SUFFICES ASSUME ExtInv, pc = "done", src.kind \in {"string", "file"}, ~CutString,
                      Compressing => ctx.avail_out >= FOOTER
               PROVE  /\ src.read = Len(src.data) /\ z.given >= DataBytes /\ z.held = 0
                      /\ ~Compressing => Bytes(Kept, dest) = Ratio * DataBytes
                      /\ op = "gzip" => Bytes({"footer"}, dest) = FOOTER
    BY DEF WholeSource
  <2>1. src.read = Len(src.data) /\ ctx.avail_in = <<>> /\ op # "chunked" /\ op \in Ops
    BY DEF ExtInv, ReadToEnd, Staged, ChunksRead, Typed
  <2>2. /\ src.data \in Seq(Cells) /\ Len(src.data) \in Nat /\ z.given \in Nat
        /\ z.held \in Nat /\ ctx.in_pos \in Nat /\ ctx.in_pos <= Len(src.data)
        /\ Len(ctx.avail_in) = 0 /\ dest \in Seq(WrittenPieces)
    BY <2>1, CtxFields, ZFields DEF ExtInv, Typed, Sources, CutString
  <2> DEFINE part == SubSeq(src.data, ctx.in_pos + 1, Len(src.data))
  <2>3. /\ DataBytes = DataIn(part) /\ DataBytes \in Nat
        /\ DataBytes <= Len(src.data) - ctx.in_pos
        /\ DataUpTo(src.data, Len(src.data)) = DataUpTo(src.data, ctx.in_pos) + DataBytes
        /\ DataUpTo(src.data, ctx.in_pos) \in Nat
    <3> DEFINE data == src.data
               a == ctx.in_pos
               n == Len(data) - a
               rest == SubSeq(data, a + 1, Len(data))
    <3>1. data \in Seq(Cells) /\ a \in Nat /\ n \in Nat /\ a + n = Len(data)
          /\ Len(data) \in Nat /\ a <= Len(data)
      BY <2>2
    <3> HIDE DEF data, a
    <3>2. rest \in Seq(Cells) /\ Len(rest) = n /\ \A i \in 1..n : rest[i] = data[a + i]
      <4> DEFINE N == Len(data)
                 tail == SubSeq(data, a + 1, N)
      <4>1. N \in Nat /\ a <= N /\ N <= Len(data)
        BY <3>1
      <4> HIDE DEF N
      <4>2. tail \in Seq(Cells) /\ Len(tail) = N - a /\ \A i \in 1..(N - a) : tail[i] = data[a + i]
        BY <3>1, <4>1, TailCells, Zenon
      <4> HIDE DEF tail
      <4>3. n = N - a /\ rest = tail
        BY DEF N, tail
      <4>4. QED
        BY <4>2, <4>3
    <3> HIDE DEF n, rest
    <3>3. DataUpTo(data, a + n) = DataUpTo(data, a) + DataIn(rest)
      <4>1. a + n <= Len(data)
        BY <3>1
      <4>2. QED
        BY <3>1, <3>2, <4>1, DataSplit
    <3>4. DataIn(rest) \in Nat /\ DataIn(rest) <= n /\ DataUpTo(data, a) \in Nat
      BY <3>1, <3>2, DataInIs, DataFinite
    <3>5. DataBytes = DataIn(rest)
      BY Zenon DEF DataBytes, rest, data, a
    <3>6. QED
      BY <3>1, <3>3, <3>4, <3>5 DEF data, a, n, rest
  <2> HIDE DEF part
  <2>4. CASE Compressing
    <3>1. /\ ctx.in_total = z.given + Len(ctx.avail_in) /\ ctx.in_total = src.read
          /\ z.held = 0
      BY <2>4 DEF ExtInv, DeflateAccounts
    <3>2. z.given = Len(src.data)
      BY <2>1, <2>2, <3>1
    <3>3. op = "gzip" => Bytes({"footer"}, dest) = FOOTER
      BY <2>4 DEF ExtInv, FooterLast, Sealed
    <3>4. z.given >= DataBytes
      BY <2>2, <2>3, <3>2
    <3>5. QED
      BY <2>1, <2>4, <3>1, <3>3, <3>4
  <2>5. CASE ~Compressing
    <3>1. op \in {"gunzip", "inflate"}
      BY <2>1, <2>5 DEF Compressing, Ops
    <3>2. /\ z.held = 0
          /\ Bytes(Kept, dest) + z.held + Ratio * DataIn(ctx.avail_in)
                + Ratio * DataUpTo(src.data, ctx.in_pos) = Ratio * DataUpTo(src.data, src.read)
          /\ z.given + Len(ctx.avail_in) + ctx.in_pos >= src.read
      BY <3>1 DEF ExtInv, InflateAccounts, Looping, Passed
    <3>3. Bytes(Kept, dest) \in Nat
      <4>1. "body" \in PieceKinds /\ 0 \in 0..CHUNK
        BY Constants DEF PieceKinds
      <4>2. QED
        BY <2>2, <4>1, WriteAdds DEF Grown
    <3>4. Ratio * DataIn(ctx.avail_in) = 0
      <4>1. <<>> \in Seq(Cells)
        OBVIOUS
      <4>2. DataIn(<<>>) = 0
        BY <4>1, DataInIs
      <4>3. QED
        BY <2>1, <4>2, Constants
    <3>5. Bytes(Kept, dest) = Ratio * DataBytes
      <4> DEFINE c == DataUpTo(src.data, ctx.in_pos)
                 d == DataBytes
                 w == Bytes(Kept, dest)
      <4>1. w + 0 + 0 + Ratio * c = Ratio * DataUpTo(src.data, Len(src.data))
        BY <2>1, <3>2, <3>4
      <4>2. c \in Nat /\ d \in Nat /\ w \in Nat /\ Ratio \in Nat
            /\ DataUpTo(src.data, Len(src.data)) = c + d
        BY <2>3, <3>3, Constants
      <4> HIDE DEF c, d, w
      <4>3. w + Ratio * c = Ratio * (c + d)
        BY <4>1, <4>2
      <4>4. Ratio * (c + d) = Ratio * c + Ratio * d /\ Ratio * c \in Nat /\ Ratio * d \in Nat
        BY <4>2
      <4>5. w = Ratio * d
        BY <4>2, <4>3, <4>4
      <4>6. QED
        BY <4>5 DEF d, w
    <3>7. z.given >= DataBytes
      <4> DEFINE g == z.given
                 N == Len(src.data)
                 a == ctx.in_pos
                 d == DataBytes
      <4>1. /\ g \in Nat /\ N \in Nat /\ a \in Nat /\ d \in Nat
            /\ g + 0 + a >= N /\ d <= N - a
        BY <2>1, <2>2, <2>3, <3>2
      <4> HIDE DEF g, N, a, d
      <4>2. g >= d
        BY <4>1
      <4>3. QED
        BY <4>2 DEF g, d
    <3>8. QED
      BY <2>1, <3>1, <3>2, <3>5, <3>7
  <2>6. QED
    BY <2>4, <2>5
<1>2. QED
  BY <1>1, ExtInvariant, PTL

\* Whatever its source, gunzip inflates from right behind a gzip header or not
\* at all, and refuses no string with a header and no file with one in its first
\* CHUNK bytes.  Exempt are a string that is cut off in its header, and a header
\* that comes in several reads, which the code may take for what they are not.
THEOREM HeaderIsUnderstood == Spec => []HeaderUnderstood
<1>1. ExtInv => HeaderUnderstood
  BY DEF ExtInv, HeaderRead, HeaderUnderstood, Looping
<1>2. QED
  BY <1>1, ExtInvariant, PTL

\* What http1_splice_chunked writes is a sequence of closed chunks of the
\* announced lengths, and all of the source when it is done.
THEOREM ChunksAreWellFormed == Spec => []ChunksWellFormed
<1>1. ExtInv => ChunksWellFormed
  <2> SUFFICES ASSUME ExtInv, op = "chunked"
               PROVE  /\ ReadChunks(dest) # -3
                      /\ pc = "done" => /\ ReadChunks(dest) = -2
                                        /\ Bytes({"body"}, dest) = DataBytes
    BY DEF ChunksWellFormed
  <2>1. /\ ReadChunks(dest) # -3
        /\ pc = "done" => /\ ReadChunks(dest) = -2 /\ src.read = Len(src.data)
                          /\ Bytes({"body"}, dest) + 0 = src.read
    BY DEF ExtInv, ChunksRead
  <2>2. src.data \in Contents(op) /\ op \in Ops /\ dest \in Seq(WrittenPieces)
    BY DEF ExtInv, Typed
  <2>3. src.data \in Seq(Cells) /\ \A i \in 1..Len(src.data) : src.data[i] = "data"
    BY <2>2, ContentsOf
  <2>4. DataBytes = Len(src.data)
    <3>1. ctx.in_pos = 0
      BY DEF ExtInv, ChunksRead
    <3>2. SubSeq(src.data, 1, Len(src.data)) = src.data
      BY <2>3
    <3>3. ctx.in_pos + 1 = 1
      BY <3>1
    <3>4. DataBytes = DataIn(src.data)
      BY <3>2, <3>3, Zenon DEF DataBytes
    <3>5. QED
      BY <2>3, <3>4, AllIsData
  <2>5. Bytes({"body"}, dest) \in Nat
    <3>1. "body" \in PieceKinds /\ 0 \in 0..CHUNK
      BY Constants DEF PieceKinds
    <3>2. QED
      BY <2>2, <3>1, WriteAdds DEF Grown
  <2>6. QED
    BY <2>1, <2>4, <2>5
<1>2. QED
  BY <1>1, ExtInvariant, PTL
=============================================================================
