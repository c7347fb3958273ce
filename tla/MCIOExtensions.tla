--------------------------- MODULE MCIOExtensions ---------------------------
(* An instance of IOExtensions: what gunzip is given. *)
EXTENDS IOExtensions

\* A header with 0, 1 or 2 strings of len characters.
Flag(strings) == <<"plain", "one", "two">>[strings + 1]
Header(strings, len) ==
    [i \in 1..HEADER |-> IF i = 1 THEN "magic" ELSE IF i = 2 THEN Flag(strings) ELSE "time"]
    \o [i \in 1..(strings * (len + 1)) |-> IF i % (len + 1) = 0 THEN "nul" ELSE "char"]
GzipFile(strings, len, n) == Header(strings, len) \o Copies("data", n) \o Copies("footer", FOOTER)

\* Files with short strings in the header, and with strings that do not fit into
\* the buffer; sources that end in the header, or have bytes in front of it.
GzipSources ==
    {GzipFile(s, 1, n) : s \in 0..2, n \in 0..MaxData}
    \cup {GzipFile(s, len, 1) : s \in 1..2, len \in {0, CHUNK}}
    \cup UNION {{SubSeq(Header(s, 1), 1, n) : n \in 0..(Len(Header(s, 1)) - 1)} : s \in 0..2}
    \cup {Copies("char", k) \o GzipFile(s, 1, n) : k \in 1..2, s \in 0..2, n \in {0, CHUNK - 1}}
=============================================================================
