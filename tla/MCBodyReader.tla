---------------------------- MODULE MCBodyReader -----------------------------
(* BodyReader on bodies that are right, and on every body one letter away. *)
EXTENDS BodyReader, FiniteSets

Chunked(bytes) == [chunked |-> TRUE, length |-> 0, bytes |-> bytes]
Fixed(length, bytes) == [chunked |-> FALSE, length |-> length, bytes |-> bytes]

(* Chunk data that looks like the syntax around it.                        *)
Data == <<"1", "CR", "LF", "0", "CR", "LF", "x", "x">>
Chunk(size, from, n) == size \o CRLF \o SubSeq(Data, from, from + n - 1) \o CRLF

Good ==
    {Terminator,
     Chunk(<<"2">>, 1, 2) \o Chunk(<<"0", "2">>, 3, 2) \o Terminator,
     Chunk(<<"4">>, 1, 4) \o Terminator,
     Chunk(<<"4">>, 1, 4) \o Chunk(<<"4">>, 5, 4) \o Terminator}

Small == {b \in Good : Len(b) <= 14}
Letters == {"0", "2", "CR", "LF"}

(* One letter lost, changed or added. *)
OneOff(b) ==
    {SubSeq(b, 1, i - 1) \o SubSeq(b, i + 1, Len(b)) : i \in 1 .. Len(b)}
    \cup {[b EXCEPT ![i] = c] : i \in 1 .. Len(b), c \in Letters}
    \cup {SubSeq(b, 1, i) \o <<c>> \o SubSeq(b, i + 1, Len(b)) : i \in 0 .. Len(b), c \in Letters}

(* A size no int holds, and one that is no number. *)
BadSizes == {Chunk(<<d>>, 1, 2) \o Terminator : d \in {"F", "x"}}

ChunkedInputs == {Chunked(b) : b \in Good \cup BadSizes \cup UNION {OneOff(b) : b \in Small}}

FixedInputs ==
    {Fixed(n, SubSeq(Data, 1, k)) : n \in {-2, -1, 0, 2, 4}, k \in 0 .. 5}

MCInputs == ChunkedInputs \cup FixedInputs
MCLimits == {-2, 3, 7}

(* The requests the run of the known divergence asks about. *)
Uploads == {Chunked(b) : b \in Good} \cup FixedInputs
=============================================================================
