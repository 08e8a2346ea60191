----------------------------- MODULE HttpClient -----------------------------
(***************************************************************************)
(* How HttpClient.cpp reads an answer.  SendRequest appends what Receive   *)
(* returns to one buffer until Receive returns nothing, at the end of the  *)
(* answer or at a timeout in the middle of it, and takes the buffer apart  *)
(* afterwards: nothing tells it how much of the answer there is.           *)
(*                                                                         *)
(* A buffer is a sequence of lines (what ends in CRLF in the status line,  *)
(* the headers and between chunks) and of the tokens of the document,      *)
(* which are also the unit of lengths.  It may end in the fragment of a    *)
(* line.                                                                   *)
(***************************************************************************)
EXTENDS Naturals, SequencesExt

\* HttpClient::MAX_REDIRECTS.
MAX_REDIRECTS == 3

Line(kind, value) == [line |-> kind, value |-> value]

Fragment == [mark |-> "fragment"]

IsLine(token) == "line" \in DOMAIN token

-----------------------------------------------------------------------------
(* What a server sends.                                                    *)

\* A page: its status, the header that refers elsewhere, and how the document
\* is sent: with its length, up to the end of the connection, or in chunks of
\* a size.  A server may announce less than it sends.
Encoding == {"length", "close", "chunked"}

IsRedirect(code) == code \in 300 .. 399

ChunkLines(chunk) == <<Line("size", Len(chunk))>> \o chunk \o <<Line("end", 0)>>

Chunks(document, size) ==
    LET from[k \in Nat] ==
            IF k + size > Len(document)
            THEN ChunkLines(SubSeq(document, k, Len(document))) \o ChunkLines(<<>>)
            ELSE ChunkLines(SubSeq(document, k, k + size - 1)) \o from[k + size]
    IN from[1]

Wire(page, document) ==
    <<Line("status", page.code)>>
    \o (IF IsRedirect(page.code) THEN <<Line("Location", page.to)>> ELSE <<>>)
    \o (CASE page.encoding = "length"  -> <<Line("Content-Length", page.size)>>
          [] page.encoding = "chunked" -> <<Line("Transfer-Encoding", "chunked")>>
          [] page.encoding = "close"   -> <<>>)
    \o <<Line("blank", 0)>>
    \o (IF page.encoding = "chunked" THEN Chunks(document, page.size) ELSE document)

\* The document the server means.
Content(page, document) ==
    IF page.encoding = "length" /\ page.size < Len(document)
    THEN SubSeq(document, 1, page.size)
    ELSE document

\* What may have been received of it.
Received(wire) ==
    {SubSeq(wire, 1, k) : k \in 0 .. Len(wire)}
    \cup {Append(SubSeq(wire, 1, k), Fragment) :
            k \in {j \in 0 .. Len(wire) - 1 : IsLine(wire[j + 1])}}

-----------------------------------------------------------------------------
(* SendRequest.                                                            *)

\* The headers end at the blank line, or where GetLine finds no line.
HeadEnd(buffer) ==
    CHOOSE k \in 0 .. Len(buffer) :
        /\ \A j \in 1 .. k - 1 : IsLine(buffer[j]) /\ buffer[j].line # "blank"
        /\ k > 0 => IsLine(buffer[k])
        /\ \/ k > 0 /\ buffer[k].line = "blank"
           \/ k = Len(buffer)
           \/ ~ IsLine(buffer[k + 1])

Headers(buffer, name) ==
    {buffer[k].value :
        k \in {j \in 1 .. HeadEnd(buffer) : buffer[j].line = name}}

\* Fault: the line end behind a chunk is taken for the size of the next.
DecodeAdjacent(buffer) ==
    LET from[k \in 1 .. Len(buffer) + 2] ==
            IF k > Len(buffer) \/ ~ IsLine(buffer[k]) THEN <<>>
            ELSE IF buffer[k].line # "size" THEN <<>>
            ELSE IF buffer[k].value = 0 \/ k + buffer[k].value > Len(buffer)
            THEN <<>>
            ELSE SubSeq(buffer, k + 1, k + buffer[k].value)
                 \o from[k + buffer[k].value + 1]
    IN from[1]

\* Whole chunks, up to the first that is not there as a whole.
DecodeChunks(buffer) ==
    LET from[k \in 1 .. Len(buffer) + 2] ==
            IF k > Len(buffer) \/ ~ IsLine(buffer[k]) THEN <<>>
            ELSE IF buffer[k].line # "size" THEN <<>>
            ELSE IF buffer[k].value = 0 \/ k + buffer[k].value > Len(buffer)
            THEN <<>>
            ELSE SubSeq(buffer, k + 1, k + buffer[k].value)
                 \o from[k + buffer[k].value + 2]
    IN from[1]

\* No more than Content-Length, if it is there; less is taken as it is.
Trim(buffer, lengths) ==
    IF \E n \in lengths : Len(buffer) > n
    THEN SubSeq(buffer, 1, CHOOSE n \in lengths : TRUE)
    ELSE buffer

Body(buffer) ==
    LET rest == SubSeq(buffer, HeadEnd(buffer) + 1, Len(buffer))
    IN IF Headers(buffer, "Transfer-Encoding") # {} THEN DecodeChunks(rest)
       ELSE Trim(rest, Headers(buffer, "Content-Length"))

\* There is a status line; else the client throws.
HasStatus(buffer) == buffer # <<>> /\ IsLine(buffer[1])

\* Where a GET is sent next, if anywhere.
Redirect(buffer) ==
    {to \in Headers(buffer, "Location") : IsRedirect(buffer[1].value)}

\* What comes of the answers to a request that have a status line: where the
\* GET is sent next, or the body; with what the server meant.
Outcomes(page, document) ==
    LET wire == Wire(page, document)
    IN {[to |-> Redirect(buffer), body |-> Body(buffer),
         sent |-> [document |-> Content(page, document), whole |-> buffer = wire]] :
            buffer \in {received \in Received(wire) : HasStatus(received)}}
=============================================================================
