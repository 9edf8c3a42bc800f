--------------------------- MODULE RequestStream ---------------------------
(***************************************************************************)
(* How one connection's bytes become requests (src/http/Request.cpp, and   *)
(* _handleClientRead(), _parseClientRequest() and the Keep-Alive reset of  *)
(* src/core/Server.cpp).  A peer sends messages one after the other without *)
(* waiting for answers; recv() cuts their bytes anywhere, and goes on while *)
(* an earlier request is in service.                                       *)
(*                                                                         *)
(* Bytes are tokens: a header line, the empty line that ends the headers,   *)
(* one unit of body, one line of the multipart envelope, a chunk's size     *)
(* line, the CRLF that ends a chunk.  Every length counts tokens.  A line   *)
(* of which a part has arrived is to the parser as one that has not.        *)
(***************************************************************************)
EXTENDS Naturals, Sequences, FiniteSets, SequencesExt

CONSTANTS
    RECV,     \* what one recv() takes at most (4095 bytes)
    MAXHEAD,  \* MAX_HEADER_BYTES (8192)
    MAXBODY,  \* client_max_body_size of the route, 0 for no limit
    Streams   \* what a peer may send: sequences of messages

\* A message: its body is given as the sizes of the chunks it is sent in.
Message == [method   : {"GET", "POST"},
            valid    : BOOLEAN,          \* request line and Host are as they must be
            lines    : Nat \ {0},        \* lines of its head
            framing  : {"none", "length", "chunked"},
            body     : Seq(Nat \ {0}),
            trailers : Nat,              \* lines behind the last chunk
            form     : BOOLEAN,          \* multipart/form-data
            keep     : BOOLEAN]          \* it asks for the connection to stay

ASSUME LimitsAssumption == RECV \in Nat \ {0} /\ MAXHEAD \in Nat /\ MAXBODY \in Nat

ASSUME StreamsAssumption ==
    \A s \in Streams : s \in Seq(Message) /\ \A k \in DOMAIN s :
        /\ s[k].framing = "none" => s[k].body = <<>>
        /\ s[k].trailers > 0 => s[k].framing = "chunked"
        /\ s[k].method = "GET" => s[k].framing = "none"

VARIABLES
    msgs,    \* the messages of the peer, fixed
    unread,  \* tokens on their way to, or in, the socket's receive buffer
    req,     \* client.req
    phase,   \* what the loop waits for on behalf of the client
    written, \* client.fileBytesWritten
    out,     \* this response: its error, and what was written of the body
    served   \* the responses sent

vars == <<msgs, unread, req, phase, written, out, served>>

-----------------------------------------------------------------------------
(* What a peer puts on the wire *)

Token == [t : {"line", "trailer", "end", "data", "envelope", "size", "crlf"},
          of : Nat, n : Nat]
Tok(t, k, n) == [t |-> t, of |-> k, n |-> n]

\* The units of the body of m, from each of its chunks on.
UnitsFrom(m) ==
    LET units[c \in 1..(Len(m.body) + 1)] ==
          IF c > Len(m.body) THEN 0 ELSE m.body[c] + units[c + 1]
    IN units

Size(m) == UnitsFrom(m)[1]

\* The body of message k of ms; a form's first and last unit are its envelope.
Payload(ms, k) ==
    [n \in 1..Size(ms[k]) |->
        Tok(IF ms[k].form /\ n \in {1, Size(ms[k])} THEN "envelope" ELSE "data", k, n)]

\* The lines behind the last chunk from line n on, and the empty one that ends them.
TrailersOf(ms, k, n) ==
    [j \in 1..(ms[k].trailers + 1 - n) |-> Tok("trailer", k, n + j - 1)] \o <<Tok("end", k, 0)>>

HeadOf(ms, k) == [n \in 1..ms[k].lines |-> Tok("line", k, n)] \o <<Tok("end", k, 0)>>

ChunksOf(ms, k) ==
    LET m == ms[k]
        units == UnitsFrom(m)
        Chunk(c) == <<Tok("size", k, m.body[c])>>
                    \o SubSeq(Payload(ms, k), Size(m) - units[c] + 1, Size(m) - units[c + 1])
                    \o <<Tok("crlf", k, 0)>>
        chunks[c \in 1..(Len(m.body) + 1)] ==
          IF c > Len(m.body) THEN <<Tok("size", k, 0)>> \o TrailersOf(ms, k, 1)
          ELSE Chunk(c) \o chunks[c + 1]
    IN chunks[1]

Encode(ms, k) ==
    HeadOf(ms, k) \o (CASE ms[k].framing = "none"    -> <<>>
                        [] ms[k].framing = "length"  -> Payload(ms, k)
                        [] ms[k].framing = "chunked" -> ChunksOf(ms, k))

\* For each stream: its messages as tokens, and all there is from message k on.
Wire == [ms \in Streams |-> [k \in DOMAIN ms |-> Encode(ms, k)]]
From == [ms \in Streams |->
            LET from[k \in 1..(Len(ms) + 1)] ==
                  IF k > Len(ms) THEN <<>> ELSE Wire[ms][k] \o from[k + 1]
            IN from]

-----------------------------------------------------------------------------
(* class Request *)

NewRequest == [raw |-> <<>>, head |-> 0, headersParsed |-> FALSE, complete |-> FALSE,
               error |-> 0, body |-> <<>>, consumed |-> 0]

AppendToRaw(r, data) == [r EXCEPT !.raw = @ \o data]

\* setErrorCode(): refused, and complete.
Refuse(r, code) == [r EXCEPT !.error = code, !.complete = TRUE]

\* find("\r\n\r\n"): an empty line with a line before it; 0 for npos.
EndOfHeaders(r) ==
    LET ends == {p \in 2..Len(r.raw) : r.raw[p].t = "end"}
    IN IF ends = {} THEN 0 ELSE Min(ends)

\* The buffer starts with a request line and headers that will do.
StartsWell(r) == r.raw[1].t = "line" /\ r.raw[1].n = 1 /\ msgs[r.raw[1].of].valid

ParseHeadersOnly(r) ==
    IF EndOfHeaders(r) = 0 THEN r
    ELSE IF ~StartsWell(r) THEN Refuse(r, 400)
    ELSE [r EXCEPT !.headersParsed = TRUE, !.head = r.raw[1].of]

\* The message the parsed headers are of.
HeadersOf(r) == msgs[r.head]

TooLong(n) == MAXBODY > 0 /\ n > MAXBODY

\* A Content-Length over the limit is refused with the headers.
Authorize(r) ==
    IF r.headersParsed /\ HeadersOf(r).framing = "length" /\ TooLong(Size(HeadersOf(r)))
    THEN Refuse(r, 413) ELSE r

\* Variant: one unit too many is taken for the body.
ParseLengthOver(r, block) ==
    LET len == Size(HeadersOf(r)) IN
    IF Len(block) < len THEN r
    ELSE [r EXCEPT !.body = SubSeq(block, 1, len), !.complete = TRUE,
                   !.consumed = EndOfHeaders(r) + len + 1]

\* Variant: a body that has just arrived is not yet enough.
ParseLengthLate(r, block) ==
    LET len == Size(HeadersOf(r)) IN
    IF Len(block) <= len THEN r
    ELSE [r EXCEPT !.body = SubSeq(block, 1, len), !.complete = TRUE,
                   !.consumed = EndOfHeaders(r) + len]

\* _parseBody() with a Content-Length.
ParseLength(r, block) ==
    LET len == Size(HeadersOf(r)) IN
    IF Len(block) < len THEN r
    ELSE [r EXCEPT !.body = SubSeq(block, 1, len), !.complete = TRUE,
                   !.consumed = EndOfHeaders(r) + len]

\* The chunks that are whole in block, from position p on: their data, whether
\* the terminating one is among them, and where it ends: with the first line
\* behind its size line, be it the empty one or a trailer.
WholeChunks(block) ==
    LET walk[p \in 1..(Len(block) + 1)] ==
          LET size == block[p].n
          IN IF p > Len(block) \/ p + size + 1 > Len(block)
             THEN [body |-> <<>>, ended |-> FALSE, used |-> 0]
             ELSE IF size = 0 THEN [body |-> <<>>, ended |-> TRUE, used |-> p + 1]
             ELSE [walk[p + size + 2] EXCEPT
                     !.body = SubSeq(block, p + 1, p + size) \o @]
    IN walk[1]

\* Variant: the line after the last chunk is left in the buffer.
ParseChunkedShort(r, block) ==
    LET chunks == WholeChunks(block) IN
    IF TooLong(Len(chunks.body)) THEN Refuse(r, 413)
    ELSE IF ~chunks.ended THEN r
    ELSE [r EXCEPT !.body = chunks.body, !.complete = TRUE,
                   !.consumed = EndOfHeaders(r) + chunks.used - 1]

\* _parseChunkedBody(), from the first chunk at every call.
ParseChunked(r, block) ==
    LET chunks == WholeChunks(block) IN
    IF TooLong(Len(chunks.body)) THEN Refuse(r, 413)
    ELSE IF ~chunks.ended THEN r
    ELSE [r EXCEPT !.body = chunks.body, !.complete = TRUE,
                   !.consumed = EndOfHeaders(r) + chunks.used]

ParseBodyOnly(r) ==
    LET m == HeadersOf(r)
        block == SubSeq(r.raw, EndOfHeaders(r) + 1, Len(r.raw))
    IN IF m.method = "GET" \/ m.framing = "none"
       THEN [r EXCEPT !.complete = TRUE, !.consumed = EndOfHeaders(r)]
       ELSE IF block = <<>> THEN r
       ELSE IF m.framing = "chunked" THEN ParseChunked(r, block)
       ELSE ParseLength(r, block)

ExtractLeftoverRaw(r) == SubSeq(r.raw, r.consumed + 1, Len(r.raw))

WantsKeepAlive(r) == r.error = 0 /\ HeadersOf(r).keep

-----------------------------------------------------------------------------
(* The server around it *)

\* _parseClientRequest(), after every recv() and after a Keep-Alive reset.
ParseClientRequest(r) ==
    IF ~r.headersParsed /\ Len(r.raw) > MAXHEAD THEN Refuse(r, 431)
    ELSE LET h == IF r.headersParsed THEN r ELSE Authorize(ParseHeadersOnly(r))
         IN IF h.headersParsed /\ h.error = 0 THEN ParseBodyOnly(h) ELSE h

Init ==
    /\ msgs \in Streams
    /\ unread = From[msgs][1]
    /\ req = NewRequest
    /\ phase = "reading"
    /\ written = 0
    /\ out = [error |-> 0, file |-> <<>>]
    /\ served = <<>>

\* The socket is polled for reading: until the request is complete, and again
\* while a file or a CGI works for it.
Listens == (phase = "reading" /\ ~req.complete) \/ phase \in {"file", "write"}

\* _handleClientRead() receives n tokens.
Recv(n) ==
    /\ Listens
    /\ n <= Len(unread)
    /\ req' = ParseClientRequest(AppendToRaw(req, SubSeq(unread, 1, n)))
    /\ unread' = SubSeq(unread, n + 1, Len(unread))
    /\ UNCHANGED <<msgs, phase, written, out, served>>

\* Response::build() may be called.
Ready == phase = "reading" /\ req.complete

\* It answers from memory.
BuildPage ==
    /\ Ready
    /\ req.error = 0 => HeadersOf(req).method = "GET"
    /\ phase' = "sending"
    /\ out' = [error |-> req.error, file |-> <<>>]
    /\ UNCHANGED <<msgs, unread, req, written, served>>

\* It answers from a file, an error page's too, or from a CGI without a body.
BuildFile ==
    /\ Ready
    /\ req.error = 0 => HeadersOf(req).method = "GET"
    /\ phase' = "file"
    /\ out' = [error |-> req.error, file |-> <<>>]
    /\ UNCHANGED <<msgs, unread, req, written, served>>

\* The file part of a form: what is between the first line and the last.
ParseMultipart(body) == SubSeq(body, 2, Len(body) - 1)

\* A body is to be written out, to a file or to a CGI.  build() keeps of a form
\* its file part: setBody() replaces what the parser has left.
BuildUpload ==
    /\ Ready
    /\ req.error = 0 /\ HeadersOf(req).method = "POST"
    /\ req' = [req EXCEPT !.body = IF HeadersOf(req).form THEN ParseMultipart(@) ELSE @]
    /\ phase' = "write"
    /\ written' = 0
    /\ out' = [error |-> 0, file |-> <<>>]
    /\ UNCHANGED <<msgs, unread, served>>

\* Variant: what was written before is not counted.
RemainingAgain == req.body

\* What of getBody() is still to be written.
Remaining == SubSeq(req.body, written + 1, Len(req.body))

\* write() takes n tokens of what is left of getBody().
WriteBody(n) ==
    /\ phase = "write"
    /\ n \in 1..Len(Remaining) \/ (Remaining = <<>> /\ n = 0)
    /\ out' = [out EXCEPT !.file = @ \o SubSeq(Remaining, 1, n)]
    /\ written' = written + n
    /\ phase' = IF written + n >= Len(req.body) THEN "sending" ELSE "write"
    /\ UNCHANGED <<msgs, unread, req, served>>

\* The file has been read, or the CGI has ended.
FileEnd ==
    /\ phase = "file"
    /\ phase' = "sending"
    /\ UNCHANGED <<msgs, unread, req, written, out, served>>

\* Variant: the bytes of the next request wait for a recv().
ParseLater(r) == r

\* The request of a client that has just been reset.
NextRequest(r) == IF r.raw = <<>> THEN r ELSE ParseClientRequest(r)

\* The last byte of the response is sent.  The connection is closed, or its
\* Client reset with the bytes that belong to the next request.
Sent ==
    /\ phase = "sending"
    /\ served' = Append(served, out)
    /\ written' = 0
    /\ IF WantsKeepAlive(req)
       THEN /\ req' = NextRequest(AppendToRaw(NewRequest, ExtractLeftoverRaw(req)))
            /\ phase' = "reading"
       ELSE /\ phase' = "closed"
            /\ req' = NewRequest
    /\ UNCHANGED <<msgs, unread, out>>

Reads == \E n \in 1..RECV : Recv(n)
Builds == BuildPage \/ BuildFile \/ BuildUpload
Writes == \E n \in 0..Len(req.body) : WriteBody(n)

Next == Builds \/ Writes \/ FileEnd \/ Sent \/ Reads

Spec == Init /\ [][Next]_vars

\* The server goes on, and what the peer has sent arrives.
FairSpec == Spec /\ WF_vars(Next)

-----------------------------------------------------------------------------
(* What is expected of a stream, from the messages alone *)

Complaint(m) ==
    IF m.lines + 1 > MAXHEAD THEN 431
    ELSE IF ~m.valid THEN 400
    ELSE IF TooLong(Size(m)) THEN 413
    ELSE 0

\* What is to be written of its body: of a form, all but the envelope.
Content(ms, k) ==
    IF ms[k].form THEN [n \in 1..(Size(ms[k]) - 2) |-> Tok("data", k, n + 1)]
    ELSE Payload(ms, k)

Expected(ms, k) ==
    [error |-> Complaint(ms[k]), file |-> IF Complaint(ms[k]) # 0 THEN <<>> ELSE Content(ms, k)]

\* After message k the connection is closed.
IsLast(ms, k) == Complaint(ms[k]) # 0 \/ ~ms[k].keep \/ k = Len(ms)
Due(ms) == CHOOSE k \in DOMAIN ms : IsLast(ms, k) /\ \A j \in 1..(k - 1) : ~IsLast(ms, j)

\* What the parser leaves of message k - 1, in front of message k: all of its
\* trailers but the first.
Strays(ms, k) ==
    IF k > 1 /\ ms[k - 1].trailers > 0 THEN TrailersOf(ms, k - 1, 2) ELSE <<>>

\* More than MAX_HEADER_BYTES may be in the buffer when message k begins.
MayPileUp(ms, k) == Len(Strays(ms, k) \o From[ms][k]) > MAXHEAD

\* A body of no length at all: it is served once a byte follows it.
IsEmpty(m) == m.framing = "length" /\ m.body = <<>>

\* Message k has arrived as far as the parser has to see it.
HasArrived(ms, k, raw) ==
    Len(raw) >= IF ms[k].trailers > 0 THEN Len(Wire[ms][k]) - ms[k].trailers
                ELSE IF IsEmpty(ms[k]) THEN Len(Wire[ms][k]) + 1
                ELSE Len(Wire[ms][k])

\* The last message that gets an answer.
LastAnswered(ms) ==
    IF IsEmpty(ms[Due(ms)]) /\ Complaint(ms[Due(ms)]) = 0 /\ Due(ms) = Len(ms)
    THEN Due(ms) - 1 ELSE Due(ms)

-----------------------------------------------------------------------------
(* Properties *)

Response == [error : {0, 400, 413, 431}, file : Seq(Token)]

\* Every variable has its type; the boundary of a request lies within its
\* buffer, and no more of a body is written than there is (Server.cpp:664-672).
TypeOK ==
    /\ msgs \in Streams
    /\ unread \in Seq(Token)
    /\ req \in [raw : Seq(Token), head : 0..Len(msgs), headersParsed : BOOLEAN,
                complete : BOOLEAN, error : {0, 400, 413, 431}, body : Seq(Token),
                consumed : Nat]
    /\ req.consumed <= Len(req.raw)
    /\ phase \in {"reading", "file", "write", "sending", "closed"}
    /\ written \in 0..Len(req.body)
    /\ out \in Response
    /\ served \in Seq(Response)

\* However the bytes are cut into reads, and however many messages are in the
\* buffer at a time, the answers are those that the messages call for, in their
\* order: the same refusals (Server.cpp:204, 242, 259; Request.cpp:202), and of
\* each body exactly its units, in a file or a CGI, whatever carried them.  Only
\* 431 may meet a short head, when more than the cap may have piled up in the
\* buffer with it (Server.cpp:202).  Nothing is said of an answer to what is left
\* of trailers: there must be none (NextRequestMarked), and there is.
AnswersWhatWasSent ==
    \A k \in DOMAIN served :
        Strays(msgs, k) = <<>> =>
            \/ k <= Due(msgs) /\ served[k] = Expected(msgs, k)
            \/ MayPileUp(msgs, k) /\ served[k] = [error |-> 431, file |-> <<>>]

\* The buffer begins where a message begins, and nothing is lost or read twice:
\* the leftovers of one request (Request.cpp:223) and what is still to be received
\* are together the messages that have not been answered.  Behind a body with
\* trailers this fails, and it is left to NextRequestMarked.
BufferStartsAMessage ==
    LET k == Len(served) + 1 IN
    phase # "closed" /\ Strays(msgs, k) = <<>> => req.raw \o unread = From[msgs][k]

\* The same behind every message: the consumed count "correctly marks where the
\* next pipelined request (if any) begins", and "any trailers are ignored" (the
\* comment at Request.cpp:182-185).  They are not: of the trailers the line that
\* the next "\r\n" ends is skipped (Request.cpp:186), and the rest of them is what
\* the next request begins with.
NextRequestMarked ==
    phase # "closed" => req.raw \o unread = From[msgs][Len(served) + 1]

\* A request that is not refused is taken for complete when the last of its
\* bytes is in the buffer, and not before (Request.cpp:69-98, 196): it never
\* waits for bytes that will not come, nor is it served on half a body.  With
\* trailers the first of them is the last it waits for, and a body of length
\* zero waits for one byte of the next message (Request.cpp:85).
CompleteWhenWhole ==
    LET k == Len(served) + 1 IN
    /\ phase # "closed" /\ k <= Len(msgs)
    /\ Strays(msgs, k) = <<>> /\ Complaint(msgs[k]) = 0 /\ req.error = 0
    => (req.complete <=> HasArrived(msgs, k, req.raw))

\* Every message up to the one that closes the connection is answered in the
\* end, those that were in the buffer before their turn came included
\* (Server.cpp:387-397): no further POLLIN will come for them.  Only a POST of
\* length zero with nothing behind it is not (Request.cpp:85).
AllAnswered == <>(Len(served) >= LastAnswered(msgs) \/ phase = "closed")

\* Of a form, only the file part is written (the comment at Response.cpp:537:
\* the body is "stripped of the multipart envelope").
OnlyTheFilePart == \A j \in DOMAIN out.file : out.file[j].t = "data"
=============================================================================
