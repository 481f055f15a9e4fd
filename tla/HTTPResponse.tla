---------------------------- MODULE HTTPResponse ----------------------------
(***************************************************************************)
(* The response object (ZPublisher/HTTPResponse.py) as a record and its    *)
(* methods as operators on it, with the two gateways that write it out:    *)
(* ZServer/HTTPResponse.py, onto a connection that may be kept open, and   *)
(* ZPublisher/WSGIPublisher.py.                                            *)
(*                                                                         *)
(* wire is what was written, a sequence of items: a head, data, chunks.    *)
(* Read is a client: what it makes of the items, by the rules HTTP has     *)
(* for the end of a message.                                               *)
(***************************************************************************)
EXTENDS Integers, Sequences, SequencesExt

NoLength == -1                          \* no content-length header
WithoutBody == {204, 304}               \* the statuses of answers that have no body
BaseLength == 1                         \* what a <base> tag adds to a page

\* A page: what it says, its length, its length compressed, whether it looks like html,
\* and whether it has a <head> without a <base>.
Page(what, len, packed, html, head) ==
    [what |-> what, len |-> len, packed |-> packed, html |-> html, head |-> head]
Nothing == Page("nothing", 0, 0, FALSE, FALSE)
Body(page, base, zip) == [page |-> page, base |-> base, zip |-> zip]
EmptyBody == Body(Nothing, FALSE, FALSE)
BodyLength(b) == (IF b.zip THEN b.page.packed ELSE b.page.len) + (IF b.base THEN BaseLength ELSE 0)

NoHeaders == [length |-> NoLength, type |-> "", encoding |-> "", connection |-> "", transfer |-> ""]

NewResponse(gateway, version, wish) ==
    [gateway |-> gateway, version |-> version, wish |-> wish, status |-> 200, statusLocked |-> FALSE,
     headers |-> NoHeaders, body |-> EmptyBody, bodyLocked |-> FALSE, producer |-> <<>>,
     base |-> FALSE, compress |-> 0, cookie |-> [value |-> <<>>, expired |-> FALSE],
     wrote |-> FALSE, streaming |-> FALSE, chunking |-> FALSE, streamed |-> <<>>, wire |-> <<>>]

-----------------------------------------------------------------------------
(* Status, headers, cookies *)

setStatus(r, status, lock) ==
    IF r.statusLocked THEN r ELSE [r EXCEPT !.status = status, !.statusLocked = lock]

setHeader(r, name, value) == [r EXCEPT !.headers[name] = value]

redirect(r, lock) == setStatus(r, 302, lock)

setBase(r, on) == [r EXCEPT !.base = on]

enableHTTPCompression(r, accepted, force, disable) ==
    IF disable THEN [r EXCEPT !.compress = 0]
    ELSE IF force THEN [r EXCEPT !.compress = 2]
    ELSE IF accepted THEN [r EXCEPT !.compress = 1] ELSE r

\* One cookie; the attributes given before stay.
setCookie(r, value) == [r EXCEPT !.cookie.value = <<value>>]
appendCookie(r, value) == [r EXCEPT !.cookie.value = Append(@, value)]
expireCookie(r) == [r EXCEPT !.cookie = [value |-> <<"deleted">>, expired |-> TRUE]]

-----------------------------------------------------------------------------
(* The body *)

insertBase(r, type, page) == type = "html" /\ r.base /\ page.head

Compressed(r, type, page) ==
    /\ r.compress # 0 /\ r.headers.encoding \in {"", "gzip"}
    /\ type # "image"
    /\ page.packed < page.len

setBody(r, page, lock) ==
    IF r.bodyLocked THEN r
    ELSE IF page = Nothing THEN [r EXCEPT !.bodyLocked = lock]
    ELSE LET type == IF r.headers.type # "" THEN r.headers.type ELSE IF page.html THEN "html" ELSE "text"
             body == Body(page, insertBase(r, type, page), Compressed(r, type, page))
         IN  [r EXCEPT !.bodyLocked = lock, !.body = body,
                       !.producer = IF r.gateway = "wsgi" THEN <<>> ELSE @,
                       !.headers.type = type, !.headers.length = BodyLength(body),
                       !.headers.encoding = IF body.zip THEN "gzip" ELSE @]

Data(what, len) == [kind |-> "data", what |-> what, len |-> len]

\* A stream iterator as the body: a producer behind the head, for WSGI the body itself.
setIterator(r, what, len) ==
    IF r.gateway = "wsgi" THEN [r EXCEPT !.headers.length = len, !.producer = <<Data(what, len)>>]
    ELSE [r EXCEPT !.producer = <<Data(what, len)>>]

\* exception(): 3xx keeps the body (setBody('') does nothing), others show a page.
exception(r, kind, page) ==
    CASE kind = "redirect" -> setBody(setStatus(r, 302, FALSE), Nothing, FALSE)
      [] kind = "unauthorized" -> setBody(setStatus(r, 401, FALSE), page, FALSE)
      [] OTHER -> setBody(setStatus(r, 500, FALSE), page, FALSE)

\* xmlrpc.Response: results and faults are pages of type text/xml, a fault has status 200.
setResult(r, page) == setHeader(setBody(r, page, FALSE), "type", "xml")
fault(r, page) == setStatus(setResult(r, page), 200, FALSE)

-----------------------------------------------------------------------------
(* Writing it out *)

\* An answer with nothing in it says so.
Emptied(r) ==
    IF r.headers.type = "" /\ r.headers.length = NoLength /\ ~r.streaming /\ r.status = 200
    THEN setStatus(r, 204, FALSE) ELSE r

HeadOf(r) ==
    [kind |-> "head", status |-> r.status, length |-> r.headers.length, chunked |-> r.headers.transfer = "chunked",
     zip |-> r.headers.encoding = "gzip", close |-> r.headers.connection = "close", cookie |-> r.cookie, len |-> 0]

BodyItem(b) == IF b = EmptyBody THEN <<>> ELSE <<[kind |-> "page", body |-> b, len |-> BodyLength(b)]>>

\* ZServerHTTPResponse.__str__ before anything was written
Measured(r) ==
    IF r.status \in WithoutBody THEN [r EXCEPT !.headers.length = NoLength, !.headers.type = ""]
    ELSE IF r.headers.length = NoLength /\ ~r.streaming THEN [r EXCEPT !.headers.length = BodyLength(r.body)]
    ELSE r

Connected(r) ==
    IF r.version = "1.0" THEN setHeader(r, "connection", IF r.wish = "keep-alive" THEN "Keep-Alive" ELSE "close")
    ELSE IF r.wish = "close" THEN setHeader(r, "connection", "close")
    ELSE IF r.headers.length = NoLength /\ r.streaming
         THEN [r EXCEPT !.headers.transfer = "chunked", !.chunking = TRUE]
    ELSE r

WithHead(r) ==
    LET ready == Connected(Measured(Emptied(r)))
    IN  [ready EXCEPT !.wire = @ \o <<HeadOf(ready)>>
                                 \o (IF ready.status \in WithoutBody THEN <<>> ELSE BodyItem(ready.body))]

Framed(r, data) ==
    [r EXCEPT !.wire = Append(@, IF r.chunking THEN [data EXCEPT !.kind = "chunk"] ELSE data)]

\* Mutated: an empty piece is framed, too, and ends the chunks.
PutAlways(r, data) == Framed(r, data)
PutUnlessEmpty(r, data) == IF data.len = 0 THEN r ELSE Framed(r, data)

\* ZServerHTTPResponse.write; for WSGI the data is kept until the end.
write(r, what, len) ==
    IF r.gateway = "wsgi"
    THEN [r EXCEPT !.streaming = TRUE, !.streamed = IF len = 0 THEN @ ELSE Append(@, Data(what, len))]
    ELSE PutUnlessEmpty(IF r.wrote THEN r ELSE [WithHead([r EXCEPT !.streaming = TRUE]) EXCEPT !.wrote = TRUE],
                        Data(what, len))

outputBody(r) ==
    LET out == IF ~r.wrote THEN WithHead(r)
               ELSE IF r.chunking THEN [r EXCEPT !.wire = Append(@, [kind |-> "last", len |-> 0])]
               ELSE r
    IN  [out EXCEPT !.wire = @ \o r.producer, !.producer = <<>>]

\* WSGIResponse.finalize and what publish_module returns
finalize(r) ==
    LET sized == LET s == Emptied(r)
                 IN  IF s.headers.length = NoLength /\ ~s.streaming
                     THEN [s EXCEPT !.headers.length = BodyLength(s.body)] ELSE s
    IN  IF sized.version = "1.0"
        THEN setHeader(sized, "connection", IF sized.wish = "keep-alive" /\ sized.headers.length # NoLength
                                            THEN "Keep-Alive" ELSE "close")
        ELSE IF sized.wish = "close" \/ sized.headers.length = NoLength
        THEN setHeader(sized, "connection", "close")
        ELSE sized

published(r) ==
    LET out == finalize(r)
    IN  [out EXCEPT !.wire = <<HeadOf(out)>> \o (IF out.producer # <<>> THEN out.producer
                                                 ELSE out.streamed \o BodyItem(out.body)),
                    !.producer = <<>>]

Finished(r) == IF r.gateway = "wsgi" THEN published(r) ELSE outputBody(r)

\* The connection is closed behind the answer (ChannelPipe.finish).
Closes(r) == r.headers.connection = "close"

\* retry(): another response on the same connection, with the same headers
retry(r) ==
    [NewResponse(r.gateway, r.version, r.wish) EXCEPT !.headers = r.headers, !.wire = r.wire]

-----------------------------------------------------------------------------
(* The client *)

Total(items) == FoldLeft(LAMBDA n, item : n + item.len, 0, items)

Unreadable == [what |-> <<"unreadable">>, cookie |-> <<>>]

\* What an item says, if the client decodes it as the head tells it to
Says(item, zip) ==
    IF item.kind = "page" THEN IF item.body.zip = zip THEN item.body.page.what ELSE "garbled"
    ELSE IF zip THEN "garbled" ELSE item.what

Ends(items, head, bodiless, closed) ==
    IF bodiless THEN items = <<>>
    ELSE IF head.chunked THEN
        /\ items # <<>> /\ Last(items).kind = "last"
        /\ \A i \in 1 .. Len(items) - 1 : items[i].kind = "chunk" /\ items[i].len > 0
    ELSE /\ \A i \in DOMAIN items : items[i].kind \in {"data", "page"}
         /\ IF head.length = NoLength THEN closed ELSE head.length = Total(items)

Read(wire, method, closed) ==
    LET head == wire[1]
        items == Tail(wire)
        bodiless == method = "HEAD" \/ head.status \in WithoutBody
    IN  IF ~Ends(items, head, bodiless, closed) THEN Unreadable
        ELSE [what |-> LET data == SelectSeq(items, LAMBDA i : i.len > 0)
                       IN  [i \in DOMAIN data |-> Says(data[i], head.zip)],
              cookie |-> IF head.cookie.expired THEN <<>> ELSE head.cookie.value]
=============================================================================
