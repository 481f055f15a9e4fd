------------------------------ MODULE Responses ------------------------------
(***************************************************************************)
(* One request being answered: an application calls the methods of its     *)
(* response in any order, returns something or raises, its transaction may *)
(* conflict and be tried again with a second response (Publish.py), and    *)
(* the gateway writes the answer out.  The client reads it.                *)
(*                                                                         *)
(* The application keeps to the documentation of write(): headers first,   *)
(* and no error once it streams.  meant is what it said; odd collects the  *)
(* circumstances in which the code is known to answer something else       *)
(* (section 5 of the README).                                              *)
(***************************************************************************)
EXTENDS HTTPResponse

CONSTANTS
    Pages,       \* the pages the application may return
    ErrorPage,   \* the page of an error
    MaxCalls,    \* bound on the calls of the application
    MaxRetries   \* retries (max-conflict-retries)

ASSUME ResponsesAssumption == MaxCalls \in Nat /\ MaxRetries \in Nat /\ Nothing \notin Pages \cup {ErrorPage}

VARIABLES
    response,   \* the response object of the current attempt
    method,     \* GET or HEAD
    rpc,        \* the request is an XML-RPC call
    phase,      \* calling, returned, failed, done
    calls, retries,
    meant,      \* history: what the application said, with its cookie
    declared,   \* history: headers hold a length that no page gave
    odd         \* history: the circumstances met

rvars == <<response, method, rpc, phase, calls, retries, meant, declared, odd>>

NothingMeant == [what |-> <<>>, cookie |-> <<>>]

When(condition, name) == IF condition THEN {name} ELSE {}

RInit ==
    /\ \E gateway \in {"zserver", "wsgi"}, version \in {"1.0", "1.1"}, wish \in {"close", "keep-alive"} :
          response = NewResponse(gateway, version, wish)
    /\ method \in {"GET", "HEAD"}
    /\ rpc \in IF response.gateway = "zserver" /\ method = "GET" THEN BOOLEAN ELSE {FALSE}
    /\ phase = "calling" /\ calls = 0 /\ retries = 0
    /\ meant = NothingMeant /\ declared = FALSE /\ odd = {}

-----------------------------------------------------------------------------
(* The application *)

Calling == phase = "calling" /\ calls < MaxCalls /\ calls' = calls + 1
Headers == Calling /\ ~response.streaming
Quiet == UNCHANGED <<method, rpc, phase, retries>>

SetStatus(status, lock) ==
    /\ Headers
    /\ response' = setStatus(response, status, lock)
    /\ Quiet /\ UNCHANGED <<meant, declared, odd>>

Redirects(lock) ==
    /\ Headers
    /\ response' = redirect(response, lock)
    /\ Quiet /\ UNCHANGED <<meant, declared, odd>>

SetType(type) ==
    /\ Headers
    /\ response' = setHeader(response, "type", type)
    /\ Quiet /\ UNCHANGED <<meant, declared, odd>>

\* The application knows the length of what it is going to stream.
SetLength(n) ==
    /\ Headers
    /\ response' = setHeader(response, "length", n) /\ declared' = TRUE
    /\ Quiet /\ UNCHANGED <<meant, odd>>

SetBase ==
    /\ Headers
    /\ response' = setBase(response, TRUE)
    /\ Quiet /\ UNCHANGED <<meant, declared, odd>>

EnableCompression(accepted, force, disable) ==
    /\ Headers
    /\ response' = enableHTTPCompression(response, accepted, force, disable)
    /\ Quiet /\ UNCHANGED <<meant, declared, odd>>

SetCookie(v) ==
    /\ Headers
    /\ response' = setCookie(response, v)
    /\ meant' = [meant EXCEPT !.cookie = <<v>>]
    /\ odd' = odd \cup When(response.cookie.expired, "expired")
    /\ Quiet /\ UNCHANGED declared

AppendCookie(v) ==
    /\ Headers
    /\ response' = appendCookie(response, v)
    /\ meant' = [meant EXCEPT !.cookie = Append(@, v)]
    /\ odd' = odd \cup When(response.cookie.expired, "expired")
    /\ Quiet /\ UNCHANGED declared

ExpireCookie ==
    /\ Headers
    /\ response' = expireCookie(response)
    /\ meant' = [meant EXCEPT !.cookie = <<>>]
    /\ Quiet /\ UNCHANGED <<declared, odd>>

\* The page a response shows from now on
Shown(r, page) == IF r.bodyLocked THEN meant ELSE [meant EXCEPT !.what = <<page.what>>]
StillDeclared(r) == declared /\ r.bodyLocked

SetBody(page, lock) ==
    /\ Headers /\ ~rpc
    /\ lock => response.gateway = "zserver"         \* WSGIResponse.setBody has no lock
    /\ response' = setBody(response, page, lock)
    /\ meant' = Shown(response, page) /\ declared' = StillDeclared(response)
    /\ Quiet /\ UNCHANGED odd

Write(what, len) ==
    /\ Calling /\ method = "GET"          \* what answers HEAD never streams
    /\ response' = write(response, what, len)
    /\ meant' = [meant EXCEPT !.what = IF len = 0 THEN @ ELSE Append(@, what)]
    /\ Quiet /\ UNCHANGED <<declared, odd>>

-----------------------------------------------------------------------------
(* Publishing *)

\* The object returns, and publish calls setBody with the result: a page, nothing, or
\* the response itself.
Return(result) ==
    /\ phase = "calling" /\ phase' = "returned"
    /\ IF result = Nothing \/ response.streaming
       THEN UNCHANGED <<response, meant, declared>>
       ELSE /\ response' = IF rpc THEN setResult(response, result) ELSE setBody(response, result, FALSE)
            /\ meant' = Shown(response, result) /\ declared' = StillDeclared(response)
    /\ UNCHANGED <<method, rpc, calls, retries, odd>>

\* It returns a stream iterator of the length it declared (asserted by setBody).
ReturnIterator(what, len) ==
    /\ phase = "calling" /\ phase' = "returned"
    /\ ~rpc /\ ~response.streaming
    /\ response.headers.length = len /\ (declared \/ response.gateway = "wsgi")
    /\ response' = setIterator(response, what, len)
    /\ meant' = [meant EXCEPT !.what = <<what>>]
    /\ declared' = FALSE
    /\ UNCHANGED <<method, rpc, calls, retries, odd>>

\* An exception, from the object or at the end of publish.
Raise(kind) ==
    /\ phase \in {"calling", "returned"} /\ phase' = "failed"
    /\ ~response.streaming
    /\ IF response.gateway = "wsgi"
       THEN /\ kind \in {"redirect", "unauthorized"}    \* the others are left to the WSGI server
            /\ response' = setStatus(response, IF kind = "redirect" THEN 302 ELSE 401, FALSE)
            /\ UNCHANGED <<meant, declared>>
       ELSE /\ response' = IF rpc /\ kind # "unauthorized" THEN fault(response, ErrorPage)
                           ELSE exception(response, kind, ErrorPage)
            /\ IF kind = "redirect" /\ ~rpc THEN UNCHANGED <<meant, declared>>
               ELSE meant' = Shown(response, ErrorPage) /\ declared' = StillDeclared(response)
    /\ UNCHANGED <<method, rpc, calls, retries, odd>>

\* A conflict, at a call or at the commit: the next attempt has a response of its own,
\* and a length in the headers that it shares is the length of nothing of its.
Retry ==
    /\ response.gateway = "zserver"
    /\ phase \in {"calling", "returned"} /\ phase' = "calling"
    /\ retries < MaxRetries /\ retries' = retries + 1
    /\ response' = retry(response)
    /\ meant' = NothingMeant
    /\ declared' = (response.headers.length # NoLength)
    /\ odd' = odd \cup When(response.wrote, "streamed twice")
    /\ UNCHANGED <<method, rpc, calls>>

\* The circumstances in which the answer r comes out wrong
Circumstances(r) ==
    LET answer == Finished(r)
    IN  \* lengths that no page gave and nothing corrected
        When(declared /\ answer.headers.length # Total(Tail(answer.wire)), "length")
        \* a page after a compressed one, itself not compressed, keeps content-encoding
        \cup When(r.headers.encoding = "gzip" /\ ~r.body.zip, "encoding")
        \* a page in place of an iterator does not remove the iterator's producer
        \cup When(r.producer # <<>> /\ r.body # EmptyBody, "producer")
        \cup When(r.streaming /\ r.body # EmptyBody, "page and stream")
        \* only ZServer's __str__ drops a body, and only a page
        \cup When(/\ r.status \in WithoutBody
                  /\ r.producer # <<>> \/ r.streaming \/ (r.gateway = "wsgi" /\ r.body # EmptyBody), "bodiless")
        \cup When(method = "HEAD" /\ meant.what # <<>>, "head")
        \* HTTP/1.0 is promised a connection that is kept open, and no length
        \cup When(/\ r.gateway = "zserver" /\ r.streaming /\ r.version = "1.0" /\ r.wish = "keep-alive"
                  /\ r.headers.length = NoLength, "endless")

Finish ==
    /\ phase \in {"returned", "failed"} /\ phase' = "done"
    /\ response' = Finished(response)
    /\ odd' = odd \cup Circumstances(response)
    /\ UNCHANGED <<method, rpc, calls, retries, meant, declared>>

RNext ==
    \/ \E status \in {204, 404}, lock \in BOOLEAN : SetStatus(status, lock)
    \/ \E lock \in BOOLEAN : Redirects(lock)
    \/ \E type \in {"html", "image"} : SetType(type)
    \/ \E n \in {2} : SetLength(n)
    \/ SetBase
    \/ \E mode \in {<<TRUE, FALSE, FALSE>>, <<FALSE, TRUE, FALSE>>, <<FALSE, FALSE, TRUE>>} :
          EnableCompression(mode[1], mode[2], mode[3])
    \/ SetCookie("u") \/ AppendCookie("v")
    \/ ExpireCookie
    \/ \E page \in Pages, lock \in BOOLEAN : SetBody(page, lock)
    \/ \E n \in {0, 2} : Write("data", n)
    \/ \E page \in Pages \cup {Nothing} : Return(page)
    \/ ReturnIterator("file", 2)
    \/ \E kind \in {"redirect", "unauthorized", "error"} : Raise(kind)
    \/ Retry
    \/ Finish

RSpec == RInit /\ [][RNext]_rvars

-----------------------------------------------------------------------------
(* Properties *)

\* The client reads what the application said: from any sequence of calls, returns,
\* errors and retries, through either gateway, for either version of HTTP and any wish
\* about the connection, it finds the end of the message where it is, decodes the body
\* it was meant to have, and keeps the cookie it was meant to keep.
AnswerIsRead ==
    phase = "done" /\ odd = {} =>
        LET got == Read(response.wire, method, Closes(response))
        IN  /\ got # Unreadable
            /\ got.cookie = meant.cookie
            /\ method = "GET" /\ response.status \notin WithoutBody => got.what = meant.what
=============================================================================
