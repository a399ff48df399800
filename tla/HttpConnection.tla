---------------------------- MODULE HttpConnection ----------------------------
(***************************************************************************)
(* http/http.cpp: single requests over a persistent curl handle. Options   *)
(* stay on a handle until they are set again or the handle is reset: a     *)
(* curl_oper resets it when it is destroyed, del, head and the escape      *)
(* functions before they use it. A body to post is read by curl in pieces, *)
(* through read_callback.                                                  *)
(***************************************************************************)
EXTENDS Integers

CONSTANTS Sizes,    \* sizes of a posted part
          Buffers   \* sizes of the buffer curl asks to fill

ASSUME ConnectionAssumption == Sizes \subseteq Nat /\ Buffers \subseteq Nat \ {0}

VARIABLES handle,     \* the options of the connection
          request,    \* the call in progress: what the caller asked for
          part,       \* the part that is posted: size, position, whether curl
                      \* was told that there is no more
          uploaded,   \* bytes that went to the server in this call
          leftover    \* the last call to use the handle was del or head

connectionVars == <<handle, request, part, uploaded, leftover>>

Verbs == {"GET", "POST", "DELETE", "HEAD"}

\* A handle as curl_easy_reset leaves it. list is CURLOPT_HTTPHEADER: none, the
\* caller's headers, or a list that was freed; custom is CURLOPT_CUSTOMREQUEST
\* and dumps is CURLOPT_HEADER, which copies the headers into the body.
Default == [verb |-> "GET", custom |-> "none", list |-> "none", dumps |-> FALSE]

NewPart(size) == [size |-> size, position |-> 0, eof |-> FALSE]

NoRequest == [verb |-> "none", headers |-> FALSE]

\* The types of the handle, the call and the part.
ConnectionTypeOK ==
    /\ handle \in [verb : Verbs, custom : {"none", "DELETE"},
                   list : {"none", "headers", "freed"}, dumps : BOOLEAN]
    /\ request \in {NoRequest} \union [verb : Verbs, headers : BOOLEAN]
    /\ part \in [size : Sizes \union {0}, position : Nat, eof : BOOLEAN]
    /\ uploaded \in Nat
    /\ leftover \in BOOLEAN

ConnectionInit ==
    /\ handle = Default
    /\ request = NoRequest
    /\ part = NewPart(0)
    /\ uploaded = 0
    /\ leftover = FALSE

WithHeaders(h, headers) == IF headers THEN [h EXCEPT !.list = "headers"] ELSE h

Idle == request = NoRequest

\* get, post and postForm: the constructors set their options on the handle as
\* it is; an empty list of headers is not set. CURLOPT_HTTPGET and CURLOPT_POST
\* undo CURLOPT_NOBODY.
BeginOper(verb, headers, size) ==
    /\ Idle
    /\ handle' = [WithHeaders(handle, headers) EXCEPT !.verb = verb]
    /\ request' = [verb |-> verb, headers |-> headers]
    /\ part' = NewPart(size)
    /\ uploaded' = 0
    /\ UNCHANGED leftover

Get(headers) == BeginOper("GET", headers, 0)
Post(headers) == \E size \in Sizes : BeginOper("POST", headers, size)

\* Mutant of ReadLength: the last piece is not cut to what is left.
ReadFullBuffer(p, length) == IF p.position >= p.size THEN 0 ELSE length

\* read_callback returns how much it copied.
ReadLength(p, length) ==
    IF p.position >= p.size THEN 0
    ELSE IF p.position + length > p.size THEN p.size - p.position ELSE length

ReadCallback ==
    /\ request.verb = "POST"
    /\ ~part.eof
    /\ \E length \in Buffers :
         /\ part' = [part EXCEPT !.position = @ + ReadLength(part, length),
                                 !.eof = ReadLength(part, length) = 0]
         /\ uploaded' = uploaded + ReadLength(part, length)
    /\ UNCHANGED <<handle, request, leftover>>

\* Mutant of AfterOper: the header list is freed and the options are kept.
FreedNotReset == [handle EXCEPT !.list = IF @ = "none" THEN @ ELSE "freed"]

\* ~curl_oper frees the headers and resets the connection.
AfterOper == Default

\* The transfer ends, well or not; finish or the exception of its visitor ends
\* the call, and either way the operation is destroyed.
EndOper ==
    /\ request.verb \in {"GET", "POST"}
    /\ request' = NoRequest
    /\ handle' = AfterOper
    /\ leftover' = FALSE
    /\ UNCHANGED <<part, uploaded>>

\* del and head reset the handle, set their options, and leave them there.
BeginBare(verb, options, headers) ==
    /\ Idle
    /\ handle' = WithHeaders(options, headers)
    /\ request' = [verb |-> verb, headers |-> headers]
    /\ part' = NewPart(0)
    /\ uploaded' = 0
    /\ UNCHANGED leftover

Del(headers) == BeginBare("DELETE", [Default EXCEPT !.custom = "DELETE"], headers)
HeadRequest(headers) ==
    BeginBare("HEAD", [Default EXCEPT !.verb = "HEAD", !.dumps = TRUE], headers)

\* On success the list of headers is freed, which the handle still points to; an
\* error is thrown before that.
EndBare ==
    /\ request.verb \in {"DELETE", "HEAD"}
    /\ handle' \in {handle, FreedNotReset}
    /\ request' = NoRequest
    /\ leftover' = TRUE
    /\ UNCHANGED <<part, uploaded>>

\* escape_url and unescape_url.
Escape ==
    /\ Idle
    /\ handle' = Default
    /\ leftover' = FALSE
    /\ UNCHANGED <<request, part, uploaded>>

ConnectionNext ==
    \/ \E headers \in BOOLEAN :
         Get(headers) \/ Post(headers) \/ Del(headers) \/ HeadRequest(headers)
    \/ ReadCallback \/ EndOper \/ EndBare \/ Escape

ConnectionSpec == ConnectionInit /\ [][ConnectionNext]_connectionVars
-----------------------------------------------------------------------------
(* Properties *)

\* What curl puts on the wire.
SentVerb == IF handle.custom = "none" THEN handle.verb ELSE handle.custom

\* A request goes out with its own verb and headers and with nothing of the
\* calls before it, whatever their order and outcome. The exception is the call
\* after a del or head: those leave their options, and freed headers, behind.
SentAsAsked ==
    ~Idle /\ ~(leftover /\ request.verb \in {"GET", "POST"}) =>
      /\ SentVerb = request.verb
      /\ handle.list = IF request.headers THEN "headers" ELSE "none"
      /\ handle.dumps <=> request.verb = "HEAD"

\* Whatever buffers curl offers, the bytes posted are those of the part: none
\* beyond its end, and all of them when curl is told that there is no more.
UploadIsWhole == uploaded <= part.size /\ (part.eof => uploaded = part.size)

\* Between calls the handle is a fresh one unless a del or head used it last, and
\* what went out is as far as the part was read.
ConnectionInv ==
    /\ ConnectionTypeOK
    /\ SentAsAsked
    /\ UploadIsWhole
    /\ Idle /\ ~leftover => handle = Default
    /\ uploaded = part.position
=============================================================================
