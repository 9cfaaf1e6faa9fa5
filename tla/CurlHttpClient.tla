--------------------------- MODULE CurlHttpClient ---------------------------
(***************************************************************************)
(* CurlHttpClient::send: one request at a time, as libcurl performs it and *)
(* calls back with headers and body (curl_http_client.cpp).  What the      *)
(* server does with the request is the business of the module that         *)
(* extends this one; here its answer comes in piece by piece, or the       *)
(* connection breaks, or the time is up.                                   *)
(*                                                                         *)
(* The headers of one response are one item, named by its status.  A body  *)
(* comes in Chunks pieces, and Part says how many of them are there.       *)
(***************************************************************************)
EXTENDS Integers, Sequences

CONSTANTS
    Chunks,     \* pieces of a body
    LongMax     \* the greatest long: 2^63 - 1 on Linux, 2^31 - 1 on Windows

ASSUME CurlAssumption ==
    /\ Chunks \in Nat \ {0}
    /\ LongMax \in Nat \ {0}

HttpErrorCode == {"Transport", "Timeout", "InvalidRequest"}

VARIABLES
    phase,      \* of the call of send
    request,    \* its argument
    limit,      \* CURLOPT_TIMEOUT_MS, as libcurl took it; 0 is no limit
    answer,     \* what the server has answered, or NoAnswer
    response,   \* the HttpResponse being filled
    error       \* the code of the HttpError it threw, or "none"

http == <<phase, request, limit, answer, response, error>>

NoRequest == [to |-> "nowhere", url |-> "", timeout |-> 0]
NoAnswer == [status |-> 0, interim |-> << >>, content |-> [type |-> "nothing"]]

\* The first n pieces of a body with this content.
Part(content, n) == [content |-> content, received |-> n]

Fresh == [status_code |-> 0, headers |-> << >>, body |-> Part([type |-> "nothing"], 0)]

\* There is no client yet.
HttpInit ==
    /\ phase = "unconstructed"
    /\ request = NoRequest
    /\ limit = 0
    /\ answer = NoAnswer
    /\ response = Fresh
    /\ error = "none"

HttpTypeOK ==
    /\ phase \in {"unconstructed", "idle", "performing", "returned", "threw"}
    /\ limit \in 0..LongMax
    /\ response.body.received \in 0..Chunks
    /\ error \in HttpErrorCode \cup {"none"}

-----------------------------------------------------------------------------

\* The constructor initialises libcurl, once in a process.  When that fails there
\* is neither a client nor the static it would have been: the next one tries again.
Construct ==
    /\ phase = "unconstructed"
    /\ \/ phase' = "idle" /\ UNCHANGED error
       \/ error' = "Transport" /\ UNCHANGED phase
    /\ UNCHANGED <<request, limit, answer, response>>

\* static_cast<long>: two's complement.
to_long(n) == ((n + LongMax + 1) % (2 * LongMax + 2)) - (LongMax + 1)

\* Mutant: seconds taken for thousands of them.
timeout_ms_Divided(timeout) == to_long(timeout \div 1000)

timeout_ms(timeout) == to_long(timeout * 1000)

\* Mutant: a negative limit is taken.
Limit_Unchecked(timeout) == timeout_ms(timeout)

\* libcurl refuses a negative limit and keeps its default, none.
Limit(timeout) == IF timeout_ms(timeout) > 0 THEN timeout_ms(timeout) ELSE 0

ThrowHttpError(code) == phase' = "threw" /\ error' = code

\* An empty URL is refused; a handle or a header list may not be had.
send(req) ==
    /\ phase = "idle"
    /\ request' = req
    /\ response' = Fresh
    /\ answer' = NoAnswer
    /\ IF req.url = ""
       THEN ThrowHttpError("InvalidRequest") /\ limit' = 0
       ELSE \/ ThrowHttpError("Transport") /\ limit' = 0
            \/ /\ phase' = "performing"
               /\ limit' = Limit(req.timeout)
               /\ error' = "none"

\* The server takes the request and answers with ans, once.
Answer(ans) ==
    /\ phase = "performing"
    /\ answer = NoAnswer
    /\ answer' = ans
    /\ UNCHANGED <<phase, request, limit, response, error>>

\* The responses that come over the line: the interim ones (100 Continue, 103
\* Early Hints), and the final one.
Responses == Append(answer.interim, answer.status)

\* write_header keeps the headers of every response, the interim ones too.
write_header ==
    /\ phase = "performing" /\ answer # NoAnswer
    /\ Len(response.headers) < Len(Responses)
    /\ response' = [response EXCEPT !.headers = Append(@, Responses[Len(@) + 1])]
    /\ UNCHANGED <<phase, request, limit, answer, error>>

write_body ==
    /\ phase = "performing" /\ answer # NoAnswer
    /\ Len(response.headers) = Len(Responses)
    /\ response.body.received < Chunks
    /\ response' = [response EXCEPT !.body = Part(answer.content, @.received + 1)]
    /\ UNCHANGED <<phase, request, limit, answer, error>>

\* The transfer is complete: the status code is asked for.
Complete ==
    /\ phase = "performing" /\ answer # NoAnswer
    /\ response.body.received = Chunks
    /\ phase' = "returned"
    /\ response' = [response EXCEPT !.status_code = answer.status]
    /\ UNCHANGED <<request, limit, answer, error>>

\* Mutant: the code of curl_easy_perform is not looked at.
Break_Ignored ==
    /\ phase = "performing"
    /\ phase' = "returned"
    /\ response' = [response EXCEPT !.status_code =
                        IF response.headers = << >> THEN 0
                        ELSE response.headers[Len(response.headers)]]
    /\ UNCHANGED <<request, limit, answer, error>>

\* The connection cannot be made, is refused, reset, or ends within the answer.
Break ==
    /\ phase = "performing"
    /\ ThrowHttpError("Transport")
    /\ UNCHANGED <<request, limit, answer, response>>

\* Mutant: what has been received when the time is up is returned.
Expire_Returned ==
    /\ phase = "performing"
    /\ limit # 0
    /\ phase' = "returned"
    /\ response' = [response EXCEPT !.status_code = answer.status]
    /\ UNCHANGED <<request, limit, answer, error>>

\* CURLE_OPERATION_TIMEDOUT, whatever has been received by then.
Expire ==
    /\ phase = "performing"
    /\ limit # 0
    /\ ThrowHttpError("Timeout")
    /\ UNCHANGED <<request, limit, answer, response>>

\* The caller has taken the response or caught the exception.
Taken ==
    /\ phase \in {"returned", "threw"}
    /\ phase' = "idle"
    /\ UNCHANGED <<request, limit, answer, response, error>>

Transfer == write_header \/ write_body \/ Complete \/ Break \/ Expire
=============================================================================
