--------------------------- MODULE GoogleSession ---------------------------
(***************************************************************************)
(* OAuthClient and CalendarClient on CurlHttpClient, with Google's two     *)
(* endpoints at the other end: the code is exchanged for tokens, the       *)
(* access token is refreshed, the calendar is fetched (oauth_client.cpp,   *)
(* calendar_client.cpp), by one thread and over a network that may fail    *)
(* in any of these calls at any point.                                     *)
(*                                                                         *)
(* What becomes of the tokens is the caller's business and not written     *)
(* yet: it stores a token response as it is, or keeps the refresh token it *)
(* has when the response holds none.                                       *)
(***************************************************************************)
EXTENDS CurlHttpClient, Json, FiniteSets

CONSTANTS
    Tokens,     \* bound: the access tokens the server can issue
    Statuses,   \* the status codes of answers other than Google's own 200, 400 and 401
    Timeouts,   \* HttpRequest::timeout of other users of send, in seconds
    Keepers     \* the callers considered: keeping the refresh token (TRUE), or not

ASSUME SessionAssumption ==
    /\ "" \notin Tokens
    /\ Timeouts \subseteq Nat
    /\ Keepers \subseteq BOOLEAN

VARIABLES
    keeps,          \* does the caller keep its refresh token?
    call,           \* the client's function being executed, or "none"
    result,         \* how the last one ended
    credentials,    \* access_token and refresh_token of the CredentialRecord
    issued,         \* the access tokens the server has issued
    live,           \* those among them it still accepts
    spent           \* has the authorization code been redeemed?

session == <<keeps, call, result, credentials, issued, live, spent>>
vars == <<http, session>>

Signed(cred) == cred.access_token # "" \/ cred.refresh_token # ""

Init ==
    /\ HttpInit
    /\ keeps \in Keepers
    /\ call = "none"
    /\ result = [ended |-> "none"]
    /\ credentials = [access_token |-> "", refresh_token |-> ""]
    /\ issued = {}
    /\ live = {}
    /\ spent = FALSE

TypeOK ==
    /\ HttpTypeOK
    /\ keeps \in BOOLEAN
    /\ call \in {"none", "exchange_code", "refresh_access_token", "fetch_events", "other"}
    /\ result.ended \in {"none", "returned", "HttpError", "json error"}
    /\ credentials.access_token \in Tokens \cup {""}
    /\ credentials.refresh_token \in {"", "refresh"}
    /\ issued \subseteq Tokens /\ live \subseteq issued
    /\ spent \in BOOLEAN

-----------------------------------------------------------------------------

\* The requests of the clients: 30 seconds, and a URL that is never empty.
token_request(grant, secret) ==
    [to |-> "token", url |-> "https", timeout |-> 30, grant |-> grant, secret |-> secret]

events_request(access_token) ==
    [to |-> "calendar", url |-> "https", timeout |-> 30, secret |-> access_token]

exchange_code ==
    /\ call = "none"
    /\ call' = "exchange_code"
    /\ send(token_request("authorization_code", "code"))
    /\ UNCHANGED <<keeps, result, credentials, issued, live, spent>>

\* An empty refresh token is sent like any other.
refresh_access_token ==
    /\ call = "none" /\ Signed(credentials)
    /\ call' = "refresh_access_token"
    /\ send(token_request("refresh_token", credentials.refresh_token))
    /\ UNCHANGED <<keeps, result, credentials, issued, live, spent>>

\* An empty access token is refused before anything is sent.
fetch_events ==
    /\ call = "none" /\ phase = "idle"
    /\ IF credentials.access_token = ""
       THEN /\ result' = [ended |-> "HttpError", by |-> "fetch_events", code |-> "InvalidRequest"]
            /\ UNCHANGED <<http, call>>
       ELSE /\ call' = "fetch_events"
            /\ send(events_request(credentials.access_token))
            /\ UNCHANGED result
    /\ UNCHANGED <<keeps, credentials, issued, live, spent>>

\* send, used without the clients, as the tests do: any URL, any timeout.
other_request ==
    /\ call = "none"
    /\ call' = "other"
    /\ \E url \in {"", "http"}, timeout \in Timeouts :
        send([to |-> "other", url |-> url, timeout |-> timeout])
    /\ UNCHANGED <<keeps, result, credentials, issued, live, spent>>

-----------------------------------------------------------------------------

Replies(status, content) ==
    \E interim \in {<< >>, <<103>>} :
        Answer([status |-> status, interim |-> interim, content |-> content])

\* The tokens of a successful answer; the one to a refresh need not have a refresh
\* token.
Grants(token) ==
    {Object([access_token |-> String(token), refresh_token |-> String("refresh"),
             expires_in |-> Number(3600)])}
      \cup (IF request.grant = "refresh_token"
            THEN {Object([access_token |-> String(token)])} ELSE {})

\* Is the code, which is good once, or the refresh token accepted?
Accepted == IF request.grant = "authorization_code" THEN ~ spent ELSE request.secret = "refresh"

TokenEndpoint ==
    /\ request.to = "token"
    /\ IF Accepted
       THEN /\ \E token \in Tokens \ issued :
                /\ \E content \in Grants(token) : Replies(200, content)
                /\ issued' = issued \cup {token}
                /\ live' = live \cup {token}
            /\ spent' = (spent \/ request.grant = "authorization_code")
       ELSE /\ Replies(400, Object([error |-> String("invalid_grant")]))
            /\ UNCHANGED <<issued, live, spent>>

CalendarEndpoint ==
    /\ request.to = "calendar"
    /\ IF request.secret \in live
       THEN Replies(200, Object([items |-> Array(<< >>)]))
       ELSE Replies(401, Object([error |-> String("unauthorized")]))
    /\ UNCHANGED <<issued, live, spent>>

\* Anything else in between: an error page, a redirect, an answer that is no
\* token response.
Elsewhere ==
    /\ \/ \E status \in Statuses : Replies(status, Other)
       \/ request.to # "calendar" /\ Replies(200, Object([message |-> String("sorry")]))
    /\ UNCHANGED <<issued, live, spent>>

ServerAnswers ==
    /\ TokenEndpoint \/ CalendarEndpoint \/ Elsewhere
    /\ UNCHANGED <<keeps, call, result, credentials>>

\* The access tokens run out.
TokensExpire ==
    /\ live # {}
    /\ live' = {}
    /\ UNCHANGED <<http, keeps, call, result, credentials, issued, spent>>

Transfers == Transfer /\ UNCHANGED session

Constructs == Construct /\ UNCHANGED session

-----------------------------------------------------------------------------

Successful(status) == status \in 200..299

\* nlohmann::json::parse of a whole body; what is no JSON throws.
parse(body) == IF body.received = Chunks /\ body.content # Other THEN {body.content} ELSE {}

HttpErrorResult(code) == [ended |-> "HttpError", by |-> call, code |-> code]

\* Mutant: an access token that is not there is an empty one.
oauth_token_Defaulted(json) ==
    [access_token : value(json, "access_token", "string", ""),
     refresh_token : value(json, "refresh_token", "string", ""),
     expires_in : value(json, "expires_in", "number", 0)]

\* The OAuthTokenResponse of a body; its token_type and scope, read as
\* refresh_token is, are left out.
oauth_token(json) ==
    [access_token : get_at(json, "access_token", "string"),
     refresh_token : value(json, "refresh_token", "string", ""),
     expires_in : value(json, "expires_in", "number", 0)]

\* Mutant: the body is read before the status.
parse_token_response_BodyFirst(resp) ==
    LET tokens == UNION {oauth_token(json) : json \in parse(resp.body)}
    IN  IF tokens = {} THEN {[ended |-> "json error", by |-> call]}
        ELSE IF ~ Successful(resp.status_code) THEN {HttpErrorResult("Transport")}
        ELSE {[ended |-> "returned", by |-> call, token |-> token] : token \in tokens}

\* The result of exchange_code and refresh_access_token, from the response.
parse_token_response(resp) ==
    LET tokens == UNION {oauth_token(json) : json \in parse(resp.body)}
    IN  IF ~ Successful(resp.status_code) THEN {HttpErrorResult("Transport")}
        ELSE IF tokens = {} THEN {[ended |-> "json error", by |-> call]}
        ELSE {[ended |-> "returned", by |-> call, token |-> token] : token \in tokens}

\* The result of fetch_events: the body as it has been received, unread.
events_result(resp) ==
    IF Successful(resp.status_code)
    THEN {[ended |-> "returned", by |-> call, raw_json |-> resp.body]}
    ELSE {HttpErrorResult("Transport")}

Stored(token) ==
    [access_token |-> token.access_token,
     refresh_token |-> IF keeps /\ token.refresh_token = "" THEN credentials.refresh_token
                       ELSE token.refresh_token]

\* The call ends with an exception of send, or with what it makes of the response.
CallEnds ==
    /\ Taken
    /\ call # "none"
    /\ call' = "none"
    /\ result' \in
          IF phase = "threw" THEN {HttpErrorResult(error)}
          ELSE IF call \in {"exchange_code", "refresh_access_token"}
               THEN parse_token_response(response)
          ELSE IF call = "fetch_events" THEN events_result(response)
          ELSE {[ended |-> "returned", by |-> call, status_code |-> response.status_code]}
    /\ credentials' = IF result'.ended = "returned" /\ "token" \in DOMAIN result'
                      THEN Stored(result'.token) ELSE credentials
    /\ UNCHANGED <<keeps, issued, live, spent>>

Next ==
    \/ Constructs
    \/ exchange_code \/ refresh_access_token \/ fetch_events \/ other_request
    \/ ServerAnswers \/ TokensExpire
    \/ Transfers
    \/ CallEnds

(***************************************************************************)
(* libcurl's clock runs and the client thread is scheduled; the server and *)
(* the network owe nothing.                                                *)
(***************************************************************************)
Fairness ==
    /\ WF_vars(Expire /\ UNCHANGED session)
    /\ WF_vars(CallEnds)

Spec == Init /\ [][Next]_vars /\ Fairness

-----------------------------------------------------------------------------

WholeAnswer == Part(answer.content, Chunks)

(***************************************************************************)
(* send returns a response only when the transfer is complete: the status  *)
(* is the final one, its headers are the last, and no body is cut off -    *)
(* however the connection ends and whatever interim responses came first.  *)
(***************************************************************************)
WholeOrError ==
    phase = "returned" =>
        /\ response.status_code = answer.status
        /\ response.headers # << >>
        /\ response.headers[Len(response.headers)] = answer.status
        /\ response.body = WholeAnswer

(***************************************************************************)
(* A call of a client that returns had Google's agreement.  The events are *)
(* those of an answer of 2xx to this request, and all of them: not a part  *)
(* of the body, and a refused access token never looks like an empty       *)
(* calendar.  The access token is one the server issued; the refresh token *)
(* is empty when the server gave none, and only then, so a caller can tell *)
(* that it has to keep the one it has.                                     *)
(***************************************************************************)
ReturnsOnSuccessOnly ==
    call = "none" /\ result.ended = "returned" =>
        /\ "raw_json" \in DOMAIN result =>
              Successful(answer.status) /\ result.raw_json = WholeAnswer
        /\ "token" \in DOMAIN result =>
              /\ Successful(answer.status)
              /\ result.token.access_token \in issued
              /\ result.token.refresh_token # "" <=>
                    "refresh_token" \in DOMAIN answer.content.object

(***************************************************************************)
(* What is thrown is an HttpError, but for one case: a successful answer   *)
(* that is no token response.  So a server's refusal reaches the caller as *)
(* one, whatever the body of the refusal is.                               *)
(***************************************************************************)
RefusalsAreHttpErrors ==
    result.ended = "json error" /\ call = "none" =>
        /\ Successful(answer.status)
        /\ result.by \in {"exchange_code", "refresh_access_token"}

(***************************************************************************)
(* The credentials stay good for a refresh: once signed in, and over any   *)
(* number of refreshes, failures and half-received answers, the access     *)
(* token is one the server issued and - for a caller that keeps it - the   *)
(* refresh token is the one the server gave.  The response of a refresh    *)
(* has none, which arrives as an empty string.                             *)
(***************************************************************************)
StaysSignedIn ==
    Signed(credentials) =>
        /\ credentials.access_token \in issued
        /\ keeps => credentials.refresh_token = "refresh"

\* The seconds a long can hold as milliseconds.
LongestTimeout == LongMax \div 1000

(***************************************************************************)
(* Every call of a client ends, even when the server never answers; so     *)
(* does send for any other timeout that is not 0 and fits.                 *)
(***************************************************************************)
CallsEnd ==
    (call # "none" /\ request.timeout \in 1..LongestTimeout) ~> (call = "none")
=============================================================================
