------------------------ MODULE GoogleSessionProofs ------------------------
(***************************************************************************)
(* The safety properties of GoogleSession for any number of pieces of a    *)
(* body, any tokens, any statuses of the server and any timeouts.          *)
(***************************************************************************)
EXTENDS GoogleSession, SequenceTheorems, TLAPS

\* The status codes a response can begin with.
StatusCodes == Statuses \cup {0, 103, 200, 400, 401}

\* What has arrived is a beginning of what the server sent: headers first, then
\* the pieces of the body.
Beginning ==
    /\ response = [status_code |-> response.status_code, headers |-> response.headers,
                   body |-> Part(response.body.content, response.body.received)]
    /\ response.headers \in Seq(StatusCodes)
    /\ Responses \in Seq(StatusCodes)
    /\ response.body.received \in 0..Chunks
    /\ answer.interim \in Seq(StatusCodes) /\ answer.status \in StatusCodes
    /\ phase = "performing" =>
          /\ Len(response.headers) <= Len(Responses)
          /\ \A i \in 1..Len(response.headers) : response.headers[i] = Responses[i]
          /\ answer = NoAnswer => response = Fresh
          /\ response.body.received > 0 =>
                /\ Len(response.headers) = Len(Responses)
                /\ response.body.content = answer.content

\* The call of a client and the call of send it is waiting for.
CallShape ==
    /\ phase \in {"unconstructed", "idle", "performing", "returned", "threw"}
    /\ phase \in {"unconstructed", "idle"} <=> call = "none"
    /\ call = "exchange_code" => request.grant = "authorization_code"
    /\ call = "refresh_access_token" => Signed(credentials)
    /\ credentials = [access_token |-> credentials.access_token,
                      refresh_token |-> credentials.refresh_token]
    /\ keeps \in BOOLEAN

\* Tokens in a successful answer are Google's, and a code buys a refresh token.
GoogleTokens(content) ==
    LET Has(member) == content.type = "object" /\ member \in DOMAIN content.object
    IN  /\ Has("access_token") =>
              /\ content.object.access_token.string \in issued
              /\ request.grant = "authorization_code" => Has("refresh_token")
        /\ Has("refresh_token") => content.object.refresh_token.string = "refresh"

AnswerHonest == Successful(answer.status) => GoogleTokens(answer.content)

IInv ==
    /\ Beginning
    /\ CallShape
    /\ AnswerHonest
    /\ WholeOrError
    /\ ReturnsOnSuccessOnly
    /\ RefusalsAreHttpErrors
    /\ StaysSignedIn
-----------------------------------------------------------------------------

\* What can become of the response to a token request.
LEMMA TokenResult ==
    ASSUME NEW resp, NEW r \in parse_token_response(resp)
    PROVE  /\ r.by = call
           /\ r.ended \in {"returned", "HttpError", "json error"}
           /\ r.ended = "json error" => Successful(resp.status_code)
           /\ "raw_json" \notin DOMAIN r
           /\ r.ended = "returned" =>
                 /\ Successful(resp.status_code)
                 /\ resp.body.content.type = "object"
                 /\ "access_token" \in DOMAIN resp.body.content.object
                 /\ r.token.access_token = resp.body.content.object.access_token.string
                 /\ r.token.refresh_token =
                       IF "refresh_token" \in DOMAIN resp.body.content.object
                       THEN resp.body.content.object.refresh_token.string ELSE ""
           /\ r.ended = "returned" <=> "token" \in DOMAIN r
<1> DEFINE tokens == UNION {oauth_token(json) : json \in parse(resp.body)}
<1>1. ASSUME NEW token \in tokens
      PROVE  /\ resp.body.content.type = "object"
             /\ "access_token" \in DOMAIN resp.body.content.object
             /\ token.access_token = resp.body.content.object.access_token.string
             /\ token.refresh_token =
                   IF "refresh_token" \in DOMAIN resp.body.content.object
                   THEN resp.body.content.object.refresh_token.string ELSE ""
  <2>1. token \in oauth_token(resp.body.content)
    BY DEF parse
  <2>2. /\ token.access_token \in get_at(resp.body.content, "access_token", "string")
        /\ token.refresh_token \in value(resp.body.content, "refresh_token", "string", "")
    BY <2>1 DEF oauth_token
  <2>3. PICK m \in at(resp.body.content, "access_token") : token.access_token \in get(m, "string")
    BY <2>2 DEF get_at
  <2>4. token.access_token = m.string
    BY <2>3 DEF get
  <2>5. /\ resp.body.content.type = "object"
        /\ "access_token" \in DOMAIN resp.body.content.object
        /\ m = resp.body.content.object["access_token"]
    BY <2>3 DEF at
  <2>6. token.refresh_token =
           IF "refresh_token" \in DOMAIN resp.body.content.object
           THEN resp.body.content.object.refresh_token.string ELSE ""
    BY <2>2, <2>5 DEF value, get
  <2> QED
    BY <2>4, <2>5, <2>6
<1>2. r \in IF ~ Successful(resp.status_code) THEN {HttpErrorResult("Transport")}
            ELSE IF tokens = {} THEN {[ended |-> "json error", by |-> call]}
            ELSE {[ended |-> "returned", by |-> call, token |-> token] : token \in tokens}
  BY DEF parse_token_response
<1> HIDE DEF tokens
<1>3. CASE ~ Successful(resp.status_code)
  <2>1. r = [ended |-> "HttpError", by |-> call, code |-> "Transport"]
    BY <1>2, <1>3 DEF HttpErrorResult
  <2> QED
    BY <2>1
<1>4. CASE Successful(resp.status_code) /\ tokens = {}
  <2>1. r = [ended |-> "json error", by |-> call]
    BY <1>2, <1>4
  <2> QED
    BY <1>4, <2>1
<1>5. CASE Successful(resp.status_code) /\ tokens # {}
  <2>1. PICK token \in tokens : r = [ended |-> "returned", by |-> call, token |-> token]
    BY <1>2, <1>5
  <2> QED
    BY <1>1, <1>5, <2>1
<1> QED
  BY <1>3, <1>4, <1>5

\* And of the response to a fetch.
LEMMA EventsResult ==
    ASSUME NEW resp, NEW r \in events_result(resp)
    PROVE  /\ r.ended \in {"returned", "HttpError"}
           /\ "token" \notin DOMAIN r
           /\ r.ended = "returned" => Successful(resp.status_code) /\ r.raw_json = resp.body
  BY DEF events_result, HttpErrorResult

-----------------------------------------------------------------------------

LEMMA SessionInit == Init => IInv
<1> SUFFICES ASSUME Init PROVE IInv
  OBVIOUS
<1>1. /\ phase = "unconstructed" /\ call = "none" /\ keeps \in BOOLEAN
      /\ answer = NoAnswer /\ response = Fresh
      /\ result = [ended |-> "none"]
      /\ credentials = [access_token |-> "", refresh_token |-> ""]
  BY SessionAssumption DEF Init, HttpInit
<1>2. Responses = <<0>>
  <2>1. answer.interim = << >> /\ answer.status = 0
    BY <1>1 DEF NoAnswer
  <2> QED
    BY <2>1 DEF Responses
<1>3. Beginning
  <2>1. Responses \in Seq(StatusCodes)
    BY <1>2 DEF StatusCodes
  <2>2. answer.interim \in Seq(StatusCodes) /\ answer.status \in StatusCodes
    <3>1. answer.interim = << >> /\ answer.status = 0
      BY <1>1 DEF NoAnswer
    <3> QED
      BY <3>1 DEF StatusCodes
  <2> QED
    <3>1. response.headers = << >> /\ response.body.received = 0 /\ phase = "unconstructed"
      BY <1>1 DEF Fresh, Part
    <3>2. response.headers \in Seq(StatusCodes) /\ response.body.received \in 0..Chunks
      BY <3>1, CurlAssumption
    <3> QED
      BY <1>1, <2>1, <2>2, <3>1, <3>2 DEF Beginning, Fresh, Part
<1>4. CallShape
  BY <1>1 DEF CallShape
<1>5. AnswerHonest
  <2>1. answer.status = 0
    BY <1>1 DEF NoAnswer
  <2>2. ~ Successful(answer.status)
    BY <2>1 DEF Successful
  <2> QED
    BY <2>2 DEF AnswerHonest
<1>6. WholeOrError /\ ReturnsOnSuccessOnly /\ RefusalsAreHttpErrors /\ StaysSignedIn
  BY <1>1 DEF WholeOrError, ReturnsOnSuccessOnly, RefusalsAreHttpErrors, StaysSignedIn, Signed
<1> QED
  BY <1>3, <1>4, <1>5, <1>6 DEF IInv

\* A call of send begins: by a client, or for its own sake.
LEMMA SendStep ==
    ASSUME IInv, NEW req, send(req), call = "none",
           call' \in {"exchange_code", "refresh_access_token", "fetch_events", "other"},
           call' = "exchange_code" => req.grant = "authorization_code",
           call' = "refresh_access_token" => Signed(credentials),
           UNCHANGED <<keeps, result, credentials, issued, live, spent>>
    PROVE  IInv'
<1> USE DEF IInv
<1>1. response' = Fresh /\ answer' = NoAnswer /\ request' = req /\ phase' \in {"performing", "threw"}
  BY DEF send, ThrowHttpError
<1>2. Beginning'
  <2>1. Responses' = <<0>>
    BY <1>1 DEF Responses, NoAnswer
  <2>2. Responses' \in Seq(StatusCodes)
    BY <2>1 DEF StatusCodes
  <2>3. answer'.interim \in Seq(StatusCodes) /\ answer'.status \in StatusCodes
    BY <1>1 DEF NoAnswer, StatusCodes
  <2> QED
    BY <1>1, <2>1, <2>2, <2>3, CurlAssumption DEF Beginning, Fresh, Part
<1>3. CallShape'
  BY <1>1 DEF CallShape, Signed
<1>4. AnswerHonest'
  BY <1>1 DEF AnswerHonest, NoAnswer, Successful
<1>5. WholeOrError' /\ ReturnsOnSuccessOnly' /\ RefusalsAreHttpErrors'
  BY <1>1 DEF WholeOrError, ReturnsOnSuccessOnly, RefusalsAreHttpErrors
<1>6. StaysSignedIn'
  BY DEF StaysSignedIn, Signed
<1> QED
  BY <1>2, <1>3, <1>4, <1>5, <1>6

\* An answer like this, the first and only one to a request, arrives.
LEMMA Replied ==
    ASSUME IInv, NEW status \in StatusCodes, NEW content,
           Replies(status, content), Successful(status) => GoogleTokens(content)',
           issued \subseteq issued', UNCHANGED <<keeps, call, result, credentials>>
    PROVE  IInv'
<1>1. PICK interim \in {<< >>, <<103>>} :
         Answer([status |-> status, interim |-> interim, content |-> content])
  BY DEF Replies
<1>2. /\ phase = "performing" /\ answer = NoAnswer
      /\ answer'.status = status /\ answer'.interim = interim /\ answer'.content = content
      /\ UNCHANGED <<phase, request, response>>
  BY <1>1 DEF Answer
<1>3. Beginning'
  <2>1. interim \in Seq(StatusCodes)
    <3>1. << >> \in Seq(StatusCodes)
      OBVIOUS
    <3>2. 103 \in StatusCodes
      BY DEF StatusCodes
    <3>3. <<103>> \in Seq(StatusCodes)
      BY <3>2
    <3> QED
      BY <3>1, <3>3
  <2>2. Responses' = Append(interim, status)
    BY <1>2 DEF Responses
  <2>3. Responses' \in Seq(StatusCodes) /\ Len(Responses') >= 0
    BY <2>1, <2>2
  <2>4. response = Fresh
    BY <1>2 DEF IInv, Beginning
  <2>5. response.headers = << >> /\ response.body.received = 0
    BY <2>4 DEF Fresh, Part
  <2> QED
    BY <1>2, <2>1, <2>3, <2>4, <2>5 DEF IInv, Beginning
<1>4. CallShape'
  BY <1>2 DEF IInv, CallShape, Signed
<1>5. AnswerHonest'
  BY <1>2 DEF AnswerHonest, GoogleTokens
<1>6. WholeOrError' /\ ReturnsOnSuccessOnly' /\ RefusalsAreHttpErrors'
  BY <1>2 DEF IInv, CallShape, WholeOrError, ReturnsOnSuccessOnly, RefusalsAreHttpErrors
<1>7. StaysSignedIn'
  BY <1>2 DEF IInv, StaysSignedIn, Signed
<1> QED
  BY <1>3, <1>4, <1>5, <1>6, <1>7 DEF IInv

\* The server, or somebody in between, answers.
LEMMA AnswerStep == IInv /\ ServerAnswers => IInv'
<1> SUFFICES ASSUME IInv, ServerAnswers PROVE IInv'
  OBVIOUS
<1>1. UNCHANGED <<keeps, call, result, credentials>>
  BY DEF ServerAnswers
<1>2. {200, 400, 401} \cup Statuses \subseteq StatusCodes
  BY DEF StatusCodes
<1>3. CASE TokenEndpoint
  <2>1. CASE Accepted
    <3>1. PICK token \in Tokens :
             /\ \E content \in Grants(token) : Replies(200, content)
             /\ issued' = issued \cup {token}
      BY <1>3, <2>1 DEF TokenEndpoint
    <3>2. PICK content \in Grants(token) : Replies(200, content)
      BY <3>1
    <3>3. UNCHANGED request
      BY <3>2 DEF Replies, Answer
    <3>4. \/ content = Object([access_token |-> String(token), refresh_token |-> String("refresh"),
                               expires_in |-> Number(3600)])
          \/ /\ request.grant = "refresh_token"
             /\ content = Object([access_token |-> String(token)])
      BY DEF Grants
    <3>5. /\ content.object.access_token.string = token
          /\ content.type = "object"
          /\ request.grant = "authorization_code" => "refresh_token" \in DOMAIN content.object
          /\ "refresh_token" \in DOMAIN content.object =>
                content.object.refresh_token.string = "refresh"
      BY <3>4 DEF Object, String
    <3>6. GoogleTokens(content)'
      BY <3>1, <3>3, <3>5 DEF GoogleTokens
    <3> QED
      BY <1>1, <1>2, <3>1, <3>2, <3>6, Replied
  <2>2. CASE ~ Accepted
    <3>1. Replies(400, Object([error |-> String("invalid_grant")])) /\ issued' = issued
      BY <1>3, <2>2 DEF TokenEndpoint
    <3>2. ~ Successful(400)
      BY DEF Successful
    <3> QED
      BY <1>1, <1>2, <3>1, <3>2, Replied
  <2> QED
    BY <2>1, <2>2
<1>4. ASSUME NEW status \in StatusCodes, NEW content, Replies(status, content),
             issued' = issued,
             \/ content.type # "object"
             \/ {"access_token", "refresh_token"} \cap DOMAIN content.object = {}
      PROVE  IInv'
  <2>1. GoogleTokens(content)'
    BY <1>4 DEF GoogleTokens
  <2> QED
    BY <1>1, <1>4, <2>1, Replied
<1>5. CASE CalendarEndpoint
  <2>1. issued' = issued
    BY <1>5 DEF CalendarEndpoint
  <2>2. CASE Replies(200, Object([items |-> Array(<< >>)]))
    <3>1. {"access_token", "refresh_token"} \cap DOMAIN Object([items |-> Array(<< >>)]).object = {}
      BY DEF Object
    <3> QED
      BY <1>2, <1>4, <2>1, <2>2, <3>1
  <2>3. CASE Replies(401, Object([error |-> String("unauthorized")]))
    <3>1. {"access_token", "refresh_token"}
             \cap DOMAIN Object([error |-> String("unauthorized")]).object = {}
      BY DEF Object
    <3> QED
      BY <1>2, <1>4, <2>1, <2>3, <3>1
  <2> QED
    BY <1>5, <2>2, <2>3 DEF CalendarEndpoint
<1>6. CASE Elsewhere
  <2>1. issued' = issued
    BY <1>6 DEF Elsewhere
  <2>2. CASE \E status \in Statuses : Replies(status, Other)
    <3>1. Other.type # "object"
      BY DEF Other
    <3> QED
      BY <1>2, <1>4, <2>1, <2>2, <3>1
  <2>3. CASE Replies(200, Object([message |-> String("sorry")]))
    <3>1. {"access_token", "refresh_token"}
             \cap DOMAIN Object([message |-> String("sorry")]).object = {}
      BY DEF Object
    <3> QED
      BY <1>2, <1>4, <2>1, <2>3, <3>1
  <2> QED
    BY <1>6, <2>2, <2>3 DEF Elsewhere
<1> QED
  BY <1>3, <1>5, <1>6 DEF ServerAnswers

\* Headers and body arrive, the transfer is complete, or it breaks off.
LEMMA TransferStep == IInv /\ Transfers => IInv'
<1> SUFFICES ASSUME IInv, Transfers PROVE IInv'
  OBVIOUS
<1> USE DEF IInv
<1>1. /\ phase = "performing" /\ phase' \in {"performing", "returned", "threw"}
      /\ UNCHANGED <<request, answer, keeps, call, result, credentials, issued>>
  BY DEF Transfers, Transfer, session, write_header, write_body, Complete, Break, Expire,
         ThrowHttpError
<1>2. Responses' = Responses
  BY <1>1 DEF Responses
<1>3. Beginning' /\ WholeOrError'
  <2> DEFINE heard == Len(response.headers)
  <2>1. /\ response.headers \in Seq(StatusCodes) /\ Responses \in Seq(StatusCodes)
        /\ heard \in Nat /\ Len(Responses) \in Nat /\ response.body.received \in 0..Chunks
        /\ heard <= Len(Responses)
        /\ \A i \in 1..heard : response.headers[i] = Responses[i]
    BY <1>1 DEF Beginning
  <2>2. CASE write_header
    <3> DEFINE header == Responses[heard + 1]
    <3>1. /\ phase' = "performing" /\ answer # NoAnswer /\ heard < Len(Responses)
          /\ response' = [response EXCEPT !.headers = Append(@, header)]
      BY <2>2 DEF write_header
    <3>2. response' = [status_code |-> response.status_code,
                       headers |-> Append(response.headers, header),
                       body |-> response.body]
      BY <3>1 DEF Beginning
    <3>3. header \in StatusCodes
      BY <2>1, <3>1
    <3>4. /\ Append(response.headers, header) \in Seq(StatusCodes)
          /\ Len(Append(response.headers, header)) = heard + 1
          /\ \A i \in 1..heard : Append(response.headers, header)[i] = response.headers[i]
          /\ Append(response.headers, header)[heard + 1] = header
      BY <2>1, <3>3, AppendProperties
    <3>5. \A i \in 1..(heard + 1) : Append(response.headers, header)[i] = Responses[i]
      BY <2>1, <3>4
    <3>6. response.body.received = 0
      BY <1>1, <2>1, <3>1 DEF Beginning
    <3>7. response'.headers = Append(response.headers, header) /\ response'.body.received = 0
      BY <3>2, <3>6
    <3>8. /\ response' = [status_code |-> response'.status_code, headers |-> response'.headers,
                          body |-> Part(response'.body.content, response'.body.received)]
          /\ answer' # NoAnswer /\ phase' = "performing"
      <4>1. response'.body = response.body
            /\ response' = [status_code |-> response'.status_code, headers |-> response'.headers,
                             body |-> response'.body]
        BY <3>2
      <4>2. response.body = Part(response.body.content, response.body.received)
        BY DEF Beginning
      <4>3. response'.body = Part(response'.body.content, response'.body.received)
        BY <4>1, <4>2
      <4> QED
        BY <1>1, <3>1, <4>1, <4>3
    <3>9. /\ response'.headers \in Seq(StatusCodes) /\ Len(response'.headers) = heard + 1
          /\ \A i \in 1..Len(response'.headers) : response'.headers[i] = Responses'[i]
          /\ heard + 1 <= Len(Responses')
      BY <1>2, <2>1, <3>1, <3>4, <3>5, <3>7
    <3>10. Responses' \in Seq(StatusCodes) /\ response'.body.received \in 0..Chunks
      BY <1>2, <2>1, <3>6, <3>7
    <3>11. answer'.interim \in Seq(StatusCodes) /\ answer'.status \in StatusCodes
      BY <1>1 DEF Beginning
    <3> HIDE DEF header, heard
    <3> QED
      BY <3>7, <3>8, <3>9, <3>10, <3>11 DEF Beginning, WholeOrError
  <2>3. CASE write_body
    <3>1. response' = [status_code |-> response.status_code, headers |-> response.headers,
                       body |-> Part(answer.content, response.body.received + 1)]
      BY <2>3 DEF write_body, Beginning
    <3>2. /\ phase' = "performing" /\ answer # NoAnswer
          /\ heard = Len(Responses) /\ response.body.received < Chunks
      BY <2>3 DEF write_body
    <3>3. response.body.received + 1 \in 0..Chunks
      BY <2>1, <3>2, CurlAssumption
    <3> QED
      BY <1>1, <1>2, <2>1, <3>1, <3>2, <3>3 DEF Beginning, WholeOrError, Part
  <2>4. CASE Complete
    <3>1. /\ response' = [status_code |-> answer.status, headers |-> response.headers,
                          body |-> response.body]
          /\ phase' = "returned" /\ response.body.received = Chunks
      BY <2>4 DEF Complete, Beginning
    <3>2. heard = Len(Responses) /\ response.body.content = answer.content
      BY <1>1, <3>1, CurlAssumption DEF Beginning
    <3>3. response.headers = Responses
      BY <2>1, <3>2, SeqEqual
    <3>4. /\ Responses # << >> /\ Responses[Len(Responses)] = answer.status
      BY DEF Beginning, Responses
    <3>5. response.body = WholeAnswer
      BY <3>1, <3>2 DEF Beginning, WholeAnswer, Part
    <3>6. WholeOrError'
      BY <1>1, <3>1, <3>3, <3>4, <3>5 DEF WholeOrError, WholeAnswer
    <3> QED
      BY <1>1, <1>2, <2>1, <3>1, <3>2, <3>3, <3>6 DEF Beginning
  <2>5. CASE Break \/ Expire
    <3>1. phase' = "threw" /\ response' = response
      BY <2>5 DEF Break, Expire, ThrowHttpError
    <3> QED
      BY <1>1, <1>2, <2>1, <3>1 DEF Beginning, WholeOrError
  <2> QED
    BY <2>2, <2>3, <2>4, <2>5 DEF Transfers, Transfer
<1>4. CallShape'
  BY <1>1 DEF CallShape, Signed
<1>5. AnswerHonest'
  BY <1>1 DEF AnswerHonest, GoogleTokens
<1>6. ReturnsOnSuccessOnly' /\ RefusalsAreHttpErrors' /\ StaysSignedIn'
  BY <1>1 DEF ReturnsOnSuccessOnly, RefusalsAreHttpErrors, StaysSignedIn, Signed, WholeAnswer
<1> QED
  BY <1>3, <1>4, <1>5, <1>6

\* The caller has the result of its call, and stores the tokens it brings.
LEMMA CallEndsStep == IInv /\ CallEnds => IInv'
<1> SUFFICES ASSUME IInv, CallEnds PROVE IInv'
  OBVIOUS
<1>1. /\ phase \in {"returned", "threw"} /\ phase' = "idle"
      /\ call # "none" /\ call' = "none"
      /\ UNCHANGED <<request, answer, response, keeps, issued>>
  BY DEF CallEnds, Taken
<1>2. Responses' = Responses
  BY <1>1 DEF Responses
<1>3. Beginning' /\ WholeOrError' /\ AnswerHonest'
  BY <1>1, <1>2 DEF IInv, Beginning, WholeOrError, AnswerHonest, GoogleTokens
<1>4. phase = "returned" => /\ response.status_code = answer.status
                            /\ response.body = WholeAnswer
                            /\ response.body.content = answer.content
  BY DEF IInv, WholeOrError, WholeAnswer, Part
<1>5. /\ result'.ended = "json error" =>
            /\ Successful(answer.status)
            /\ result'.by \in {"exchange_code", "refresh_access_token"}
      /\ result'.ended = "returned" /\ "raw_json" \in DOMAIN result' =>
            Successful(answer.status) /\ result'.raw_json = WholeAnswer
      /\ result'.ended = "returned" /\ "token" \in DOMAIN result' =>
            /\ call \in {"exchange_code", "refresh_access_token"}
            /\ Successful(answer.status)
            /\ answer.content.type = "object"
            /\ "access_token" \in DOMAIN answer.content.object
            /\ result'.token.access_token = answer.content.object.access_token.string
            /\ result'.token.refresh_token =
                  IF "refresh_token" \in DOMAIN answer.content.object
                  THEN answer.content.object.refresh_token.string ELSE ""
  <2>1. CASE phase = "threw"
    <3>1. result' = [ended |-> "HttpError", by |-> call, code |-> error]
      BY <2>1 DEF CallEnds, HttpErrorResult
    <3> QED
      BY <3>1
  <2>2. CASE phase = "returned" /\ call \in {"exchange_code", "refresh_access_token"}
    <3>1. result' \in parse_token_response(response)
      BY <2>2 DEF CallEnds
    <3> DEFINE r == result'
    <3>2. /\ r.by = call
          /\ r.ended = "json error" => Successful(response.status_code)
          /\ "raw_json" \notin DOMAIN r
          /\ r.ended = "returned" =>
                /\ Successful(response.status_code)
                /\ response.body.content.type = "object"
                /\ "access_token" \in DOMAIN response.body.content.object
                /\ r.token.access_token = response.body.content.object.access_token.string
                /\ r.token.refresh_token =
                      IF "refresh_token" \in DOMAIN response.body.content.object
                      THEN response.body.content.object.refresh_token.string ELSE ""
      <4> HIDE DEF r
      <4>1. r \in parse_token_response(response)
        BY <3>1 DEF r
      <4> QED
        BY <4>1, TokenResult
    <3>3. response.status_code = answer.status /\ response.body.content = answer.content
      BY <1>4, <2>2
    <3> HIDE DEF r
    <3>4. /\ r.ended = "json error" =>
               Successful(answer.status) /\ r.by \in {"exchange_code", "refresh_access_token"}
          /\ "raw_json" \notin DOMAIN r
      BY <2>2, <3>2, <3>3
    <3>5. r.ended = "returned" =>
             /\ Successful(answer.status)
             /\ answer.content.type = "object"
             /\ "access_token" \in DOMAIN answer.content.object
             /\ r.token.access_token = answer.content.object.access_token.string
             /\ r.token.refresh_token =
                   IF "refresh_token" \in DOMAIN answer.content.object
                   THEN answer.content.object.refresh_token.string ELSE ""
      BY <3>2, <3>3
    <3> QED
      BY <2>2, <3>4, <3>5 DEF r
  <2>3. CASE phase = "returned" /\ call = "fetch_events"
    <3>1. PICK r \in events_result(response) : result' = r
      BY <2>3 DEF CallEnds
    <3> QED
      BY <1>4, <2>3, <3>1, EventsResult
  <2>4. CASE phase = "returned"
             /\ call \notin {"exchange_code", "refresh_access_token", "fetch_events"}
    <3>1. result' = [ended |-> "returned", by |-> call, status_code |-> response.status_code]
      BY <2>4 DEF CallEnds
    <3> QED
      BY <3>1
  <2> QED
    BY <1>1, <2>1, <2>2, <2>3, <2>4
<1>6. ReturnsOnSuccessOnly' /\ RefusalsAreHttpErrors'
  <2>1. WholeAnswer' = WholeAnswer
    BY <1>1 DEF WholeAnswer
  <2>2. ASSUME result'.ended = "returned", "token" \in DOMAIN result'
        PROVE  /\ result'.token.access_token \in issued
               /\ result'.token.refresh_token # "" <=>
                     "refresh_token" \in DOMAIN answer.content.object
    BY <1>5, <2>2 DEF IInv, AnswerHonest, GoogleTokens
  <2> QED
    BY <1>1, <1>5, <2>1, <2>2 DEF ReturnsOnSuccessOnly, RefusalsAreHttpErrors
<1>7. CallShape' /\ StaysSignedIn'
  <2>1. CASE result'.ended = "returned" /\ "token" \in DOMAIN result'
    <3> DEFINE token == result'.token
    <3>1. credentials' = [access_token |-> token.access_token,
                          refresh_token |-> IF keeps /\ token.refresh_token = ""
                                            THEN credentials.refresh_token
                                            ELSE token.refresh_token]
      BY <2>1 DEF CallEnds, Stored
    <3>2. token.access_token \in issued
      BY <1>5, <2>1 DEF IInv, AnswerHonest, GoogleTokens
    <3>3. ASSUME keeps
          PROVE  credentials'.refresh_token = "refresh"
      <4>1. token.refresh_token \in {"", "refresh"}
        BY <1>5, <2>1 DEF IInv, AnswerHonest, GoogleTokens
      <4>2. call = "exchange_code" => token.refresh_token = "refresh"
        BY <1>5, <2>1 DEF IInv, AnswerHonest, GoogleTokens, CallShape
      <4>3. call = "refresh_access_token" => credentials.refresh_token = "refresh"
        BY <3>3 DEF IInv, CallShape, StaysSignedIn
      <4> QED
        BY <1>5, <2>1, <3>1, <3>3, <4>1, <4>2, <4>3
    <3>4. StaysSignedIn'
      BY <1>1, <3>1, <3>2, <3>3 DEF StaysSignedIn
    <3>5. CallShape'
      BY <1>1, <3>1 DEF IInv, CallShape
    <3> QED
      BY <3>4, <3>5
  <2>2. CASE ~ (result'.ended = "returned" /\ "token" \in DOMAIN result')
    <3>1. credentials' = credentials
      BY <2>2 DEF CallEnds
    <3> QED
      BY <1>1, <3>1 DEF IInv, CallShape, StaysSignedIn, Signed
  <2> QED
    BY <2>1, <2>2
<1> QED
  BY <1>3, <1>6, <1>7 DEF IInv
-----------------------------------------------------------------------------

\* fetch_events refuses an empty access token, and sends nothing.
LEMMA RefusedStep ==
    ASSUME IInv, call = "none", result' = [ended |-> "HttpError", by |-> "fetch_events",
                                           code |-> "InvalidRequest"],
           UNCHANGED <<http, call, keeps, credentials, issued, live, spent>>
    PROVE  IInv'
<1>1. UNCHANGED <<phase, request, answer, response>>
  BY DEF http
<1>2. Beginning' /\ WholeOrError'
  BY <1>1 DEF IInv, Beginning, WholeOrError, WholeAnswer, Responses
<1>3. CallShape' /\ AnswerHonest'
  BY <1>1 DEF IInv, CallShape, AnswerHonest, GoogleTokens, Signed
<1>4. ReturnsOnSuccessOnly' /\ RefusalsAreHttpErrors' /\ StaysSignedIn'
  BY <1>1 DEF IInv, ReturnsOnSuccessOnly, RefusalsAreHttpErrors, StaysSignedIn, Signed,
              WholeAnswer
<1> QED
  BY <1>2, <1>3, <1>4 DEF IInv

\* The constructor has initialised libcurl, or not; nothing else has changed.
LEMMA ConstructStep == IInv /\ Constructs => IInv'
<1> SUFFICES ASSUME IInv, Constructs PROVE IInv'
  OBVIOUS
<1>1. /\ phase = "unconstructed" /\ phase' \in {"unconstructed", "idle"}
      /\ UNCHANGED <<request, answer, response, session>>
  BY DEF Constructs, Construct
<1>2. Beginning' /\ WholeOrError'
  BY <1>1 DEF IInv, Beginning, WholeOrError, WholeAnswer, Responses
<1>3. CallShape' /\ AnswerHonest'
  BY <1>1 DEF IInv, CallShape, AnswerHonest, GoogleTokens, Signed, session
<1>4. ReturnsOnSuccessOnly' /\ RefusalsAreHttpErrors' /\ StaysSignedIn'
  BY <1>1 DEF IInv, ReturnsOnSuccessOnly, RefusalsAreHttpErrors, StaysSignedIn, Signed,
              WholeAnswer, session
<1> QED
  BY <1>2, <1>3, <1>4 DEF IInv

\* The tokens run out, or nothing happens.
LEMMA QuietStep ==
    ASSUME IInv, UNCHANGED <<http, keeps, call, result, credentials, issued, spent>>
    PROVE  IInv'
<1>1. UNCHANGED <<phase, request, answer, response>>
  BY DEF http
<1>2. Beginning' /\ WholeOrError'
  BY <1>1 DEF IInv, Beginning, WholeOrError, WholeAnswer, Responses
<1>3. CallShape' /\ AnswerHonest'
  BY <1>1 DEF IInv, CallShape, AnswerHonest, GoogleTokens, Signed
<1>4. ReturnsOnSuccessOnly' /\ RefusalsAreHttpErrors' /\ StaysSignedIn'
  BY <1>1 DEF IInv, ReturnsOnSuccessOnly, RefusalsAreHttpErrors, StaysSignedIn, Signed,
              WholeAnswer
<1> QED
  BY <1>2, <1>3, <1>4 DEF IInv

LEMMA SessionInductive == Spec => []IInv
<1>1. Init => IInv
  BY SessionInit
<1>2. IInv /\ [Next]_vars => IInv'
  <2> SUFFICES ASSUME IInv, [Next]_vars PROVE IInv'
    OBVIOUS
  <2>1. CASE exchange_code
    <3> DEFINE req == token_request("authorization_code", "code")
    <3>1. req.grant = "authorization_code"
      BY DEF token_request
    <3>2. /\ send(req) /\ call = "none" /\ call' = "exchange_code"
          /\ UNCHANGED <<keeps, result, credentials, issued, live, spent>>
      BY <2>1 DEF exchange_code
    <3> HIDE DEF req
    <3> QED
      BY <3>1, <3>2, SendStep
  <2>2. CASE refresh_access_token
    <3> DEFINE req == token_request("refresh_token", credentials.refresh_token)
    <3>1. /\ send(req) /\ call = "none" /\ call' = "refresh_access_token" /\ Signed(credentials)
          /\ UNCHANGED <<keeps, result, credentials, issued, live, spent>>
      BY <2>2 DEF refresh_access_token
    <3> HIDE DEF req
    <3> QED
      BY <3>1, SendStep
  <2>3. CASE fetch_events
    <3>1. call = "none" /\ UNCHANGED <<keeps, credentials, issued, live, spent>>
      BY <2>3 DEF fetch_events
    <3>2. CASE credentials.access_token = ""
      <4>1. /\ result' = [ended |-> "HttpError", by |-> "fetch_events", code |-> "InvalidRequest"]
            /\ UNCHANGED <<http, call>>
        BY <2>3, <3>2 DEF fetch_events
      <4> QED
        BY <3>1, <4>1, RefusedStep
    <3>3. CASE credentials.access_token # ""
      <4> DEFINE req == events_request(credentials.access_token)
      <4>1. send(req) /\ call' = "fetch_events" /\ UNCHANGED result
        BY <2>3, <3>3 DEF fetch_events
      <4> HIDE DEF req
      <4> QED
        BY <3>1, <4>1, SendStep
    <3> QED
      BY <3>2, <3>3
  <2>4. CASE other_request
    <3>1. PICK url \in {"", "http"}, timeout \in Timeouts :
             send([to |-> "other", url |-> url, timeout |-> timeout])
      BY <2>4 DEF other_request
    <3>2. /\ call = "none" /\ call' = "other"
          /\ UNCHANGED <<keeps, result, credentials, issued, live, spent>>
      BY <2>4 DEF other_request
    <3> QED
      BY <3>1, <3>2, SendStep
  <2>5. CASE ServerAnswers
    BY <2>5, AnswerStep
  <2>6. CASE TokensExpire
    BY <2>6, QuietStep DEF TokensExpire
  <2>7. CASE Transfers
    BY <2>7, TransferStep
  <2>8. CASE CallEnds
    BY <2>8, CallEndsStep
  <2>9. CASE Constructs
    BY <2>9, ConstructStep
  <2>10. CASE UNCHANGED vars
    BY <2>10, QuietStep DEF vars, session
  <2> QED
    BY <2>1, <2>2, <2>3, <2>4, <2>5, <2>6, <2>7, <2>8, <2>9, <2>10 DEF Next
<1> QED
  BY <1>1, <1>2, PTL DEF Spec

(***************************************************************************)
(* send returns nothing but the whole final response of the server, for    *)
(* any number of interim responses and of pieces of the body, wherever the *)
(* connection breaks.                                                      *)
(***************************************************************************)
THEOREM Whole == Spec => []WholeOrError
<1>1. IInv => WholeOrError
  BY DEF IInv
<1> QED
  BY <1>1, SessionInductive, PTL

(***************************************************************************)
(* A client returns events only from a successful answer to the request it *)
(* sent, and then all Chunks pieces of its body; it returns tokens only    *)
(* when the server issued them, with a refresh token only when the answer  *)
(* has one.  It rests on Whole: send returns no beginning of a body.       *)
(***************************************************************************)
THEOREM ReturnsHaveAgreement == Spec => []ReturnsOnSuccessOnly
<1>1. IInv => ReturnsOnSuccessOnly
  BY DEF IInv
<1> QED
  BY <1>1, SessionInductive, PTL

(***************************************************************************)
(* Whatever a server refuses with, the caller gets an HttpError: a json    *)
(* error means that a successful answer was no token response.             *)
(***************************************************************************)
THEOREM RefusalsArrive == Spec => []RefusalsAreHttpErrors
<1>1. IInv => RefusalsAreHttpErrors
  BY DEF IInv
<1> QED
  BY <1>1, SessionInductive, PTL

(***************************************************************************)
(* After the exchange of the code, any number of refreshes, failures and   *)
(* answers cut off leave the caller, if it keeps the refresh token it has, *)
(* with the one Google gave.                                               *)
(***************************************************************************)
THEOREM SignedInStays == Spec => []StaysSignedIn
<1>1. IInv => StaysSignedIn
  BY DEF IInv
<1> QED
  BY <1>1, SessionInductive, PTL

-----------------------------------------------------------------------------

\* A limit in milliseconds fits a long, whatever the timeout overflows to.
LEMMA LimitFits == \A timeout \in Nat : Limit(timeout) \in 0..LongMax
<1> SUFFICES ASSUME NEW timeout \in Nat PROVE Limit(timeout) \in 0..LongMax
  OBVIOUS
<1> DEFINE base == 2 * LongMax + 2
           shifted == timeout * 1000 + LongMax + 1
<1>1. base \in Nat /\ base > 0 /\ shifted \in Nat
  BY CurlAssumption
<1>2. timeout_ms(timeout) = (shifted % base) - (LongMax + 1)
  BY DEF timeout_ms, to_long
<1> HIDE DEF base, shifted
<1>3. shifted % base \in 0..(base - 1)
  BY <1>1
<1>4. timeout_ms(timeout) \in (- (LongMax + 1))..LongMax
  BY <1>2, <1>3, CurlAssumption DEF base
<1> QED
  BY <1>4, CurlAssumption DEF Limit

\* A call of send begins with a limit that fits.
LEMMA SendTypeOK ==
    ASSUME HttpTypeOK, NEW req, req.timeout \in Nat, send(req)
    PROVE  HttpTypeOK'
<1>1. Limit(req.timeout) \in 0..LongMax /\ 0 \in 0..LongMax
  BY LimitFits, CurlAssumption
<1>2. response'.body.received = 0
  BY DEF send, Fresh, Part
<1>3. response'.body.received \in 0..Chunks
  BY <1>2, CurlAssumption
<1> QED
  BY <1>1, <1>3 DEF send, ThrowHttpError, HttpTypeOK, HttpErrorCode

\* The result of a call, and the credentials after it, have their types.
LEMMA CallEndsTypeOK == IInv /\ TypeOK /\ CallEnds => TypeOK'
<1> SUFFICES ASSUME IInv, TypeOK, CallEnds PROVE TypeOK'
  OBVIOUS
<1>1. /\ phase \in {"returned", "threw"} /\ phase' = "idle" /\ call' = "none"
      /\ UNCHANGED <<request, limit, answer, response, error, keeps, issued, live, spent>>
  BY DEF CallEnds, Taken
<1>2. HttpTypeOK'
  BY <1>1 DEF TypeOK, HttpTypeOK
<1>3. /\ result'.ended \in {"returned", "HttpError", "json error"}
      /\ result'.ended = "returned" /\ "token" \in DOMAIN result' =>
            /\ result'.token.access_token \in issued
            /\ result'.token.refresh_token \in {"", "refresh"}
  <2>1. CASE phase = "threw"
    <3>1. result' = [ended |-> "HttpError", by |-> call, code |-> error]
      BY <2>1 DEF CallEnds, HttpErrorResult
    <3> QED
      BY <3>1
  <2>2. CASE phase = "returned" /\ call \in {"exchange_code", "refresh_access_token"}
    <3> DEFINE r == result'
    <3>1. r \in parse_token_response(response)
      BY <2>2 DEF CallEnds
    <3>2. Successful(response.status_code) => GoogleTokens(response.body.content)
      BY <2>2 DEF IInv, AnswerHonest, WholeOrError, WholeAnswer, Part
    <3> HIDE DEF r
    <3>3. /\ r.ended \in {"returned", "HttpError", "json error"}
          /\ r.ended = "returned" =>
                /\ Successful(response.status_code)
                /\ response.body.content.type = "object"
                /\ "access_token" \in DOMAIN response.body.content.object
                /\ r.token.access_token = response.body.content.object.access_token.string
                /\ r.token.refresh_token =
                      IF "refresh_token" \in DOMAIN response.body.content.object
                      THEN response.body.content.object.refresh_token.string ELSE ""
      BY <3>1, TokenResult
    <3>4. r.ended = "returned" => /\ r.token.access_token \in issued
                                  /\ r.token.refresh_token \in {"", "refresh"}
      BY <3>2, <3>3 DEF GoogleTokens
    <3> QED
      BY <3>3, <3>4 DEF r
  <2>3. CASE phase = "returned" /\ call = "fetch_events"
    <3>1. PICK r \in events_result(response) : result' = r
      BY <2>3 DEF CallEnds
    <3> QED
      BY <3>1, EventsResult
  <2>4. CASE phase = "returned"
             /\ call \notin {"exchange_code", "refresh_access_token", "fetch_events"}
    <3>1. result' = [ended |-> "returned", by |-> call, status_code |-> response.status_code]
      BY <2>4 DEF CallEnds
    <3> QED
      BY <3>1
  <2> QED
    BY <1>1, <2>1, <2>2, <2>3, <2>4
<1>4. /\ credentials'.access_token \in Tokens \cup {""}
      /\ credentials'.refresh_token \in {"", "refresh"}
  <2>1. CASE result'.ended = "returned" /\ "token" \in DOMAIN result'
    <3>1. credentials' = Stored(result'.token)
      BY <2>1 DEF CallEnds
    <3>2. /\ credentials'.access_token = result'.token.access_token
          /\ credentials'.refresh_token \in {credentials.refresh_token, result'.token.refresh_token}
      BY <3>1 DEF Stored
    <3> QED
      BY <1>3, <2>1, <3>2 DEF TypeOK
  <2>2. CASE ~ (result'.ended = "returned" /\ "token" \in DOMAIN result')
    BY <2>2 DEF CallEnds, TypeOK
  <2> QED
    BY <2>1, <2>2
<1> QED
  BY <1>1, <1>2, <1>3, <1>4 DEF TypeOK

(***************************************************************************)
(* The parts of a session keep their types: whatever a timeout overflows   *)
(* to, the limit is not negative and fits a long; no more pieces arrive    *)
(* than were sent; the credentials are tokens the server can issue.        *)
(***************************************************************************)
THEOREM SpecTypeOK == Spec => []TypeOK
<1>1. Init => TypeOK
  <2> SUFFICES ASSUME Init PROVE TypeOK
    OBVIOUS
  <2>1. HttpTypeOK
    <3>1. /\ phase = "unconstructed" /\ limit = 0 /\ error = "none"
          /\ response.body.received = 0
      BY DEF Init, HttpInit, Fresh, Part
    <3>2. 0 \in 0..LongMax /\ 0 \in 0..Chunks
      BY CurlAssumption
    <3> QED
      BY <3>1, <3>2 DEF HttpTypeOK
  <2> QED
    BY <2>1, SessionAssumption DEF Init, TypeOK
<1>2. IInv /\ TypeOK /\ [Next]_vars => TypeOK'
  <2> SUFFICES ASSUME IInv, TypeOK, [Next]_vars PROVE TypeOK'
    OBVIOUS
  <2>1. ASSUME NEW req, req.timeout \in Nat, send(req),
               call' \in {"exchange_code", "refresh_access_token", "fetch_events", "other"},
               UNCHANGED <<keeps, result, credentials, issued, live, spent>>
        PROVE  TypeOK'
    BY <2>1, SendTypeOK DEF TypeOK
  <2>2. CASE exchange_code
    <3> DEFINE req == token_request("authorization_code", "code")
    <3>1. req.timeout \in Nat
      BY DEF token_request
    <3>2. /\ send(req) /\ call' = "exchange_code"
          /\ UNCHANGED <<keeps, result, credentials, issued, live, spent>>
      BY <2>2 DEF exchange_code
    <3> HIDE DEF req
    <3> QED
      BY <2>1, <3>1, <3>2
  <2>3. CASE refresh_access_token
    <3> DEFINE req == token_request("refresh_token", credentials.refresh_token)
    <3>1. req.timeout \in Nat
      BY DEF token_request
    <3>2. /\ send(req) /\ call' = "refresh_access_token"
          /\ UNCHANGED <<keeps, result, credentials, issued, live, spent>>
      BY <2>3 DEF refresh_access_token
    <3> HIDE DEF req
    <3> QED
      BY <2>1, <3>1, <3>2
  <2>4. CASE fetch_events
    <3>1. UNCHANGED <<keeps, credentials, issued, live, spent>>
      BY <2>4 DEF fetch_events
    <3>2. CASE credentials.access_token = ""
      <4>1. /\ result' = [ended |-> "HttpError", by |-> "fetch_events",
                          code |-> "InvalidRequest"]
            /\ UNCHANGED <<http, call>>
        BY <2>4, <3>2 DEF fetch_events
      <4> QED
        BY <3>1, <4>1 DEF TypeOK, HttpTypeOK, http
    <3>3. CASE credentials.access_token # ""
      <4> DEFINE req == events_request(credentials.access_token)
      <4>1. req.timeout \in Nat
        BY DEF events_request
      <4>2. send(req) /\ call' = "fetch_events" /\ UNCHANGED result
        BY <2>4, <3>3 DEF fetch_events
      <4> HIDE DEF req
      <4> QED
        BY <2>1, <3>1, <4>1, <4>2
    <3> QED
      BY <3>2, <3>3
  <2>5. CASE other_request
    <3>1. PICK url \in {"", "http"}, timeout \in Timeouts :
             send([to |-> "other", url |-> url, timeout |-> timeout])
      BY <2>5 DEF other_request
    <3>2. call' = "other" /\ UNCHANGED <<keeps, result, credentials, issued, live, spent>>
      BY <2>5 DEF other_request
    <3> QED
      BY <2>1, <3>1, <3>2, SessionAssumption
  <2>6. CASE ServerAnswers
    <3>1. UNCHANGED <<phase, limit, response, error, keeps, call, result, credentials>>
      BY <2>6 DEF ServerAnswers, TokenEndpoint, CalendarEndpoint, Elsewhere, Replies, Answer
    <3>2. issued' \subseteq Tokens /\ live' \subseteq issued' /\ spent' \in BOOLEAN
      BY <2>6 DEF ServerAnswers, TokenEndpoint, CalendarEndpoint, Elsewhere, TypeOK
    <3> QED
      BY <3>1, <3>2 DEF TypeOK, HttpTypeOK
  <2>7. CASE TokensExpire
    BY <2>7 DEF TokensExpire, TypeOK, HttpTypeOK, http
  <2>8. CASE Transfers
    <3>1. /\ phase' \in {"performing", "returned", "threw"} /\ UNCHANGED <<limit, session>>
          /\ error' \in {error, "Transport", "Timeout"}
      BY <2>8 DEF Transfers, Transfer, write_header, write_body, Complete, Break, Expire,
                  ThrowHttpError
    <3>2. response'.body.received \in 0..Chunks
      <4>1. response = [status_code |-> response.status_code, headers |-> response.headers,
                        body |-> Part(response.body.content, response.body.received)]
        BY DEF IInv, Beginning
      <4>2. CASE write_body
        <5>1. response.body.received < Chunks /\ response'.body.received = response.body.received + 1
          BY <4>1, <4>2 DEF write_body, Part
        <5>2. response.body.received \in 0..Chunks
          BY DEF TypeOK, HttpTypeOK
        <5> QED
          BY <5>1, <5>2, CurlAssumption
      <4>3. CASE ~ write_body
        <5>1. response'.body.received = response.body.received
          BY <2>8, <4>1, <4>3
             DEF Transfers, Transfer, write_header, Complete, Break, Expire, ThrowHttpError
        <5> QED
          BY <5>1 DEF TypeOK, HttpTypeOK
      <4> QED
        BY <4>2, <4>3
    <3> QED
      BY <3>1, <3>2 DEF TypeOK, HttpTypeOK, HttpErrorCode, session
  <2>9. CASE CallEnds
    BY <2>9, CallEndsTypeOK
  <2>10. CASE Constructs
    BY <2>10 DEF Constructs, Construct, session, TypeOK, HttpTypeOK, HttpErrorCode
  <2>11. CASE UNCHANGED vars
    BY <2>11 DEF vars, http, session, TypeOK, HttpTypeOK
  <2> QED
    BY <2>2, <2>3, <2>4, <2>5, <2>6, <2>7, <2>8, <2>9, <2>10, <2>11 DEF Next
<1> QED
  BY <1>1, <1>2, SessionInductive, PTL DEF Spec
=============================================================================
