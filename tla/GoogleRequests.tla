--------------------------- MODULE GoogleRequests ---------------------------
(***************************************************************************)
(* The URLs the OAuth and Calendar clients build from a request            *)
(* (oauth_client.cpp, calendar_client.cpp), and the scopes of a token      *)
(* response.  Values are bytes.  The names of the fields are the code's    *)
(* own and made of unreserved characters only; each is one letter here,    *)
(* and so is every value the code gives itself.                            *)
(***************************************************************************)
EXTENDS UrlEncoding

Letter(n) == <<96 + n>>

Joined(joined, scope) == IF joined = << >> THEN scope ELSE joined \o <<Space>> \o scope

join_scopes(scopes) == FoldLeft(Joined, << >>, scopes)

IsSpace(byte) == byte = Space \/ byte \in 9..13

\* The words of a text, as istream >> string takes them: the last of them is
\* being read, and is empty while there are only spaces before it.
Read(words, byte) ==
    IF ~ IsSpace(byte) THEN [words EXCEPT ![Len(words)] = Append(@, byte)]
    ELSE IF words[Len(words)] = << >> THEN words
    ELSE Append(words, << >>)

split_scopes(text) ==
    LET words == FoldLeft(Read, << << >> >>, text)
    IN  IF words[Len(words)] = << >> THEN SubSeq(words, 1, Len(words) - 1) ELSE words

\* A base, a '?' and the fields, form-encoded.
WithQuery(base, fields) == base \o <<Question>> \o form_encode(fields)

AuthorizationFields(request) ==
    LET Field(n, value) == [name |-> Letter(n), value |-> value]
    IN  << Field(1, request.client_id),
           Field(2, request.redirect_uri),
           Field(3, Letter(3)),                 \* response_type=code
           Field(4, join_scopes(request.scopes)),
           Field(5, request.state),
           Field(6, request.code_challenge),
           Field(7, request.code_challenge_method),
           Field(8, Letter(8)),                 \* access_type=offline
           Field(9, Letter(9)) >>               \* prompt=consent

authorization_url(request) == WithQuery(<<Slash>>, AuthorizationFields(request))

\* An empty time is left out; a page token is optional (a set of at most one).
EventsFields(request) ==
    LET Field(n, value) == [name |-> Letter(n), value |-> value]
        Unless(absent, field) == IF absent THEN << >> ELSE <<field>>
    IN  << Field(1, Letter(1)),                 \* singleEvents=true
           Field(2, Letter(2)),                 \* orderBy=startTime
           Field(3, Letter(3)) >>               \* maxResults
        \o Unless(request.time_min = << >>, Field(4, request.time_min))
        \o Unless(request.time_max = << >>, Field(5, request.time_max))
        \o FlattenSeq(SetToSeq({<<Field(6, token)>> : token \in request.page_token}))

\* Mutant: the calendar id goes into the path as it is.
calendar_events_url_RawId(request) ==
    WithQuery(<<Slash>> \o request.calendar_id \o <<Slash>>, EventsFields(request))

calendar_events_url(request) ==
    WithQuery(<<Slash>> \o percent_encode(request.calendar_id) \o <<Slash>>, EventsFields(request))
=============================================================================
