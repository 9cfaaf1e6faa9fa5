--------------------------- MODULE LoopbackServer ---------------------------
(***************************************************************************)
(* LoopbackAuthorizationServer: the HTTP server of one answer that catches *)
(* the redirect of the browser at the end of the OAuth consent page.       *)
(*                                                                         *)
(* Its constructor binds a socket to the port and listens, or throws.      *)
(* Each wait_for_callback accepts one connection, reads one request from   *)
(* it, answers it and returns what the query of its target said.  The      *)
(* other side is the browser (and anything else that finds the port): it   *)
(* opens connections, sends its request in one piece or several, and       *)
(* closes or resets whenever it likes.  A request is the redirect itself,  *)
(* another well-formed one (the icon of the page, say), or no HTTP at all. *)
(***************************************************************************)
EXTENDS Naturals, Sequences

CONSTANTS
    Conns,      \* connections that may be made to the port
    Backlog,    \* connections the listening socket holds for accept
    Timeout,    \* the argument of wait_for_callback
    MaxCalls,   \* bound: calls of wait_for_callback
    Nobody      \* no connection

ASSUME ServerAssumption ==
    /\ Backlog \in Nat \ {0}
    /\ Timeout \in Nat
    /\ MaxCalls \in Nat
    /\ Nobody \notin Conns

Requests == {"redirect", "other", "malformed"}

\* How much of a request there is: its first line decides everything; the
\* whole is the line, the headers and the blank line (or 16 KiB of anything).
Amounts == {"nothing", "line", "whole"}

VARIABLES
    pc,         \* where constructor or wait_for_callback is, or how the server ended
    left,       \* seconds of the timeout left to select
    client,     \* the connection accepted
    request,    \* how much of its request read_request has
    queue,      \* connections waiting to be accepted
    peer,       \* the other side of every connection: new, open, closed, reset
    asks,       \* what it asks for
    sent,       \* how much of that it has sent
    shown,      \* what it got: nothing, the "you can close this window" page, a reset
    outcome,    \* how the last wait_for_callback ended
    returned,   \* the callback wait_for_callback has returned for a connection:
                \* with a code, without one, or none so far
    came,       \* was there a connection to accept during the last wait_for_callback?
    calls

server == <<pc, left, client, request>>
peers == <<peer, asks, sent>>
vars == <<pc, left, client, request, queue, peer, asks, sent, shown, outcome, returned,
          came, calls>>

TypeOK ==
    /\ pc \in {"constructing", "idle", "selecting", "reading", "parsing", "answered",
              "failed", "leaked", "destroyed", "killed"}
    /\ left \in 0..Timeout
    /\ client \in Conns \cup {Nobody}
    /\ request \in Amounts
    /\ queue \in Seq(Conns) /\ Len(queue) <= Backlog
    /\ peer \in [Conns -> {"new", "open", "closed", "reset"}]
    /\ asks \in [Conns -> Requests]
    /\ sent \in [Conns -> Amounts]
    /\ shown \in [Conns -> {"nothing", "page", "reset"}]
    /\ outcome \in {"none", "callback", "timed out", "socket error", "invalid request"}
    /\ returned \in [Conns -> {"nothing", "code", "no code"}]
    /\ came \in BOOLEAN
    /\ calls \in 0..MaxCalls

Init ==
    /\ pc = "constructing"
    /\ left = 0
    /\ client = Nobody
    /\ request = "nothing"
    /\ queue = << >>
    /\ peer = [c \in Conns |-> "new"]
    /\ asks \in [Conns -> Requests]
    /\ sent = [c \in Conns |-> "nothing"]
    /\ shown = [c \in Conns |-> "nothing"]
    /\ outcome = "none"
    /\ returned = [c \in Conns |-> "nothing"]
    /\ came = FALSE
    /\ calls = 0

-----------------------------------------------------------------------------

\* There is a server object.
Serving == pc \in {"idle", "selecting", "reading", "parsing", "answered"}

\* There is a socket that listens: the server's, or one nobody knows any more.
Listening == Serving \/ pc = "leaked"

Constructed(state) ==
    /\ pc = "constructing"
    /\ pc' = state
    /\ UNCHANGED <<left, client, request, queue, peers, shown, outcome, returned, came, calls>>

\* The constructor has bound the socket to the port, and listens.
Construct == Constructed("idle")

\* There is no socket to be had, or the port is taken: bind and listen close the
\* socket before they throw.
ConstructFails == Constructed("failed")

\* The port of the listening socket cannot be asked for.  socket_port throws in the
\* initialiser of port_, the destructor does not run, and nobody closes the socket.
GetsocknameFails == Constructed("leaked")

\* Mutant: the backlog has no limit.
Connect_Unlimited(c) ==
    /\ Listening
    /\ peer[c] = "new"
    /\ peer' = [peer EXCEPT ![c] = "open"]
    /\ queue' = Append(queue, c)
    /\ came' = (came \/ pc = "selecting")
    /\ UNCHANGED <<server, asks, sent, shown, outcome, returned, calls>>

\* A connection completes in the kernel when the backlog has room for it.
Connect(c) ==
    /\ Listening
    /\ peer[c] = "new"
    /\ Len(queue) < Backlog
    /\ peer' = [peer EXCEPT ![c] = "open"]
    /\ queue' = Append(queue, c)
    /\ came' = (came \/ pc = "selecting")
    /\ UNCHANGED <<server, asks, sent, shown, outcome, returned, calls>>

Send(c) ==
    /\ peer[c] = "open"
    /\ \E amount \in (IF sent[c] = "nothing" THEN {"line", "whole"}
                      ELSE {"whole"} \ {sent[c]}) :
            sent' = [sent EXCEPT ![c] = amount]
    /\ UNCHANGED <<server, queue, peer, asks, shown, outcome, returned, came, calls>>

\* The peer is gone, in good order or by a reset.
Close(c) ==
    /\ peer[c] = "open"
    /\ \E how \in {"closed", "reset"} : peer' = [peer EXCEPT ![c] = how]
    /\ UNCHANGED <<server, queue, asks, sent, shown, outcome, returned, came, calls>>

-----------------------------------------------------------------------------

WaitForCallback ==
    /\ pc = "idle"
    /\ calls < MaxCalls
    /\ calls' = calls + 1
    /\ pc' = "selecting"
    /\ left' = Timeout
    /\ came' = (queue # << >>)
    /\ outcome' = "none"
    /\ UNCHANGED <<client, request, queue, peers, shown, returned>>

\* A second passes while select waits.
Tick ==
    /\ pc = "selecting"
    /\ left > 0
    /\ left' = left - 1
    /\ UNCHANGED <<pc, client, request, queue, peers, shown, outcome, returned, came, calls>>

\* wait_for_callback returns or throws: ~ScopedSocket closes the connection.
End(how) ==
    /\ pc' = "idle"
    /\ outcome' = how
    /\ client' = Nobody
    /\ request' = "nothing"

\* Mutant: the clock is looked at before the socket.
SelectTimesOut_ClockFirst ==
    /\ pc = "selecting"
    /\ left = 0
    /\ End("timed out")
    /\ UNCHANGED <<left, queue, peers, shown, returned, came, calls>>

SelectTimesOut ==
    /\ pc = "selecting"
    /\ left = 0
    /\ queue = << >>
    /\ End("timed out")
    /\ UNCHANGED <<left, queue, peers, shown, returned, came, calls>>

\* select or accept fails, interrupted by a signal for one.
SocketError ==
    /\ pc = "selecting"
    /\ End("socket error")
    /\ UNCHANGED <<left, queue, peers, shown, returned, came, calls>>

Accept ==
    /\ pc = "selecting"
    /\ queue # << >>
    /\ client' = Head(queue)
    /\ queue' = Tail(queue)
    /\ request' = "nothing"
    /\ pc' = "reading"
    /\ UNCHANGED <<left, peers, shown, outcome, returned, came, calls>>

\* recv returns what has arrived; it waits for that without any timeout.
Recv ==
    /\ pc = "reading"
    /\ sent[client] # request
    /\ request' = sent[client]
    /\ pc' = IF request' = "whole" THEN "parsing" ELSE "reading"
    /\ UNCHANGED <<left, client, queue, peers, shown, outcome, returned, came, calls>>

\* Mutant: the end of the stream is not taken for one.
RecvEnd_ErrorsOnly ==
    /\ pc = "reading"
    /\ peer[client] = "reset"
    /\ pc' = "parsing"
    /\ UNCHANGED <<left, client, request, queue, peers, shown, outcome, returned, came, calls>>

\* Mutant: a socket that does not block; nothing has arrived yet, and that is taken
\* for the end.
RecvEnd_NothingYet ==
    /\ pc = "reading"
    /\ sent[client] = request \/ peer[client] = "reset"
    /\ pc' = "parsing"
    /\ UNCHANGED <<left, client, request, queue, peers, shown, outcome, returned, came, calls>>

\* recv returns 0 after the last byte of a peer that has closed, or an error,
\* which may overtake what was sent, for one that has reset: read_request makes
\* do with what it has.
RecvEnd ==
    /\ pc = "reading"
    /\ \/ peer[client] = "closed" /\ sent[client] = request
       \/ peer[client] = "reset"
    /\ pc' = "parsing"
    /\ UNCHANGED <<left, client, request, queue, peers, shown, outcome, returned, came, calls>>

\* Only the first line is looked at: a method, a target and a version.
request_target_valid(c, amount) == asks[c] # "malformed" /\ amount # "nothing"

\* Mutant: the page is sent before the request is looked at.
InvalidRequest_AfterPage ==
    /\ pc = "parsing"
    /\ ~ request_target_valid(client, request)
    /\ shown' = [shown EXCEPT ![client] = "page"]
    /\ End("invalid request")
    /\ UNCHANGED <<left, queue, peers, returned, came, calls>>

InvalidRequest ==
    /\ pc = "parsing"
    /\ ~ request_target_valid(client, request)
    /\ shown' = [shown EXCEPT ![client] = "reset"]
    /\ End("invalid request")
    /\ UNCHANGED <<left, queue, peers, returned, came, calls>>

\* The page is sent whatever the target was.  Nobody looks at the result of send.
SendPage ==
    /\ pc = "parsing"
    /\ request_target_valid(client, request)
    /\ shown' = [shown EXCEPT ![client] = IF peer[client] = "reset" THEN "reset" ELSE "page"]
    /\ pc' = "answered"
    /\ UNCHANGED <<left, client, request, queue, peers, outcome, returned, came, calls>>

\* The callback has a code only when the target was the redirect.
Return ==
    /\ pc = "answered"
    /\ returned' = [returned EXCEPT ![client] =
                       IF asks[client] = "redirect" THEN "code" ELSE "no code"]
    /\ End("callback")
    /\ UNCHANGED <<left, queue, peers, shown, came, calls>>

\* The listening socket is closed, and with it what was not accepted.
HangUp ==
    /\ queue' = << >>
    /\ shown' = [c \in Conns |->
                    IF c = client \/ \E i \in DOMAIN queue : queue[i] = c
                    THEN "reset" ELSE shown[c]]

\* send to a peer that has reset raises SIGPIPE, which ends the process, unless
\* the reset is reported as the error of that very call.
SendKills ==
    /\ pc = "parsing"
    /\ request_target_valid(client, request)
    /\ peer[client] = "reset"
    /\ pc' = "killed"
    /\ client' = Nobody
    /\ HangUp
    /\ UNCHANGED <<left, request, peers, outcome, returned, came, calls>>

\* Mutant: the socket stays open, and with it the connections in its backlog.
Destroy_SocketLeftOpen ==
    /\ pc = "idle"
    /\ pc' = "destroyed"
    /\ UNCHANGED <<left, client, request, queue, peers, shown, outcome, returned, came, calls>>

Destroy ==
    /\ pc = "idle"
    /\ pc' = "destroyed"
    /\ HangUp
    /\ UNCHANGED <<left, client, request, peers, outcome, returned, came, calls>>

ServerStep ==
    SelectTimesOut \/ Accept \/ Recv \/ RecvEnd \/ InvalidRequest \/ SendPage \/ Return \/ SendKills

Next ==
    \/ Construct \/ ConstructFails \/ GetsocknameFails
    \/ WaitForCallback
    \/ Tick
    \/ ServerStep
    \/ SocketError
    \/ Destroy
    \/ \E c \in Conns : Connect(c) \/ Send(c) \/ Close(c)

\* The thread in wait_for_callback runs and time passes; nobody else need do anything.
Spec == Init /\ [][Next]_vars /\ WF_vars(Tick) /\ WF_vars(ServerStep)

\* ... and every peer closes or resets its connection in the end.
PeersCloseSpec == Spec /\ \A c \in Conns : WF_vars(Close(c))

-----------------------------------------------------------------------------

(***************************************************************************)
(* "You can close this window" is shown to a peer only when its request is *)
(* what wait_for_callback has returned or is about to, and every peer it   *)
(* has returned saw the page or had reset: request_target throws before    *)
(* the page is sent, and nothing throws after, whatever the peer does then.*)
(***************************************************************************)
PageMeansReturned ==
    \A c \in Conns :
        /\ shown[c] = "page" => returned[c] # "nothing" \/ (pc = "answered" /\ c = client)
        /\ returned[c] # "nothing" => shown[c] = "page" \/ peer[c] = "reset"

Waiting == {queue[i] : i \in DOMAIN queue}

\* The peer is there, or has left what it wanted to say.
Heard(c) == peer[c] = "open" \/ (peer[c] = "closed" /\ sent[c] # "nothing")

(***************************************************************************)
(* A stray connection - the browser's request for an icon, a port scan -   *)
(* can cost a call of wait_for_callback, which returns without a code or   *)
(* throws, and so can a timeout or a failed accept.  None of them costs    *)
(* the redirect: as long as there is a server, a redirect that has got     *)
(* through is being served, waits in the backlog for the next call, or has *)
(* had its code returned - after any number of calls, and whenever its     *)
(* peer closes.                                                            *)
(***************************************************************************)
RedirectNotLost ==
    Serving => \A c \in Conns :
        asks[c] = "redirect" /\ Heard(c) => c = client \/ c \in Waiting \/ returned[c] = "code"

(***************************************************************************)
(* A call times out only when there was nobody to accept during all of it: *)
(* a connection that comes in its last second, or came before the call and *)
(* waited in the backlog, is served.                                       *)
(***************************************************************************)
TimedOutAlone == outcome = "timed out" => ~ came

(***************************************************************************)
(* Once nothing listens any more, the server being destroyed or killed     *)
(* with its process, no peer is left waiting for an answer: every          *)
(* connection that was made has been answered or reset, those in the       *)
(* backlog included.  (The socket of GetsocknameFails listens on: what     *)
(* connects to it waits until the process ends.)                           *)
(***************************************************************************)
NobodyLeftHanging == ~ Listening => \A c \in Conns : peer[c] # "new" => shown[c] # "nothing"

(***************************************************************************)
(* wait_for_callback ends: it returns a callback or throws (or dies of     *)
(* SIGPIPE).  Only the wait for a connection has a timeout, so this needs  *)
(* peers that close.                                                       *)
(***************************************************************************)
WaitEnds == pc \in {"selecting", "reading", "parsing", "answered"} ~> pc \in {"idle", "killed"}
=============================================================================
