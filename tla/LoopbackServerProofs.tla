------------------------ MODULE LoopbackServerProofs ------------------------
(***************************************************************************)
(* The safety properties of LoopbackServer for any number of connections   *)
(* and calls, any backlog and any timeout.                                 *)
(***************************************************************************)
EXTENDS LoopbackServer, SequenceTheorems, TLAPS

Members(q) == {q[i] : i \in 1..Len(q)}

Distinct(q) == \A i, j \in 1..Len(q) : q[i] = q[j] => i = j

\* The connections of the backlog are different ones, and none is being served.
QueueShape == Distinct(queue) /\ client \notin Members(queue)

ClientShape == client # Nobody <=> pc \in {"reading", "parsing", "answered"}

\* Who has connected and was neither answered nor reset is being served or waits in
\* the backlog, and nobody else does.
Unanswered ==
    \A c \in Conns :
        /\ peer[c] = "new" => shown[c] = "nothing"
        /\ (c = client /\ pc # "answered") \/ c \in Members(queue)
              <=> peer[c] # "new" /\ shown[c] = "nothing"

ReturnedAnswered == \A c \in Conns : returned[c] # "nothing" => shown[c] # "nothing"

\* The page has been sent, and its callback is next.
AnsweredShape ==
    pc = "answered" =>
        /\ shown[client] # "nothing" /\ returned[client] = "nothing"
        /\ shown[client] = "page" \/ peer[client] = "reset"

\* read_request has something, or there is nothing more to have.
ReadShape == pc = "parsing" => request # "nothing" \/ ~ Heard(client)

\* Whoever came during this call is still waiting for accept.
Selecting == pc = "selecting" => outcome = "none" /\ (came => queue # << >>)

\* Without a listening socket nobody waits; before there was one nobody came.
Down ==
    /\ ~ Listening => queue = << >>
    /\ pc = "constructing" => \A c \in Conns : peer[c] = "new"

IInv ==
    /\ TypeOK
    /\ QueueShape
    /\ ClientShape
    /\ Unanswered
    /\ ReturnedAnswered
    /\ AnsweredShape
    /\ ReadShape
    /\ Selecting
    /\ Down
    /\ PageMeansReturned
    /\ TimedOutAlone
    /\ RedirectNotLost
-----------------------------------------------------------------------------

\* A connection joins the backlog at its end.
LEMMA Joined ==
    ASSUME NEW S, NEW q \in Seq(S), NEW c \in S, Distinct(q), c \notin Members(q)
    PROVE  /\ Append(q, c) \in Seq(S) /\ Len(Append(q, c)) = Len(q) + 1
           /\ Distinct(Append(q, c))
           /\ Members(Append(q, c)) = Members(q) \cup {c}
<1> DEFINE a == Append(q, c)
<1>1. /\ a \in Seq(S) /\ Len(a) = Len(q) + 1 /\ Len(q) \in Nat
      /\ \A i \in 1..Len(q) : a[i] = q[i]
      /\ a[Len(q) + 1] = c
  BY AppendProperties, LenProperties
<1> HIDE DEF a
<1>2. \A i \in 1..Len(a) : (i \in 1..Len(q) /\ a[i] = q[i]) \/ (i = Len(q) + 1 /\ a[i] = c)
  BY <1>1
<1>3. Distinct(a)
  BY <1>1, <1>2 DEF Distinct, Members
<1>4. Members(a) = Members(q) \cup {c}
  <2>1. Members(a) \subseteq Members(q) \cup {c}
    BY <1>2 DEF Members
  <2>2. ASSUME NEW i \in 1..Len(q) PROVE q[i] \in Members(a)
    <3>1. i \in 1..Len(a) /\ a[i] = q[i]
      BY <1>1
    <3> QED
      BY <3>1 DEF Members
  <2>3. c \in Members(a)
    <3>1. Len(q) + 1 \in 1..Len(a)
      BY <1>1
    <3> QED
      BY <1>1, <3>1 DEF Members
  <2> QED
    BY <2>1, <2>2, <2>3 DEF Members
<1> QED
  BY <1>1, <1>3, <1>4 DEF a

\* The first connection leaves the backlog.
LEMMA Served ==
    ASSUME NEW S, NEW q \in Seq(S), q # << >>, Distinct(q)
    PROVE  /\ Tail(q) \in Seq(S) /\ Len(Tail(q)) = Len(q) - 1
           /\ Head(q) \in S
           /\ Distinct(Tail(q))
           /\ Head(q) \notin Members(Tail(q))
           /\ Members(q) = Members(Tail(q)) \cup {Head(q)}
<1> DEFINE t == Tail(q)  h == Head(q)
<1>1. /\ t \in Seq(S) /\ Len(t) = Len(q) - 1 /\ Len(q) \in Nat /\ Len(q) >= 1
      /\ \A i \in 1..Len(t) : t[i] = q[i + 1]
      /\ h = q[1] /\ h \in S
  BY HeadTailProperties, EmptySeq
<1> HIDE DEF t, h
<1>2. Distinct(t) /\ h \notin Members(t)
  BY <1>1 DEF Distinct, Members
<1>3. Members(q) = Members(t) \cup {h}
  <2>1. ASSUME NEW i \in 1..Len(q) PROVE q[i] \in Members(t) \cup {h}
    <3>1. CASE i = 1
      BY <1>1, <3>1
    <3>2. CASE i # 1
      <4>1. i - 1 \in 1..Len(t) /\ t[i - 1] = q[i]
        BY <1>1, <3>2
      <4> QED
        BY <4>1 DEF Members
    <3> QED
      BY <3>1, <3>2
  <2>2. ASSUME NEW i \in 1..Len(t) PROVE t[i] \in Members(q)
    <3>1. i + 1 \in 1..Len(q) /\ t[i] = q[i + 1]
      BY <1>1
    <3> QED
      BY <3>1 DEF Members
  <2>3. h \in Members(q)
    BY <1>1 DEF Members
  <2> QED
    BY <2>1, <2>2, <2>3 DEF Members
<1> QED
  BY <1>1, <1>2, <1>3 DEF t, h

LEMMA QueueFacts ==
    ASSUME TypeOK
    PROVE  /\ queue \in Seq(Conns) /\ Len(queue) \in Nat /\ DOMAIN queue = 1..Len(queue)
           /\ Nobody \notin Members(queue)
           /\ Waiting = Members(queue)
<1>1. queue \in Seq(Conns)
  BY DEF TypeOK
<1>2. Len(queue) \in Nat /\ DOMAIN queue = 1..Len(queue)
  BY <1>1, LenProperties
<1>3. \A i \in 1..Len(queue) : queue[i] \in Conns
  BY <1>1
<1>4. Nobody \notin Members(queue)
  BY <1>3, ServerAssumption DEF Members
<1> QED
  BY <1>1, <1>2, <1>4 DEF Waiting, Members

LEMMA NextQueueFacts == TypeOK' => Waiting' = Members(queue)'
<1> SUFFICES ASSUME TypeOK' PROVE Waiting' = Members(queue)'
  OBVIOUS
<1>1. queue' \in Seq(Conns)
  BY DEF TypeOK
<1>2. DOMAIN queue' = 1..Len(queue')
  BY <1>1, LenProperties
<1> QED
  BY <1>2 DEF Waiting, Members

LEMMA NoMembers == Members(<< >>) = {} /\ Distinct(<< >>)
  BY DEF Members, Distinct
-----------------------------------------------------------------------------

LEMMA ServerInit == Init => IInv
<1> SUFFICES ASSUME Init PROVE IInv
  OBVIOUS
<1>1. TypeOK
  <2>1. 0 \in 0..Timeout /\ 0 \in 0..MaxCalls
    BY ServerAssumption
  <2>2. queue \in Seq(Conns) /\ Len(queue) <= Backlog
    <3>1. queue = << >> /\ Len(queue) = 0
      BY DEF Init
    <3> QED
      BY <3>1, ServerAssumption
  <2> QED
    BY <2>1, <2>2 DEF Init, TypeOK, Amounts
<1>2. QueueShape /\ ClientShape /\ Unanswered
  BY NoMembers, ServerAssumption DEF Init, QueueShape, ClientShape, Unanswered
<1>3. /\ ReturnedAnswered /\ AnsweredShape /\ ReadShape /\ Selecting /\ Down
      /\ PageMeansReturned /\ TimedOutAlone /\ RedirectNotLost
  BY DEF Init, ReturnedAnswered, AnsweredShape, ReadShape, Selecting, Down, PageMeansReturned,
         TimedOutAlone, RedirectNotLost, Serving
<1> QED
  BY <1>1, <1>2, <1>3 DEF IInv

\* A peer connects, sends or goes away.
LEMMA PeerStep ==
    ASSUME IInv, NEW c \in Conns, Connect(c) \/ Send(c) \/ Close(c)
    PROVE  IInv'
<1> USE DEF IInv
<1>1. CASE Connect(c)
  <2>1. /\ Listening /\ peer[c] = "new" /\ Len(queue) < Backlog
        /\ peer' = [peer EXCEPT ![c] = "open"]
        /\ queue' = Append(queue, c)
        /\ came' = (came \/ pc = "selecting")
        /\ UNCHANGED <<pc, left, client, request, asks, sent, shown, outcome, returned, calls>>
    BY <1>1 DEF Connect, server
  <2>2. c \notin Members(queue) /\ c # client
    BY <2>1 DEF Unanswered, AnsweredShape
  <2>3. /\ queue' \in Seq(Conns) /\ Len(queue') = Len(queue) + 1
        /\ Distinct(queue') /\ Members(queue') = Members(queue) \cup {c}
    <3>1. queue \in Seq(Conns) /\ Distinct(queue)
      BY DEF TypeOK, QueueShape
    <3>2. queue' = Append(queue, c)
      BY <2>1
    <3> HIDE DEF IInv
    <3> QED
      BY <2>2, <3>1, <3>2, Joined
  <2>4. TypeOK'
    <3>1. Len(queue') <= Backlog
      <4>1. Len(queue) \in Nat
        BY QueueFacts
      <4> HIDE DEF IInv
      <4> QED
        BY <2>1, <2>3, <4>1, ServerAssumption
    <3>2. came' \in BOOLEAN
      BY <2>1 DEF TypeOK
    <3> QED
      BY <2>1, <2>3, <3>1, <3>2 DEF TypeOK
  <2>5. QueueShape' /\ ClientShape'
    BY <2>1, <2>2, <2>3 DEF QueueShape, ClientShape
  <2>6. Unanswered'
    BY <2>1, <2>2, <2>3 DEF Unanswered, TypeOK
  <2>7. ReturnedAnswered' /\ AnsweredShape' /\ ReadShape' /\ Down'
    <3>1. client \in Conns => peer'[client] = peer[client]
      BY <2>1, <2>2 DEF TypeOK
    <3>2. pc \in {"parsing", "answered"} => client \in Conns
      BY DEF ClientShape, TypeOK
    <3> QED
      BY <2>1, <3>1, <3>2
         DEF ReturnedAnswered, AnsweredShape, ReadShape, Heard, Down, Listening, Serving
  <2>8. Selecting' /\ TimedOutAlone'
    <3>1. queue' # << >>
      BY <2>3, QueueFacts
    <3>2. CASE pc = "selecting"
      BY <2>1, <3>1, <3>2 DEF Selecting, TimedOutAlone
    <3>3. CASE pc # "selecting"
      <4>1. (came' <=> came) /\ outcome' = outcome /\ pc' # "selecting"
        BY <2>1, <3>3
      <4> QED
        BY <4>1 DEF Selecting, TimedOutAlone
    <3> QED
      BY <3>2, <3>3
  <2>9. PageMeansReturned'
    BY <2>1 DEF PageMeansReturned, TypeOK
  <2>10. RedirectNotLost'
    <3>1. Waiting' = Waiting \cup {c}
      BY <2>3, <2>4, QueueFacts, NextQueueFacts
    <3>2. \A d \in Conns : d # c => peer'[d] = peer[d]
      BY <2>1 DEF TypeOK
    <3> QED
      BY <2>1, <3>1, <3>2 DEF RedirectNotLost, Heard, Serving
  <2> QED
    BY <2>4, <2>5, <2>6, <2>7, <2>8, <2>9, <2>10
<1>2. CASE Send(c)
  <2>1. /\ peer[c] = "open"
        /\ \E amount \in Amounts : sent' = [sent EXCEPT ![c] = amount]
        /\ UNCHANGED <<pc, left, client, request, queue, peer, asks, shown, outcome, returned,
                       came, calls>>
    BY <1>2 DEF Send, server, Amounts
  <2>2. TypeOK'
    BY <2>1 DEF TypeOK
  <2>3. QueueShape' /\ ClientShape' /\ Unanswered'
    BY <2>1 DEF QueueShape, ClientShape, Unanswered
  <2>4. ReturnedAnswered' /\ Selecting' /\ Down' /\ PageMeansReturned' /\ TimedOutAlone'
    BY <2>1 DEF ReturnedAnswered, Selecting, Down, Listening, Serving, PageMeansReturned,
                TimedOutAlone
  <2>5. \A d \in Conns : Heard(d)' <=> Heard(d)
    BY <2>1 DEF Heard, TypeOK
  <2>6. AnsweredShape' /\ ReadShape'
    <3>1. pc = "parsing" => client \in Conns
      BY DEF ClientShape, TypeOK
    <3> QED
      BY <2>1, <2>5, <3>1 DEF AnsweredShape, ReadShape
  <2>7. RedirectNotLost'
    BY <2>1, <2>5 DEF RedirectNotLost, Waiting, Serving
  <2> QED
    BY <2>2, <2>3, <2>4, <2>6, <2>7
<1>3. CASE Close(c)
  <2>1. /\ peer[c] = "open"
        /\ \E how \in {"closed", "reset"} : peer' = [peer EXCEPT ![c] = how]
        /\ UNCHANGED <<pc, left, client, request, queue, asks, sent, shown, outcome, returned,
                       came, calls>>
    BY <1>3 DEF Close, server
  <2>2. TypeOK'
    BY <2>1 DEF TypeOK
  <2>3. \A d \in Conns : /\ peer[d] = "new" <=> peer'[d] = "new"
                         /\ peer[d] = "reset" => peer'[d] = "reset"
    BY <2>1 DEF TypeOK
  <2>4. QueueShape' /\ ClientShape' /\ Unanswered'
    BY <2>1, <2>3 DEF QueueShape, ClientShape, Unanswered
  <2>5. PageMeansReturned'
    BY <2>1, <2>3 DEF PageMeansReturned
  <2>6. ReturnedAnswered' /\ Selecting' /\ Down' /\ TimedOutAlone'
    BY <2>1 DEF ReturnedAnswered, Selecting, Down, Listening, Serving, TimedOutAlone
  <2>7. \A d \in Conns : Heard(d)' => Heard(d)
    BY <2>1 DEF Heard, TypeOK
  <2>8. AnsweredShape' /\ ReadShape'
    <3>1. pc \in {"parsing", "answered"} => client \in Conns
      BY DEF ClientShape, TypeOK
    <3> QED
      BY <2>1, <2>3, <2>7, <3>1 DEF AnsweredShape, ReadShape
  <2>9. RedirectNotLost'
    BY <2>1, <2>7 DEF RedirectNotLost, Waiting, Serving
  <2> QED
    BY <2>2, <2>4, <2>5, <2>6, <2>8, <2>9
<1> QED
  BY <1>1, <1>2, <1>3

\* What a call that throws has in common, for whatever reason: the connection it had
\* accepted, if any, has been reset; the others wait as before.
LEMMA ThrowStep ==
    ASSUME IInv, pc \in {"selecting", "parsing"}, NEW how, End(how),
           how \in {"timed out", "socket error", "invalid request"},
           TimedOutAlone',
           UNCHANGED <<left, queue, peers, returned, came, calls>>,
           shown' \in [Conns -> {"nothing", "page", "reset"}],
           \A c \in Conns : shown'[c] = IF c = client THEN "reset" ELSE shown[c],
           client # Nobody => ~ (asks[client] = "redirect" /\ Heard(client))
    PROVE  IInv'
<1> USE DEF IInv
<1>1. /\ pc' = "idle" /\ outcome' = how /\ client' = Nobody /\ request' = "nothing"
      /\ UNCHANGED <<left, queue, peer, asks, sent, returned, came, calls>>
  BY DEF End, peers
<1>2. client \in Conns \cup {Nobody} /\ Nobody \notin Conns
  BY ServerAssumption DEF TypeOK
<1>3. TypeOK'
  BY <1>1, <1>2 DEF TypeOK, Amounts
<1>4. QueueShape' /\ ClientShape'
  <2>1. Nobody \notin Members(queue)
    BY QueueFacts
  <2> QED
    BY <1>1, <2>1 DEF QueueShape, ClientShape
<1>5. Unanswered'
  <2> SUFFICES ASSUME NEW c \in Conns
               PROVE  /\ peer[c] = "new" => shown'[c] = "nothing"
                      /\ c \in Members(queue) <=> peer[c] # "new" /\ shown'[c] = "nothing"
    BY <1>1, <1>2 DEF Unanswered
  <2>1. CASE c = client
    BY <1>2, <2>1 DEF Unanswered, QueueShape
  <2>2. CASE c # client
    BY <2>2 DEF Unanswered
  <2> QED
    BY <2>1, <2>2
<1>6. \A c \in Conns : c = client => returned[c] = "nothing" /\ shown[c] = "nothing"
  BY DEF Unanswered, ReturnedAnswered
<1>7. ReturnedAnswered' /\ AnsweredShape' /\ ReadShape'
  BY <1>1, <1>6 DEF ReturnedAnswered, AnsweredShape, ReadShape
<1>8. Selecting' /\ Down' /\ TimedOutAlone'
  BY <1>1 DEF Selecting, Down, Listening, Serving
<1>9. PageMeansReturned'
  BY <1>1, <1>6 DEF PageMeansReturned
<1>10. RedirectNotLost'
  <2>1. Serving /\ Waiting' = Waiting
    BY <1>1 DEF Serving, Waiting
  <2>2. \A c \in Conns : Heard(c)' <=> Heard(c)
    BY <1>1 DEF Heard
  <2>3. \A c \in Conns : asks[c] = "redirect" /\ Heard(c) =>
           c # client /\ (c \in Waiting \/ returned[c] = "code")
    BY <1>2, <2>1 DEF RedirectNotLost
  <2> QED
    BY <1>1, <2>1, <2>2, <2>3 DEF RedirectNotLost
<1> QED
  BY <1>3, <1>4, <1>5, <1>7, <1>8, <1>9, <1>10

\* The page is sent.
LEMMA PageStep == IInv /\ SendPage => IInv'
<1> SUFFICES ASSUME IInv, SendPage PROVE IInv'
  OBVIOUS
<1> USE DEF IInv
<1> DEFINE got == IF peer[client] = "reset" THEN "reset" ELSE "page"
<1>1. /\ pc = "parsing" /\ pc' = "answered"
      /\ shown' = [shown EXCEPT ![client] = got]
      /\ UNCHANGED <<left, client, request, queue, peer, asks, sent, outcome, returned, came, calls>>
  BY DEF SendPage, peers
<1>2. client \in Conns
  BY <1>1 DEF ClientShape, TypeOK
<1>3. /\ shown' \in [Conns -> {"nothing", "page", "reset"}]
      /\ \A c \in Conns : shown'[c] = IF c = client THEN got ELSE shown[c]
  BY <1>1, <1>2 DEF TypeOK
<1>4. shown[client] = "nothing" /\ returned[client] = "nothing" /\ peer[client] # "new"
  BY <1>1, <1>2 DEF Unanswered, ReturnedAnswered
<1> HIDE DEF got
<1>5. got \in {"page", "reset"} /\ (got = "page" \/ peer[client] = "reset")
  BY DEF got
<1>6. TypeOK'
  BY <1>1, <1>3 DEF TypeOK
<1>7. QueueShape' /\ ClientShape'
  BY <1>1 DEF QueueShape, ClientShape
<1>8. Unanswered'
  BY <1>1, <1>2, <1>3, <1>4, <1>5 DEF Unanswered, QueueShape
<1>9. ReturnedAnswered' /\ AnsweredShape' /\ ReadShape'
  BY <1>1, <1>2, <1>3, <1>4, <1>5 DEF ReturnedAnswered, AnsweredShape, ReadShape
<1>10. Selecting' /\ Down' /\ TimedOutAlone'
  BY <1>1 DEF Selecting, Down, Listening, Serving, TimedOutAlone
<1>11. PageMeansReturned'
  BY <1>1, <1>2, <1>3, <1>4, <1>5 DEF PageMeansReturned
<1>12. RedirectNotLost'
  BY <1>1 DEF RedirectNotLost, Heard, Waiting, Serving
<1> QED
  BY <1>6, <1>7, <1>8, <1>9, <1>10, <1>11, <1>12

\* The callback is returned.
LEMMA ReturnStep == IInv /\ Return => IInv'
<1> SUFFICES ASSUME IInv, Return PROVE IInv'
  OBVIOUS
<1> USE DEF IInv
<1> DEFINE callback == IF asks[client] = "redirect" THEN "code" ELSE "no code"
<1>1. /\ pc = "answered" /\ pc' = "idle" /\ outcome' = "callback"
      /\ client' = Nobody /\ request' = "nothing"
      /\ returned' = [returned EXCEPT ![client] = callback]
      /\ UNCHANGED <<left, queue, peer, asks, sent, shown, came, calls>>
  BY DEF Return, End, peers
<1>2. client \in Conns /\ Nobody \notin Conns
  BY <1>1, ServerAssumption DEF ClientShape, TypeOK
<1>3. /\ returned' \in [Conns -> {"nothing", "code", "no code"}]
      /\ \A c \in Conns : returned'[c] = IF c = client THEN callback ELSE returned[c]
  BY <1>1, <1>2 DEF TypeOK
<1>4. /\ shown[client] # "nothing" /\ client \notin Members(queue)
      /\ shown[client] = "page" \/ peer[client] = "reset"
  BY <1>1 DEF AnsweredShape, QueueShape
<1>5. TypeOK'
  BY <1>1, <1>3 DEF TypeOK, Amounts
<1>6. QueueShape' /\ ClientShape'
  BY <1>1, QueueFacts DEF QueueShape, ClientShape
<1>7. Unanswered'
  BY <1>1, <1>2, <1>4 DEF Unanswered
<1>8. ReturnedAnswered' /\ AnsweredShape' /\ ReadShape'
  BY <1>1, <1>3, <1>4 DEF ReturnedAnswered, AnsweredShape, ReadShape
<1>9. Selecting' /\ Down' /\ TimedOutAlone'
  BY <1>1 DEF Selecting, Down, Listening, Serving, TimedOutAlone
<1>10. PageMeansReturned'
  <2>1. \A c \in Conns : c # client =>
           /\ shown[c] = "page" => returned[c] # "nothing"
           /\ returned[c] # "nothing" => shown[c] = "page" \/ peer[c] = "reset"
    BY DEF PageMeansReturned
  <2> QED
    BY <1>1, <1>3, <1>4, <2>1 DEF PageMeansReturned
<1>11. RedirectNotLost'
  <2>1. Serving /\ Waiting' = Waiting
    BY <1>1 DEF Serving, Waiting
  <2> QED
    BY <1>1, <1>2, <1>3, <2>1 DEF RedirectNotLost, Heard
<1> QED
  BY <1>5, <1>6, <1>7, <1>8, <1>9, <1>10, <1>11

\* The server is gone, and has reset whom it had not answered.
LEMMA HangUpStep ==
    ASSUME IInv, HangUp, pc \in {"idle", "parsing"}, pc' \in {"destroyed", "killed"},
           client' = Nobody,
           UNCHANGED <<left, request, peers, outcome, returned, came, calls>>
    PROVE  IInv'
<1> USE DEF IInv
<1>1. UNCHANGED <<left, request, peer, asks, sent, outcome, returned, came, calls>>
  BY DEF peers
<1>2. /\ queue' = << >> /\ Members(queue') = {} /\ Distinct(queue') /\ Len(queue') = 0
      /\ queue' \in Seq(Conns)
  BY NoMembers DEF HangUp
<1>3. /\ shown' \in [Conns -> {"nothing", "page", "reset"}]
      /\ \A c \in Conns : shown'[c] = IF c = client \/ c \in Members(queue) THEN "reset"
                                      ELSE shown[c]
  <2>1. DOMAIN queue = 1..Len(queue)
    BY QueueFacts
  <2>2. \A c \in Conns : (\E i \in DOMAIN queue : queue[i] = c) <=> c \in Members(queue)
    BY <2>1 DEF Members
  <2> QED
    BY <2>2 DEF HangUp, TypeOK
<1>4. TypeOK'
  <2>1. 0 <= Backlog
    BY ServerAssumption
  <2> QED
    BY <1>1, <1>2, <1>3, <2>1 DEF TypeOK
<1>5. QueueShape' /\ ClientShape' /\ Down' /\ Selecting'
  BY <1>2 DEF QueueShape, ClientShape, Down, Selecting
<1>6. Unanswered'
  <2>1. \A c \in Conns : c # Nobody
    BY ServerAssumption
  <2> QED
    BY <1>1, <1>2, <1>3, <2>1 DEF Unanswered
<1>7. \A c \in Conns : returned[c] # "nothing" => c # client /\ c \notin Members(queue)
  BY DEF Unanswered, ReturnedAnswered
<1>8. /\ ReturnedAnswered' /\ AnsweredShape' /\ ReadShape'
      /\ PageMeansReturned' /\ TimedOutAlone' /\ RedirectNotLost'
  <2>1. \A c \in Conns : returned[c] # "nothing" => shown'[c] = shown[c]
    BY <1>3, <1>7
  <2>2. ReturnedAnswered' /\ AnsweredShape' /\ ReadShape' /\ RedirectNotLost'
    BY <1>1, <2>1 DEF ReturnedAnswered, AnsweredShape, ReadShape, RedirectNotLost, Serving
  <2>3. PageMeansReturned'
    BY <1>1, <1>3, <2>1 DEF PageMeansReturned
  <2>4. TimedOutAlone'
    <3>1. (came' <=> came) /\ outcome' = outcome
      BY <1>1
    <3> QED
      BY <3>1 DEF TimedOutAlone
  <2> QED
    BY <2>2, <2>3, <2>4
<1> QED
  BY <1>4, <1>5, <1>6, <1>8

\* The call in progress goes on: it accepts a connection or reads from it.
LEMMA CallStep == IInv /\ (Accept \/ Recv \/ RecvEnd) => IInv'
<1> SUFFICES ASSUME IInv, Accept \/ Recv \/ RecvEnd PROVE IInv'
  OBVIOUS
<1> USE DEF IInv
<1>1. /\ pc \in {"selecting", "reading"} /\ pc' \in {"reading", "parsing"}
      /\ UNCHANGED <<left, peer, asks, sent, shown, outcome, returned, came, calls>>
  BY DEF Accept, Recv, RecvEnd, peers
<1>2. ReturnedAnswered' /\ AnsweredShape' /\ Selecting' /\ Down' /\ PageMeansReturned'
  BY <1>1 DEF ReturnedAnswered, AnsweredShape, Selecting, Down, Listening, Serving,
              PageMeansReturned
<1>3. TimedOutAlone'
  BY <1>1 DEF TimedOutAlone
<1>4. CASE Accept
  <2>1. /\ pc = "selecting" /\ pc' = "reading" /\ queue # << >>
        /\ client' = Head(queue) /\ queue' = Tail(queue) /\ request' = "nothing"
    BY <1>4 DEF Accept
  <2>2. queue \in Seq(Conns) /\ Distinct(queue) /\ client = Nobody
    BY <2>1, QueueFacts DEF QueueShape, ClientShape
  <2>3. /\ queue' \in Seq(Conns) /\ Len(queue') = Len(queue) - 1
        /\ client' \in Conns
        /\ Distinct(queue') /\ client' \notin Members(queue')
        /\ Members(queue) = Members(queue') \cup {client'}
    BY <2>1, <2>2, Served
  <2>4. TypeOK'
    <3>1. Len(queue) \in Nat /\ Len(queue) <= Backlog
      BY QueueFacts DEF TypeOK
    <3>2. Len(queue') <= Backlog
      <4> HIDE DEF IInv
      <4> QED
        BY <2>3, <3>1, ServerAssumption
    <3> QED
      BY <1>1, <2>1, <2>3, <3>2 DEF TypeOK, Amounts
  <2>5. QueueShape' /\ ClientShape'
    BY <2>1, <2>3, ServerAssumption DEF QueueShape, ClientShape
  <2>6. Unanswered'
    <3>1. Nobody \notin Conns
      BY ServerAssumption
    <3> QED
      BY <1>1, <2>1, <2>2, <2>3, <3>1 DEF Unanswered
  <2>7. ReadShape' /\ RedirectNotLost'
    <3>1. Waiting = Waiting' \cup {client'}
      BY <2>3, <2>4, QueueFacts, NextQueueFacts
    <3> QED
      BY <1>1, <2>1, <2>2, <3>1, ServerAssumption DEF ReadShape, RedirectNotLost, Heard, Serving
  <2> QED
    BY <1>2, <1>3, <2>4, <2>5, <2>6, <2>7
<1>5. CASE Recv \/ RecvEnd
  <2>1. /\ pc = "reading" /\ UNCHANGED <<client, queue>>
        /\ request' = request \/ request' = sent[client]
    BY <1>5 DEF Recv, RecvEnd
  <2>2. client \in Conns
    BY <2>1 DEF ClientShape, TypeOK
  <2>3. TypeOK'
    BY <1>1, <2>1, <2>2 DEF TypeOK
  <2>4. QueueShape' /\ ClientShape' /\ Unanswered'
    BY <1>1, <2>1 DEF QueueShape, ClientShape, Unanswered
  <2>5. ReadShape'
    <3>1. CASE Recv
      BY <3>1 DEF Recv, ReadShape
    <3>2. CASE RecvEnd
      BY <1>1, <3>2 DEF RecvEnd, ReadShape, Heard
    <3> QED
      BY <1>5, <3>1, <3>2
  <2>6. RedirectNotLost'
    BY <1>1, <2>1 DEF RedirectNotLost, Heard, Waiting, Serving
  <2> QED
    BY <1>2, <1>3, <2>3, <2>4, <2>5, <2>6
<1> QED
  BY <1>4, <1>5

\* The call throws, in each of its ways.
LEMMA CallThrows == IInv /\ (SelectTimesOut \/ SocketError \/ InvalidRequest) => IInv'
<1> SUFFICES ASSUME IInv, SelectTimesOut \/ SocketError \/ InvalidRequest
             PROVE IInv'
  OBVIOUS
<1>1. shown \in [Conns -> {"nothing", "page", "reset"}] /\ Nobody \notin Conns
  BY ServerAssumption DEF IInv, TypeOK
<1>2. CASE SelectTimesOut
  <2>1. /\ pc = "selecting" /\ queue = << >> /\ End("timed out")
        /\ UNCHANGED <<left, queue, peers, shown, returned, came, calls>>
    BY <1>2 DEF SelectTimesOut
  <2>2. client = Nobody /\ ~ came
    BY <2>1 DEF IInv, ClientShape, Selecting
  <2>3. TimedOutAlone'
    BY <2>1, <2>2 DEF TimedOutAlone
  <2> QED
    BY <1>1, <2>1, <2>2, <2>3, ThrowStep
<1>3. CASE SocketError
  <2>1. /\ pc = "selecting" /\ End("socket error")
        /\ UNCHANGED <<left, queue, peers, shown, returned, came, calls>>
    BY <1>3 DEF SocketError
  <2>2. client = Nobody
    BY <2>1 DEF IInv, ClientShape
  <2>3. TimedOutAlone'
    BY <2>1 DEF TimedOutAlone, End
  <2> QED
    BY <1>1, <2>1, <2>2, <2>3, ThrowStep
<1>4. CASE InvalidRequest
  <2>1. /\ pc = "parsing" /\ End("invalid request")
        /\ ~ request_target_valid(client, request)
        /\ shown' = [shown EXCEPT ![client] = "reset"]
        /\ UNCHANGED <<left, queue, peers, returned, came, calls>>
    BY <1>4 DEF InvalidRequest
  <2>2. client \in Conns
    BY <2>1 DEF IInv, ClientShape, TypeOK
  <2>3. /\ shown' \in [Conns -> {"nothing", "page", "reset"}]
        /\ \A c \in Conns : shown'[c] = IF c = client THEN "reset" ELSE shown[c]
    BY <1>1, <2>1, <2>2
  <2>4. TimedOutAlone'
    BY <2>1 DEF TimedOutAlone, End
  <2>5. ~ (asks[client] = "redirect" /\ Heard(client))
    BY <2>1 DEF request_target_valid, IInv, ReadShape
  <2> QED
    BY <2>1, <2>3, <2>4, <2>5, ThrowStep
<1> QED
  BY <1>2, <1>3, <1>4

\* The constructor returns or throws.
LEMMA ConstructedStep ==
    ASSUME IInv, NEW state \in {"idle", "failed", "leaked"}, Constructed(state)
    PROVE  IInv'
<1> USE DEF IInv
<1>1. /\ pc = "constructing" /\ pc' = state
      /\ UNCHANGED <<left, client, request, queue, peer, asks, sent, shown, outcome, returned,
                     came, calls>>
  BY DEF Constructed, peers
<1>2. queue = << >> /\ client = Nobody
  BY <1>1 DEF Down, Listening, Serving, ClientShape
<1>3. TypeOK' /\ QueueShape' /\ ClientShape'
  BY <1>1, <1>2 DEF TypeOK, QueueShape, ClientShape
<1>4. Unanswered' /\ ReturnedAnswered' /\ AnsweredShape' /\ ReadShape'
  BY <1>1 DEF Unanswered, ReturnedAnswered, AnsweredShape, ReadShape
<1>5. Selecting' /\ Down' /\ PageMeansReturned' /\ TimedOutAlone'
  BY <1>1, <1>2 DEF Selecting, Down, PageMeansReturned, TimedOutAlone
<1>6. RedirectNotLost'
  <2>1. \A c \in Conns : peer[c] = "new"
    BY <1>1 DEF Down
  <2> QED
    BY <1>1, <2>1 DEF RedirectNotLost, Heard
<1> QED
  BY <1>3, <1>4, <1>5, <1>6

\* A call begins, or time passes in it.
LEMMA ClockStep == IInv /\ (WaitForCallback \/ Tick) => IInv'
<1> SUFFICES ASSUME IInv, WaitForCallback \/ Tick PROVE IInv'
  OBVIOUS
<1> USE DEF IInv
<1>1. UNCHANGED <<client, request, queue, peer, asks, sent, shown, returned>>
  BY DEF WaitForCallback, Tick, peers
<1>2. CASE WaitForCallback
  <2>1. /\ pc = "idle" /\ pc' = "selecting" /\ calls < MaxCalls /\ calls' = calls + 1
        /\ left' = Timeout /\ came' = (queue # << >>) /\ outcome' = "none"
    BY <1>2 DEF WaitForCallback
  <2>2. TypeOK'
    <3>1. calls' \in 0..MaxCalls /\ left' \in 0..Timeout
      <4>1. calls \in 0..MaxCalls
        BY DEF TypeOK
      <4> HIDE DEF IInv
      <4> QED
        BY <2>1, <4>1, ServerAssumption
    <3>2. came' \in BOOLEAN
      BY <2>1
    <3> QED
      BY <1>1, <2>1, <3>1, <3>2 DEF TypeOK
  <2>3. QueueShape' /\ ClientShape' /\ Unanswered'
    BY <1>1, <2>1 DEF QueueShape, ClientShape, Unanswered
  <2>4. /\ ReturnedAnswered' /\ AnsweredShape' /\ ReadShape' /\ Down'
        /\ PageMeansReturned' /\ RedirectNotLost'
    BY <1>1, <2>1 DEF ReturnedAnswered, AnsweredShape, ReadShape, Down, Listening, Serving,
                      PageMeansReturned, RedirectNotLost, Heard, Waiting
  <2>5. Selecting' /\ TimedOutAlone'
    BY <1>1, <2>1 DEF Selecting, TimedOutAlone
  <2> QED
    BY <2>2, <2>3, <2>4, <2>5
<1>3. CASE Tick
  <2>1. /\ left > 0 /\ left' = left - 1 /\ UNCHANGED <<pc, outcome, came, calls>>
    BY <1>3 DEF Tick
  <2>2. TypeOK'
    <3>1. left' \in 0..Timeout
      <4>1. left \in 0..Timeout
        BY DEF TypeOK
      <4> HIDE DEF IInv
      <4> QED
        BY <2>1, <4>1, ServerAssumption
    <3> QED
      BY <1>1, <2>1, <3>1 DEF TypeOK
  <2>3. QueueShape' /\ ClientShape' /\ Unanswered'
    BY <1>1, <2>1 DEF QueueShape, ClientShape, Unanswered
  <2>4. /\ ReturnedAnswered' /\ AnsweredShape' /\ ReadShape' /\ Down' /\ Selecting'
        /\ PageMeansReturned' /\ TimedOutAlone' /\ RedirectNotLost'
    BY <1>1, <2>1 DEF ReturnedAnswered, AnsweredShape, ReadShape, Down, Listening, Serving,
                      Selecting, PageMeansReturned, TimedOutAlone, RedirectNotLost, Heard, Waiting
  <2> QED
    BY <2>2, <2>3, <2>4
<1> QED
  BY <1>2, <1>3

LEMMA ServerInductive == Spec => []IInv
<1>1. Init => IInv
  BY ServerInit
<1>2. IInv /\ [Next]_vars => IInv'
  <2> SUFFICES ASSUME IInv, [Next]_vars PROVE IInv'
    OBVIOUS
  <2>1. CASE WaitForCallback \/ Tick
    BY <2>1, ClockStep
  <2>2. CASE Accept \/ Recv \/ RecvEnd
    BY <2>2, CallStep
  <2>3. CASE SelectTimesOut \/ SocketError \/ InvalidRequest
    BY <2>3, CallThrows
  <2>4. CASE SendKills
    BY <2>4, HangUpStep DEF SendKills
  <2>5. CASE Destroy
    <3>1. client' = Nobody
      BY <2>5 DEF Destroy, IInv, ClientShape
    <3> QED
      BY <2>5, <3>1, HangUpStep DEF Destroy
  <2>6. CASE \E c \in Conns : Connect(c) \/ Send(c) \/ Close(c)
    BY <2>6, PeerStep
  <2>7. CASE UNCHANGED vars
    <3>1. /\ UNCHANGED <<pc, left, client, request, queue, peer, asks, sent, shown, outcome>>
          /\ UNCHANGED <<returned, came, calls>>
      BY <2>7 DEF vars
    <3>2. TypeOK' /\ QueueShape' /\ ClientShape' /\ Unanswered'
      BY <3>1 DEF IInv, TypeOK, QueueShape, ClientShape, Unanswered
    <3>3. /\ ReturnedAnswered' /\ AnsweredShape' /\ ReadShape' /\ Selecting' /\ Down'
          /\ PageMeansReturned' /\ TimedOutAlone' /\ RedirectNotLost'
      BY <3>1 DEF IInv, ReturnedAnswered, AnsweredShape, ReadShape, Selecting, Down, Listening,
                  Serving, PageMeansReturned, TimedOutAlone, RedirectNotLost, Heard, Waiting
    <3> QED
      BY <3>2, <3>3 DEF IInv
  <2>8. CASE SendPage \/ Return
    BY <2>8, PageStep, ReturnStep
  <2>9. CASE Construct \/ ConstructFails \/ GetsocknameFails
    BY <2>9, ConstructedStep DEF Construct, ConstructFails, GetsocknameFails
  <2> QED
    BY <2>1, <2>2, <2>3, <2>4, <2>5, <2>6, <2>7, <2>8, <2>9 DEF Next, ServerStep
<1> QED
  BY <1>1, <1>2, PTL DEF Spec

(***************************************************************************)
(* The types of LoopbackServer, for any connections, backlog and timeout.  *)
(***************************************************************************)
THEOREM TypeCorrect == Spec => []TypeOK
<1>1. IInv => TypeOK
  BY DEF IInv
<1> QED
  BY <1>1, ServerInductive, PTL

(***************************************************************************)
(* Whoever sees "You can close this window" has had its request returned   *)
(* by wait_for_callback, and whoever had sees it or is gone by a reset.    *)
(***************************************************************************)
THEOREM PageIsHonest == Spec => []PageMeansReturned
<1>1. IInv => PageMeansReturned
  BY DEF IInv
<1> QED
  BY <1>1, ServerInductive, PTL

(***************************************************************************)
(* wait_for_callback never times out on somebody who came, in its last     *)
(* second or before it began.                                              *)
(***************************************************************************)
THEOREM NobodyMissed == Spec => []TimedOutAlone
<1>1. IInv => TimedOutAlone
  BY DEF IInv
<1> QED
  BY <1>1, ServerInductive, PTL

(***************************************************************************)
(* No stray connection, timeout or failed accept loses the redirect: it is *)
(* being served, waits for the next call, or has had its code returned.    *)
(***************************************************************************)
THEOREM RedirectKept == Spec => []RedirectNotLost
<1>1. IInv => RedirectNotLost
  BY DEF IInv
<1> QED
  BY <1>1, ServerInductive, PTL

(***************************************************************************)
(* ~LoopbackAuthorizationServer, and the end of the process by SIGPIPE,    *)
(* leave no connection without an answer or a reset.                       *)
(***************************************************************************)
THEOREM NobodyHangs == Spec => []NobodyLeftHanging
<1>1. IInv => NobodyLeftHanging
  <2> SUFFICES ASSUME IInv, ~ Listening, NEW c \in Conns, peer[c] # "new"
               PROVE  shown[c] # "nothing"
    BY DEF NobodyLeftHanging
  <2>1. Members(queue) = {}
    BY NoMembers DEF IInv, Down
  <2>2. c # client
    BY ServerAssumption DEF IInv, ClientShape, Listening, Serving
  <2> QED
    BY <2>1, <2>2 DEF IInv, Unanswered
<1> QED
  BY <1>1, ServerInductive, PTL
=============================================================================
