------------------------------- MODULE Servers -------------------------------
(* The server thread (app/server.cpp): MsgServer, which logs the datagrams that
   IPC::sendMessage (utils/ipc-msg.cpp) sends it, and UserServer, which answers
   the lines of its users over TCP. Both live in one event loop, so a handler
   runs to its end before the next. UserServer knows one connection, p_conn: the
   newest. A reply fits in its socket's send buffer, so waitForBytesWritten
   returns at once. What follows a use of a deleted socket is not modelled.   *)
EXTENDS Integers, Sequences, SequencesExt

CONSTANTS MaxConns,  \* bound: connections of users
          MaxLines,  \* bound: lines a user sends over each
          MaxMsgs,   \* bound: messages sent
          RxCap      \* the datagrams the message socket's buffer holds

ASSUME ServersAssumption ==
  /\ MaxConns \in Nat /\ MaxLines \in [1..MaxConns -> Nat]
  /\ MaxMsgs \in Nat /\ RxCap \in Nat

Conns == 1..MaxConns
Lines == {"ask", "info", "quit"}  \* "ask": help, version and what is unknown
None  == 0

VARIABLES
  stage,      \* ServerThread::run: "start", "bound" or "loop"
  bound,      \* MsgServer's bind succeeded
  rx,         \* the datagrams in its socket
  posted,     \* messages sent so far
  taken,      \* history: messages that reached the socket
  logged,     \* history: messages handed to the logger
  listening,  \* UserServer's listen succeeded
  sock,       \* each connection's socket: "none", "queued" (in the backlog),
              \* "open", "failed" (no descriptor), "closed" or "freed"
  p_conn,     \* UserServer::p_conn
  doomed,     \* the sockets deleteLater was called on
  net,        \* each connection's lines that the thread has not read
  buf,        \* each connection's lines in its socket's read buffer
  gone,       \* the users that hung up
  touched,    \* a deleted socket was used
  sent,       \* history: each connection's lines
  handled,    \* history: each connection's lines that hConnection took while it
              \* was connected
  replies,    \* history: what was written back for each of them
  dropped,    \* history: connections the server cut, with their user still on
  overlap     \* history: a connection was accepted beside an open one

messages == <<rx, posted, taken, logged>>
lines    == <<net, sent, gone>>
sockets  == <<sock, p_conn, doomed, buf, touched, handled, replies, dropped, overlap>>
vars == <<stage, bound, listening, messages, lines, sockets>>

Init ==
  /\ stage = "start" /\ bound = FALSE /\ listening = FALSE
  /\ rx = <<>> /\ posted = 0 /\ taken = <<>> /\ logged = <<>>
  /\ sock = [c \in Conns |-> "none"] /\ p_conn = None /\ doomed = {}
  /\ net = [c \in Conns |-> <<>>] /\ buf = [c \in Conns |-> <<>>]
  /\ gone = {} /\ touched = FALSE
  /\ sent = [c \in Conns |-> <<>>] /\ handled = [c \in Conns |-> <<>>]
  /\ replies = [c \in Conns |-> <<>>]
  /\ dropped = {} /\ overlap = FALSE

-----------------------------------------------------------------------------
(* ServerThread::run: MsgServer::init, UserServer::startServer, exec. Either
   port may be taken; the thread goes on without it.                         *)
MsgInit ==
  /\ stage = "start" /\ stage' = "bound" /\ bound' \in BOOLEAN
  /\ UNCHANGED <<listening, messages, lines, sockets>>

StartServerOrQuit ==  \* seeded bug: no event loop when the port is taken
  /\ stage = "bound" /\ listening' \in BOOLEAN
  /\ stage' = IF listening' THEN "loop" ELSE "over"
  /\ UNCHANGED <<bound, messages, lines, sockets>>

StartServer ==
  /\ stage = "bound" /\ stage' = "loop" /\ listening' \in BOOLEAN
  /\ UNCHANGED <<bound, messages, lines, sockets>>

(* IPC::sendMessage, by any plugin: the datagram is lost when no socket is
   bound, or when its buffer is full, and the sender does not know.          *)
SendMessage ==
  /\ posted < MaxMsgs /\ ~touched /\ posted' = posted + 1
  /\ IF bound /\ Len(rx) < RxCap
     THEN rx' = Append(rx, posted') /\ taken' = Append(taken, posted')
     ELSE UNCHANGED <<rx, taken>>
  /\ UNCHANGED <<stage, bound, listening, logged, lines, sockets>>

-----------------------------------------------------------------------------
Idle == stage = "loop" /\ ~touched

(* MsgServer::readyRead: every pending datagram is logged.                   *)
ReadOne ==  \* seeded bug: the pending datagrams read into one message
  /\ Idle /\ rx # <<>>
  /\ logged' = Append(logged, Head(rx)) /\ rx' = <<>>
  /\ UNCHANGED <<stage, bound, listening, posted, taken, lines, sockets>>

ReadyRead ==
  /\ Idle /\ rx # <<>>
  /\ logged' = logged \o rx /\ rx' = <<>>
  /\ UNCHANGED <<stage, bound, listening, posted, taken, lines, sockets>>

-----------------------------------------------------------------------------
(* What users do.                                                            *)
Connect(c) ==
  /\ listening /\ ~touched /\ sock[c] = "none"
  /\ \A d \in Conns : d < c => sock[d] # "none"
  /\ sock' = [sock EXCEPT ![c] = "queued"]
  /\ UNCHANGED <<stage, bound, listening, messages, lines, p_conn, doomed, buf,
                 touched, handled, replies, dropped, overlap>>

Connected(c) == sock[c] \in {"queued", "open", "failed"} /\ c \notin gone

SendLine(c) ==
  /\ Connected(c) /\ ~touched /\ Len(sent[c]) < MaxLines[c]
  /\ \E l \in Lines : /\ net'  = [net EXCEPT ![c] = Append(@, l)]
                      /\ sent' = [sent EXCEPT ![c] = Append(@, l)]
  /\ UNCHANGED <<stage, bound, listening, messages, gone, sockets>>

HangUp(c) ==
  /\ Connected(c) /\ ~touched /\ gone' = gone \cup {c}
  /\ UNCHANGED <<stage, bound, listening, messages, net, sent, sockets>>

-----------------------------------------------------------------------------
(* UserServer::disconnected, called for whichever socket: it deletes p_conn's,
   later. p_conn keeps pointing there.                                       *)
Disconnected(now) ==
  IF now[p_conn] = "freed"
  THEN touched' = TRUE /\ UNCHANGED doomed
  ELSE doomed' = doomed \cup {p_conn} /\ UNCHANGED touched

(* UserServer::hConnection reads p_conn's lines up to the first quit.        *)
QuitAt(ls) == {i \in DOMAIN ls : /\ ls[i] = "quit"
                                 /\ \A j \in 1..(i - 1) : ls[j] # "quit"}

ReadOneLine(ls) ==  \* seeded bug: if (canReadLine())
  IF ls = <<>> THEN ls ELSE <<Head(ls)>>

ReadAll(ls) == ls  \* seeded bug: no return after quit

ReadLines(ls) ==
  IF QuitAt(ls) = {} THEN ls ELSE SubSeq(ls, 1, CHOOSE i \in QuitAt(ls) : TRUE)

(* Each line has its reply, but the branch of info appends nothing to it: an
   empty array is written, and the user who asked gets nothing.              *)
Reply(l) == IF l = "info" THEN "" ELSE l

Replies(ls) == [i \in DOMAIN ls |-> Reply(ls[i])]

(* The lines read are answered if the socket is still connected; quit closes
   it, which signals disconnected() at once.                                 *)
HConnection(read) ==
  LET ls == ReadLines(read[p_conn])
  IN IF sock[p_conn] = "freed"
     THEN /\ touched' = TRUE /\ buf' = read
          /\ UNCHANGED <<sock, doomed, handled, replies>>
     ELSE /\ buf' = [read EXCEPT ![p_conn] = SubSeq(@, Len(ls) + 1, Len(@))]
          /\ IF sock[p_conn] = "open"
             THEN /\ handled' = [handled EXCEPT ![p_conn] = @ \o ls]
                  /\ replies' = [replies EXCEPT ![p_conn] = @ \o Replies(ls)]
             ELSE UNCHANGED <<handled, replies>>
          /\ IF sock[p_conn] = "open" /\ QuitAt(read[p_conn]) # {}
             THEN /\ sock' = [sock EXCEPT ![p_conn] = "closed"]
                  /\ Disconnected(sock')
             ELSE UNCHANGED <<sock, doomed, touched>>

(* UserServer::incomingConnection makes the new socket p_conn, whether or not
   it gets its descriptor; newConnection() then calls hConnection, which finds
   no line in it yet.                                                        *)
First(c) == sock[c] = "queued" /\ \A d \in Conns : sock[d] = "queued" => c <= d

AcceptWhenSet(c) ==  \* seeded bug: p_conn assigned once the descriptor is set
  /\ Idle /\ First(c)
  /\ \/ /\ sock' = [sock EXCEPT ![c] = "open"] /\ p_conn' = c
        /\ UNCHANGED touched
     \/ /\ sock' = [sock EXCEPT ![c] = "failed"] /\ UNCHANGED p_conn
        /\ touched' = (p_conn # None /\ sock[p_conn] = "freed")
  /\ overlap' = (overlap \/ \E d \in Conns : sock[d] = "open")
  /\ UNCHANGED <<stage, bound, listening, messages, lines, doomed, buf,
                 handled, replies, dropped>>

Accept(c) ==
  /\ Idle /\ First(c) /\ p_conn' = c
  /\ \E s \in {"open", "failed"} : sock' = [sock EXCEPT ![c] = s]
  /\ overlap' = (overlap \/ \E d \in Conns : sock[d] = "open")
  /\ UNCHANGED <<stage, bound, listening, messages, lines, doomed, buf, touched,
                 handled, replies, dropped>>

(* A socket's readyRead(): its lines are in its buffer, and hConnection runs,
   on p_conn.                                                                *)
Notify(c) ==
  /\ Idle /\ sock[c] = "open" /\ net[c] # <<>>
  /\ net' = [net EXCEPT ![c] = <<>>]
  /\ HConnection([buf EXCEPT ![c] = @ \o net[c]])
  /\ UNCHANGED <<stage, bound, listening, messages, sent, gone, p_conn, dropped,
                 overlap>>

(* A socket finds that its user hung up.                                     *)
PeerGone(c) ==
  /\ Idle /\ sock[c] = "open" /\ c \in gone /\ net[c] = <<>>
  /\ sock' = [sock EXCEPT ![c] = "closed"]
  /\ Disconnected(sock')
  /\ UNCHANGED <<stage, bound, listening, messages, lines, p_conn, buf, handled, replies,
                 dropped, overlap>>

(* The event loop deletes a socket. One still connected is cut, and signals
   disconnected() from its destructor.                                       *)
Free(c) ==
  /\ Idle /\ c \in doomed
  /\ sock' = [sock EXCEPT ![c] = "freed"]
  /\ IF sock[c] = "open" /\ c # p_conn /\ sock[p_conn] = "freed"
     THEN touched' = TRUE ELSE UNCHANGED touched
  /\ doomed' = (doomed \ {c}) \cup
               (IF sock[c] = "open" /\ c # p_conn /\ sock[p_conn] # "freed"
                THEN {p_conn} ELSE {})
  /\ dropped' = IF sock[c] = "open" /\ c \notin gone THEN dropped \cup {c}
                                                     ELSE dropped
  /\ UNCHANGED <<stage, bound, listening, messages, lines, p_conn, buf, handled, replies,
                 overlap>>

Handlers(c) == Accept(c) \/ Notify(c) \/ PeerGone(c) \/ Free(c)

Next ==
  \/ MsgInit \/ StartServer \/ SendMessage \/ ReadyRead
  \/ \E c \in Conns : Connect(c) \/ SendLine(c) \/ HangUp(c) \/ Handlers(c)

(* The thread runs, and its event loop serves every socket something is ready
   for.                                                                      *)
Fairness ==
  /\ WF_vars(MsgInit \/ StartServer) /\ WF_vars(ReadyRead)
  /\ \A c \in Conns : WF_vars(Handlers(c))

Spec == Init /\ [][Next]_vars /\ Fairness

-----------------------------------------------------------------------------
TypeOK ==
  /\ stage \in {"start", "bound", "loop"}
  /\ bound \in BOOLEAN /\ listening \in BOOLEAN
  /\ rx \in Seq(1..MaxMsgs) /\ taken \in Seq(1..MaxMsgs)
  /\ logged \in Seq(1..MaxMsgs) /\ posted \in 0..MaxMsgs
  /\ sock \in [Conns -> {"none", "queued", "open", "failed", "closed", "freed"}]
  /\ p_conn \in Conns \cup {None} /\ doomed \subseteq Conns
  /\ net \in [Conns -> Seq(Lines)] /\ buf \in [Conns -> Seq(Lines)]
  /\ sent \in [Conns -> Seq(Lines)] /\ handled \in [Conns -> Seq(Lines)]
  /\ replies \in [Conns -> Seq({"ask", "", "quit"})]
  /\ gone \subseteq Conns /\ dropped \subseteq Conns
  /\ touched \in BOOLEAN /\ overlap \in BOOLEAN

(* While no connection is accepted beside an open one, the single pointer is
   enough: no deleted socket is used although p_conn keeps pointing at one
   between two users, no user is cut off, and every closed socket is on its way
   to be deleted.                                                            *)
AloneIsSafe ==
  ~overlap => /\ ~touched /\ dropped = {}
              /\ \A c \in Conns : sock[c] = "closed" => c \in doomed

(* What is written back to a user are the replies to its first lines, in order,
   one for each, the empty one of info included, and none after its quit,
   whoever's signal made hConnection run; and as long as the newest connection
   is open, every line that was read from it has its reply.                  *)
AnswersMatchLines ==
  /\ \A c \in Conns :
       /\ Len(replies[c]) <= Len(sent[c])
       /\ \A i \in 1..Len(replies[c]) : replies[c][i] = Reply(sent[c][i])
       /\ \A i \in 1..(Len(replies[c]) - 1) : sent[c][i] # "quit"
  /\ p_conn # None /\ sock[p_conn] = "open" =>
       Len(replies[p_conn]) + Len(net[p_conn]) = Len(sent[p_conn])

(* Every message that reached the bound socket is logged once, in the order
   sent, or is still in the socket.                                          *)
MessagesInOrder ==
  /\ logged \o rx = taken
  /\ \A i, j \in DOMAIN taken : i < j => taken[i] < taken[j]

(* Whatever the newest user has sent gets its replies, as many as there are
   lines, unless a newer user comes, the connection ends, or a deleted socket is
   used first. A user that asked for info gets an empty one: it waits in vain. *)
NewestIsAnswered ==
  \A c \in Conns : \A n \in 1..MaxLines[c] :
    p_conn = c /\ sock[c] = "open" /\ Len(sent[c]) >= n
      ~> \/ Len(replies[c]) >= n /\ replies[c][n] = Reply(sent[c][n])
         \/ p_conn # c \/ sock[c] # "open" \/ touched

(* Pending messages are logged whatever the users do, even when their port
   could not be had; unless a deleted socket is used first.                  *)
MessagesAreLogged == rx # <<>> ~> rx = <<>> \/ touched
=============================================================================
