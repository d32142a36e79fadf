----------------------------- MODULE ServerProofs -----------------------------
(***************************************************************************)
(* OwnSocket and CalmRepliesRight of Server, for any number of clients and *)
(* descriptors.  The first argument is about the sockets: conn is          *)
(* injective, and from accept to the end of the handler there is one place *)
(* that knows a client's descriptor.  The second follows a statement from  *)
(* yy_scan_string to the reply.                                            *)
(***************************************************************************)
EXTENDS Server, TLAPS

Fields == {"pc", "fd", "stmt", "unread", "ran", "calm"}

Live == {"read", "scan", "parse", "interp", "delete", "send", "close"}

Pcs == {"none", "start", "done"} \cup Live

ThreadShape ==
  /\ DOMAIN thread = Clients
  /\ \A c \in Clients :
       Fields \subseteq DOMAIN thread[c] /\ thread[c].fd \in Fds \cup {None} /\ thread[c].pc \in Pcs

Types ==
  /\ sockfd \in Fds \cup {None}
  /\ listening \in Clients \cup {None}
  /\ conn \in [Fds -> Clients \cup {None}]
  /\ overtaken \in BOOLEAN
  /\ ThreadShape

\* A client has one connection.
OneSocket == \A f, g \in Fds : conn[f] # None /\ conn[f] = conn[g] => f = g

\* The descriptor of a client is in sockfd until its thread has read it.
Accepted ==
  ~overtaken /\ listening # None =>
    /\ sockfd \in Fds /\ conn[sockfd] = listening
    /\ thread[listening].pc = "none"
    /\ \A t \in Clients : thread[t].pc # "start"

Created ==
  ~overtaken => \A t \in Clients : thread[t].pc = "start" =>
    sockfd \in Fds /\ conn[sockfd] = t /\ listening = None

Served ==
  ~overtaken => \A t \in Clients : thread[t].pc \in Live =>
    thread[t].fd \in Fds /\ conn[thread[t].fd] = t

SocketInv == Types /\ OneSocket /\ Accepted /\ Created /\ Served

USE ServerAssumption

LEMMA NewThreadFields ==
  /\ Fields \subseteq DOMAIN NewThread
  /\ NewThread.pc = "none" /\ NewThread.fd = None /\ NewThread.ran = None
  BY DEF NewThread, Fields

LEMMA ThreadAt ==
  ASSUME NEW pc
  PROVE  LET r == [NewThread EXCEPT !.pc = pc]
         IN  Fields \subseteq DOMAIN r /\ r.pc = pc /\ r.fd = None
  BY DEF NewThread, Fields

LEMMA NoneIsNoFd == None \notin Fds /\ None \notin Clients
  BY DEF Fds

LEMMA InitSockets == Init => SocketInv
  <1> SUFFICES ASSUME Init PROVE SocketInv
    OBVIOUS
  <1>1. \A c \in Clients : thread[c] = NewThread
    BY DEF Init
  <1>2. ThreadShape
    BY <1>1, NewThreadFields DEF Init, ThreadShape, Pcs
  <1>3. Types
    BY <1>2 DEF Init, Types
  <1>4. \A c \in Clients : thread[c].pc = "none"
    BY <1>1, NewThreadFields
  <1>5. \A f \in Fds : conn[f] = None
    BY DEF Init
  <1> QED BY <1>3, <1>4, <1>5 DEF SocketInv, OneSocket, Accepted, Created, Served, Live, Init

\* A step of a thread that goes on with its socket.
GoesOn(t) ==
  /\ UNCHANGED <<sockfd, listening, conn, overtaken>>
  /\ DOMAIN thread' = Clients
  /\ \A c \in Clients : Fields \subseteq DOMAIN thread'[c] /\ thread'[c].fd = thread[c].fd
  /\ \A c \in Clients \ {t} : thread'[c].pc = thread[c].pc
  /\ thread[t].pc \in Live /\ thread'[t].pc \in Live

LEMMA GoingOnKeeps == ASSUME SocketInv, NEW t \in Clients, GoesOn(t) PROVE SocketInv'
  <1>1. \A c \in Clients : thread'[c].pc \in Live <=> thread[c].pc \in Live
    BY DEF GoesOn
  <1>2. \A c \in Clients : thread'[c].pc = "start" <=> thread[c].pc = "start"
    BY DEF GoesOn, Live
  <1>3. \A c \in Clients : thread'[c].pc = "none" <=> thread[c].pc = "none"
    BY DEF GoesOn, Live
  <1>4. ThreadShape'
    BY DEF SocketInv, Types, ThreadShape, GoesOn, Pcs
  <1>5. Types' /\ OneSocket'
    BY <1>4 DEF SocketInv, Types, OneSocket, GoesOn
  <1>6. Accepted' /\ Created'
    BY <1>2, <1>3 DEF SocketInv, Types, Accepted, Created, GoesOn
  <1>7. Served'
    BY <1>1 DEF SocketInv, Served, GoesOn
  <1> QED BY <1>5, <1>6, <1>7 DEF SocketInv

\* The other threads keep everything but their calm.
LEMMA DisturbedThreads ==
  ASSUME NEW threads, NEW t, DOMAIN threads = Clients,
         \A c \in Clients : Fields \subseteq DOMAIN threads[c],
         NEW after, after = Disturb(t, threads)
  PROVE  /\ DOMAIN after = Clients
         /\ t \in Clients => after[t] = threads[t]
         /\ \A c \in Clients :
              /\ Fields \subseteq DOMAIN after[c]
              /\ after[c].pc = threads[c].pc /\ after[c].fd = threads[c].fd
              /\ after[c].stmt = threads[c].stmt /\ after[c].ran = threads[c].ran
              /\ c # t /\ threads[c].pc \in {"parse", "interp"} => ~after[c].calm
              /\ c = t \/ threads[c].pc \notin {"parse", "interp"} => after[c] = threads[c]
  <1>1. DOMAIN after = Clients
    BY DEF Disturb
  <1>2. ASSUME NEW c \in Clients
        PROVE  /\ Fields \subseteq DOMAIN after[c]
               /\ after[c].pc = threads[c].pc /\ after[c].fd = threads[c].fd
               /\ after[c].stmt = threads[c].stmt /\ after[c].ran = threads[c].ran
               /\ c # t /\ threads[c].pc \in {"parse", "interp"} => ~after[c].calm
               /\ c = t \/ threads[c].pc \notin {"parse", "interp"} => after[c] = threads[c]
    <2>1. CASE c # t /\ threads[c].pc \in {"parse", "interp"}
      <3>1. after[c] = [threads[c] EXCEPT !.calm = FALSE]
        BY <2>1 DEF Disturb
      <3> QED BY <2>1, <3>1 DEF Fields
    <2>2. CASE ~(c # t /\ threads[c].pc \in {"parse", "interp"})
      <3>1. after[c] = threads[c]
        BY <2>2 DEF Disturb
      <3> QED BY <2>2, <3>1
    <2> QED BY <2>1, <2>2
  <1>3. t \in Clients => after[t] = threads[t]
    BY <1>2
  <1> QED BY <1>1, <1>2, <1>3

LEMMA GoFacts ==
  ASSUME SocketInv, NEW t \in Clients, NEW pc, Go(t, pc)
  PROVE  /\ DOMAIN thread' = Clients
         /\ \A c \in Clients : Fields \subseteq DOMAIN thread'[c] /\ thread'[c].fd = thread[c].fd
         /\ \A c \in Clients \ {t} : thread'[c] = thread[c]
         /\ thread'[t].pc = pc
         /\ thread'[t].stmt = thread[t].stmt /\ thread'[t].ran = thread[t].ran
         /\ thread'[t].calm = thread[t].calm /\ thread'[t].unread = thread[t].unread
  BY DEF Go, SocketInv, Types, ThreadShape, Fields

LEMMA StepsGoOn ==
  ASSUME SocketInv, NEW t \in Clients,
         \/ ReadStatement(t) \/ ReadEnd(t) \/ Scan(t) \/ Parse(t) \/ ParseFreed(t)
         \/ Interp(t) \/ DeleteBuffer(t) \/ Send(t) \/ SendFails(t)
  PROVE  GoesOn(t)
  <1> USE DEF SocketInv, Types, ThreadShape
  <1>1. CASE ReadStatement(t)
    <2>1. PICK c \in Clients : thread' = [thread EXCEPT ![t] =
              [NewThread EXCEPT !.pc = "scan", !.fd = thread[t].fd, !.stmt = request[c]]]
      BY <1>1 DEF ReadStatement
    <2>2. PICK r : r = [NewThread EXCEPT !.pc = "scan", !.fd = thread[t].fd, !.stmt = request[c]]
      OBVIOUS
    <2>3. Fields \subseteq DOMAIN r /\ r.pc = "scan" /\ r.fd = thread[t].fd
      BY <2>2 DEF NewThread, Fields
    <2>4. thread' = [thread EXCEPT ![t] = r]
      BY <2>1, <2>2
    <2>5. thread[t].pc = "read" /\ UNCHANGED <<sockfd, listening, conn, overtaken>>
      BY <1>1 DEF ReadStatement, At
    <2> QED BY <2>3, <2>4, <2>5 DEF GoesOn, Live
  <1>2. CASE ReadEnd(t)
    <2>1. thread[t].pc = "read" /\ UNCHANGED <<sockfd, listening, conn, overtaken>> /\ Go(t, "close")
      BY <1>2 DEF ReadEnd, At
    <2> QED BY <2>1, GoFacts DEF GoesOn, Live
  <1>3. CASE Scan(t)
    <2>1. PICK th : th = [thread EXCEPT ![t].pc = "parse", ![t].unread = TRUE, ![t].calm = ~comment]
      OBVIOUS
    <2>2. /\ DOMAIN th = Clients /\ th[t].pc = "parse"
          /\ \A c \in Clients : Fields \subseteq DOMAIN th[c] /\ th[c].fd = thread[c].fd
          /\ \A c \in Clients \ {t} : th[c].pc = thread[c].pc
      BY <2>1 DEF Fields
    <2>3. thread' = Disturb(t, th) /\ thread[t].pc = "scan"
          /\ UNCHANGED <<sockfd, listening, conn, overtaken>>
      BY <1>3, <2>1 DEF Scan, At
    <2>4. PICK after : after = Disturb(t, th)
      OBVIOUS
    <2>5. /\ DOMAIN after = Clients
          /\ \A c \in Clients : /\ Fields \subseteq DOMAIN after[c]
                                /\ after[c].pc = th[c].pc /\ after[c].fd = th[c].fd
      BY <2>2, <2>4, DisturbedThreads
    <2> QED BY <2>2, <2>3, <2>4, <2>5 DEF GoesOn, Live
  <1>4. CASE Parse(t)
    <2>1. PICK pc \in {"interp", "delete"} :
            thread' = Disturb(t, [thread EXCEPT ![t].pc = pc, ![current].unread = FALSE])
      BY <1>4 DEF Parse
    <2>2. PICK th : th = [thread EXCEPT ![t].pc = pc, ![current].unread = FALSE]
      OBVIOUS
    <2>3. /\ DOMAIN th = Clients /\ th[t].pc = pc
          /\ \A c \in Clients : Fields \subseteq DOMAIN th[c] /\ th[c].fd = thread[c].fd
          /\ \A c \in Clients \ {t} : th[c].pc = thread[c].pc
      BY <2>2 DEF Fields
    <2>4. thread' = Disturb(t, th) /\ thread[t].pc = "parse"
          /\ UNCHANGED <<sockfd, listening, conn, overtaken>>
      BY <1>4, <2>1, <2>2 DEF Parse, At
    <2>5. PICK after : after = Disturb(t, th)
      OBVIOUS
    <2>6. /\ DOMAIN after = Clients
          /\ \A c \in Clients : /\ Fields \subseteq DOMAIN after[c]
                                /\ after[c].pc = th[c].pc /\ after[c].fd = th[c].fd
      BY <2>3, <2>5, DisturbedThreads
    <2> QED BY <2>3, <2>4, <2>5, <2>6 DEF GoesOn, Live
  <1>5. CASE ParseFreed(t)
    <2>1. PICK th : th = [thread EXCEPT ![t].pc = "delete"]
      OBVIOUS
    <2>2. /\ DOMAIN th = Clients /\ th[t].pc = "delete"
          /\ \A c \in Clients : Fields \subseteq DOMAIN th[c] /\ th[c].fd = thread[c].fd
          /\ \A c \in Clients \ {t} : th[c].pc = thread[c].pc
      BY <2>1 DEF Fields
    <2>3. thread' = Disturb(t, th) /\ thread[t].pc = "parse"
          /\ UNCHANGED <<sockfd, listening, conn, overtaken>>
      BY <1>5, <2>1 DEF ParseFreed, At
    <2>4. PICK after : after = Disturb(t, th)
      OBVIOUS
    <2>5. /\ DOMAIN after = Clients
          /\ \A c \in Clients : /\ Fields \subseteq DOMAIN after[c]
                                /\ after[c].pc = th[c].pc /\ after[c].fd = th[c].fd
      BY <2>2, <2>4, DisturbedThreads
    <2> QED BY <2>2, <2>3, <2>4, <2>5 DEF GoesOn, Live
  <1>6. CASE Interp(t)
    BY <1>6 DEF Interp, At, GoesOn, Live, Fields
  <1>7. CASE DeleteBuffer(t)
    <2>1. thread[t].pc = "delete" /\ UNCHANGED <<sockfd, listening, conn, overtaken>> /\ Go(t, "send")
      BY <1>7 DEF DeleteBuffer, At
    <2> QED BY <2>1, GoFacts DEF GoesOn, Live
  <1>8. CASE Send(t)
    <2>1. PICK r : r = [NewThread EXCEPT !.pc = "read", !.fd = thread[t].fd]
      OBVIOUS
    <2>2. Fields \subseteq DOMAIN r /\ r.pc = "read" /\ r.fd = thread[t].fd
      BY <2>1 DEF NewThread, Fields
    <2>3. thread' = [thread EXCEPT ![t] = r] /\ thread[t].pc = "send"
          /\ UNCHANGED <<sockfd, listening, conn, overtaken>>
      BY <1>8, <2>1 DEF Send, At
    <2> QED BY <2>2, <2>3 DEF GoesOn, Live
  <1>9. CASE SendFails(t)
    <2>1. thread[t].pc = "send" /\ UNCHANGED <<sockfd, listening, conn, overtaken>> /\ Go(t, "close")
      BY <1>9 DEF SendFails, At
    <2> QED BY <2>1, GoFacts DEF GoesOn, Live
  <1> QED BY <1>1, <1>2, <1>3, <1>4, <1>5, <1>6, <1>7, <1>8, <1>9

-----------------------------------------------------------------------------
LEMMA StartKeeps == ASSUME SocketInv, NEW t \in Clients, Start(t) PROVE SocketInv'
  <1>1. thread[t].pc = "start" /\ UNCHANGED <<sockfd, listening, conn, overtaken>>
    BY DEF Start, At
  <1>2. /\ DOMAIN thread' = Clients
        /\ \A c \in Clients : Fields \subseteq DOMAIN thread'[c]
        /\ \A c \in Clients \ {t} : thread'[c] = thread[c]
        /\ thread'[t].fd = sockfd /\ thread'[t].pc = "read"
    BY DEF Start, SocketInv, Types, ThreadShape, Fields
  <1>3. ThreadShape'
    BY <1>2 DEF SocketInv, Types, ThreadShape, Pcs, Live
  <1>4. Types' /\ OneSocket'
    BY <1>1, <1>3 DEF SocketInv, Types, OneSocket
  <1>5. Accepted' /\ Created'
    BY <1>1, <1>2 DEF SocketInv, Types, Accepted, Created
  <1>6. Served'
    BY <1>1, <1>2 DEF SocketInv, Served, Created
  <1> QED BY <1>4, <1>5, <1>6 DEF SocketInv

LEMMA CreateThreadKeeps == ASSUME SocketInv, CreateThread PROVE SocketInv'
  <1> PICK t : t = listening
    OBVIOUS
  <1>1. t \in Clients /\ listening' = None /\ UNCHANGED <<sockfd, conn, overtaken>>
    BY DEF CreateThread, SocketInv, Types
  <1>2. PICK r : r = [NewThread EXCEPT !.pc = "start"]
    OBVIOUS
  <1>3. Fields \subseteq DOMAIN r /\ r.pc = "start" /\ r.fd = None
    BY <1>2, ThreadAt
  <1>4. /\ DOMAIN thread' = Clients /\ thread'[t] = r
        /\ \A c \in Clients \ {t} : thread'[c] = thread[c]
    BY <1>1, <1>2 DEF CreateThread, SocketInv, Types, ThreadShape
  <1>5. ThreadShape'
    BY <1>3, <1>4 DEF SocketInv, Types, ThreadShape, Pcs
  <1>6. Types' /\ OneSocket'
    BY <1>1, <1>5 DEF SocketInv, Types, OneSocket
  <1>7. Accepted'
    BY <1>1 DEF Accepted
  <1>8. Created'
    BY <1>1, <1>3, <1>4, NoneIsNoFd DEF SocketInv, Created, Accepted
  <1>9. Served'
    BY <1>1, <1>3, <1>4 DEF SocketInv, Served, Live
  <1> QED BY <1>6, <1>7, <1>8, <1>9 DEF SocketInv

LEMMA AcceptKeeps == ASSUME SocketInv, NEW c \in Clients, Accept(c) PROVE SocketInv'
  <1>1. PICK fd \in Fds : Lowest(fd) /\ Assign(fd) /\ conn' = [conn EXCEPT ![fd] = c]
    BY DEF Accept
  <1>2. /\ sockfd' = fd /\ conn[fd] = None /\ listening' = c /\ UNCHANGED thread
        /\ thread[c].pc = "none"
        /\ \A f \in Fds : conn[f] # c
    BY <1>1 DEF Accept, Assign, Lowest
  <1>3. overtaken' = (overtaken \/ \E t \in Clients : thread[t].pc = "start")
    BY <1>1 DEF Assign
  <1>4. conn'[fd] = c /\ \A f \in Fds \ {fd} : conn'[f] = conn[f]
    BY <1>1 DEF SocketInv, Types
  <1>5. Types'
    BY <1>1, <1>2, <1>3 DEF SocketInv, Types, ThreadShape
  <1>6. OneSocket'
    BY <1>2, <1>4 DEF SocketInv, OneSocket
  <1>7. Accepted' /\ Created'
    BY <1>2, <1>3, <1>4 DEF Accepted, Created
  <1>8. Served'
    BY <1>2, <1>3, <1>4, NoneIsNoFd DEF SocketInv, Served
  <1> QED BY <1>5, <1>6, <1>7, <1>8 DEF SocketInv

LEMMA AcceptFailsKeeps == ASSUME SocketInv, AcceptFails PROVE SocketInv'
  <1>1. /\ sockfd' = None /\ listening = None /\ UNCHANGED <<listening, conn, thread>>
        /\ overtaken' = (overtaken \/ \E t \in Clients : thread[t].pc = "start")
    BY DEF AcceptFails, Assign
  <1> QED BY <1>1 DEF SocketInv, Types, ThreadShape, OneSocket, Accepted, Created, Served

LEMMA EndKeeps == ASSUME SocketInv, NEW how, End(how) PROVE SocketInv'
  <1>1. /\ sockfd' = None /\ listening' = None /\ UNCHANGED overtaken
        /\ conn' = [fd \in Fds |-> None]
        /\ thread' = [c \in Clients |-> NewThread]
    BY DEF End
  <1>2. ThreadShape'
    BY <1>1, NewThreadFields DEF ThreadShape, Pcs
  <1>3. Types' /\ OneSocket'
    BY <1>1, <1>2 DEF SocketInv, Types, OneSocket
  <1>4. \A c \in Clients : thread'[c].pc = "none"
    BY <1>1, NewThreadFields
  <1> QED BY <1>1, <1>3, <1>4 DEF SocketInv, Accepted, Created, Served, Live

\* A thread closes its own connection, which no other thread and no accept has.
LEMMA CloseKeeps == ASSUME SocketInv, NEW t \in Clients, Close(t) PROVE SocketInv'
  <1> PICK fd : fd = thread[t].fd
    OBVIOUS
  <1>1. thread[t].pc = "close" /\ UNCHANGED <<sockfd, listening, overtaken>>
    BY DEF Close, At
  <1>2. PICK r : r = [NewThread EXCEPT !.pc = "done"]
    OBVIOUS
  <1>3. Fields \subseteq DOMAIN r /\ r.pc = "done" /\ r.fd = None
    BY <1>2, ThreadAt
  <1>4. /\ DOMAIN thread' = Clients /\ thread'[t] = r
        /\ \A c \in Clients \ {t} : thread'[c] = thread[c]
    BY <1>2 DEF Close, SocketInv, Types, ThreadShape
  <1>5. conn' = [f \in Fds |-> IF f = fd THEN None ELSE conn[f]]
    BY DEF Close, HangUp
  <1>6. ThreadShape'
    BY <1>3, <1>4 DEF SocketInv, Types, ThreadShape, Pcs
  <1>7. conn' \in [Fds -> Clients \cup {None}] /\ \A f \in Fds \ {fd} : conn'[f] = conn[f]
    BY <1>5 DEF SocketInv, Types
  <1>8. OneSocket'
    BY <1>5 DEF SocketInv, OneSocket
  <1>9. ~overtaken => fd \in Fds /\ conn[fd] = t
    BY <1>1 DEF SocketInv, Served, Live
  <1>10. Accepted'
    BY <1>1, <1>3, <1>4, <1>7, <1>9, NoneIsNoFd DEF SocketInv, Accepted, Types
  <1>11. Created'
    BY <1>1, <1>3, <1>4, <1>7, <1>9 DEF SocketInv, Created
  <1>12. Served'
    BY <1>1, <1>3, <1>4, <1>7, <1>9 DEF SocketInv, Served, Live
  <1> QED BY <1>1, <1>6, <1>7, <1>8, <1>10, <1>11, <1>12 DEF SocketInv, Types

LEMMA SocketsKept == SocketInv /\ [Next]_vars => SocketInv'
  <1> SUFFICES ASSUME SocketInv, [Next]_vars PROVE SocketInv'
    OBVIOUS
  <1>1. CASE UNCHANGED <<sockfd, listening, conn, thread, overtaken>>
    BY <1>1 DEF SocketInv, Types, ThreadShape, OneSocket, Accepted, Created, Served
  <1>2. CASE UNCHANGED vars
    BY <1>1, <1>2 DEF vars
  <1>3. CASE \E c \in Clients : Connect(c) \/ Ask(c) \/ Leave(c) \/ Accept(c) \/ Step(c)
    <2>1. PICK c \in Clients : Connect(c) \/ Ask(c) \/ Leave(c) \/ Accept(c) \/ Step(c)
      BY <1>3
    <2>2. CASE Connect(c) \/ Ask(c) \/ Leave(c)
      BY <1>1, <2>2 DEF Connect, Ask, Leave
    <2>3. CASE Accept(c)
      BY <2>3, AcceptKeeps
    <2>4. CASE Step(c)
      BY <2>4, StepsGoOn, GoingOnKeeps, StartKeeps, EndKeeps, CloseKeeps DEF Step, Killed
    <2> QED BY <2>1, <2>2, <2>3, <2>4
  <1>4. CASE AcceptFails \/ CreateThread \/ CreateFails \/ Interrupt
    BY <1>4, AcceptFailsKeeps, CreateThreadKeeps, EndKeeps DEF CreateFails, Interrupt
  <1> QED BY <1>2, <1>3, <1>4 DEF Next

\* The inductive invariant of the sockets, from accept to close.
THEOREM SocketsSafe == Spec => []SocketInv
  BY InitSockets, SocketsKept, PTL DEF Spec

\* Without an overtaken accept, the thread of a client has that client's socket for
\* as long as it runs, for any number of clients and any reuse of descriptors.
THEOREM SocketsOwned == Spec => []OwnSocket
  <1>1. SocketInv => OwnSocket
    BY NoneIsNoFd DEF SocketInv, Types, ThreadShape, Served, OwnSocket, Peer, Pcs
  <1> QED BY <1>1, SocketsSafe, PTL

-----------------------------------------------------------------------------
(* A statement on its way from read to the reply. *)

\* What the parser makes of a statement by itself, and what is then run.
Tree(stmt) == IF stmt.kind \in {"help", "sql"} THEN stmt ELSE None

Wanted(stmt) == IF stmt.kind = "help" THEN stmt ELSE None

Requests ==
  /\ DOMAIN request = Clients
  /\ \A c \in Clients :
       request[c] = None \/ (request[c].from = c /\ request[c].kind \in Kinds)

Carries(c) ==
  thread[c].pc \in {"scan", "parse", "interp", "delete", "send"} =>
    thread[c].stmt.kind \in Kinds \ {"exit"} /\ (~overtaken => thread[c].stmt.from = c)

Unrun(c) == thread[c].pc \in {"scan", "parse", "interp"} => thread[c].ran = None

Undisturbed(c) ==
  thread[c].calm =>
    /\ thread[c].pc = "parse" => current = c /\ thread[c].unread /\ ~comment
    /\ thread[c].pc = "interp" => parse_tree = Tree(thread[c].stmt)
    /\ thread[c].pc \in {"delete", "send"} => thread[c].ran = Wanted(thread[c].stmt)

OnItsWay(c) == Carries(c) /\ Unrun(c) /\ Undisturbed(c)

StatementInv == SocketInv /\ Requests /\ \A c \in Clients : OnItsWay(c)

\* A thread whose own state a step leaves alone, but perhaps for its calm.
LEMMA OthersOnTheirWay ==
  ASSUME NEW c \in Clients, OnItsWay(c), overtaken => overtaken',
         thread'[c].pc = thread[c].pc, thread'[c].stmt = thread[c].stmt,
         thread'[c].ran = thread[c].ran,
         \/ thread[c].pc \in {"parse", "interp"} /\ ~thread'[c].calm
         \/ /\ thread'[c] = thread[c]
            /\ thread[c].pc = "parse" =>
                 comment' = comment /\ (current = c => current' = c)
            /\ thread[c].pc = "interp" => parse_tree' = parse_tree
  PROVE  OnItsWay(c)'
  <1>1. Carries(c)' /\ Unrun(c)'
    BY DEF OnItsWay, Carries, Unrun
  <1>2. Undisturbed(c)'
    <2>1. CASE thread[c].pc \in {"parse", "interp"} /\ ~thread'[c].calm
      BY <2>1 DEF Undisturbed
    <2>2. CASE /\ thread'[c] = thread[c]
               /\ thread[c].pc = "parse" =>
                    comment' = comment /\ (current = c => current' = c)
               /\ thread[c].pc = "interp" => parse_tree' = parse_tree
      BY <2>2 DEF OnItsWay, Undisturbed
    <2> QED BY <2>1, <2>2
  <1> QED BY <1>1, <1>2 DEF OnItsWay

\* A thread that carries no statement.
LEMMA IdleOnItsWay ==
  ASSUME NEW c \in Clients,
         thread'[c].pc \notin {"scan", "parse", "interp", "delete", "send"}
  PROVE  OnItsWay(c)'
  BY DEF OnItsWay, Carries, Unrun, Undisturbed

LEMMA InitStatements == Init => StatementInv
  <1> SUFFICES ASSUME Init PROVE StatementInv
    OBVIOUS
  <1>1. \A c \in Clients : thread[c].pc = "none"
    BY NewThreadFields DEF Init
  <1>2. \A c \in Clients : OnItsWay(c)
    BY <1>1 DEF OnItsWay, Carries, Unrun, Undisturbed
  <1>3. Requests
    BY DEF Init, Requests
  <1> QED BY <1>2, <1>3, InitSockets DEF StatementInv

LEMMA ReadKeepsWay ==
  ASSUME StatementInv, NEW t \in Clients, ReadStatement(t)
  PROVE  \A c \in Clients : OnItsWay(c)'
  <1>1. PICK p \in Clients :
          /\ Peer(t) = p /\ request[p] # None /\ request[p].kind # "exit"
          /\ thread' = [thread EXCEPT ![t] =
               [NewThread EXCEPT !.pc = "scan", !.fd = thread[t].fd, !.stmt = request[p]]]
    BY DEF ReadStatement
  <1>2. PICK r : r = [NewThread EXCEPT !.pc = "scan", !.fd = thread[t].fd, !.stmt = request[p]]
    OBVIOUS
  <1>3. r.pc = "scan" /\ r.stmt = request[p] /\ r.ran = None
    BY <1>2 DEF NewThread
  <1>4. thread'[t] = r /\ \A c \in Clients \ {t} : thread'[c] = thread[c]
    BY <1>1, <1>2 DEF StatementInv, SocketInv, Types, ThreadShape
  <1>5. thread[t].pc = "read" /\ UNCHANGED <<overtaken, current, comment, parse_tree>>
    BY DEF ReadStatement, At, scanner
  <1>6. ~overtaken => p = t
    BY <1>1, <1>5, NoneIsNoFd DEF StatementInv, SocketInv, Served, Peer, Live
  <1>7. request[p].from = p /\ request[p].kind \in Kinds \ {"exit"}
    BY <1>1 DEF StatementInv, Requests
  <1>8. OnItsWay(t)'
    BY <1>3, <1>4, <1>5, <1>6, <1>7 DEF OnItsWay, Carries, Unrun, Undisturbed
  <1>9. \A c \in Clients \ {t} : OnItsWay(c)'
    BY <1>4, <1>5, OthersOnTheirWay DEF StatementInv
  <1> QED BY <1>8, <1>9

LEMMA ScanKeepsWay ==
  ASSUME StatementInv, NEW t \in Clients, Scan(t)
  PROVE  \A c \in Clients : OnItsWay(c)'
  <1>1. PICK th : th = [thread EXCEPT ![t].pc = "parse", ![t].unread = TRUE, ![t].calm = ~comment]
    OBVIOUS
  <1>2. /\ DOMAIN th = Clients
        /\ \A c \in Clients : Fields \subseteq DOMAIN th[c]
        /\ \A c \in Clients \ {t} : th[c] = thread[c]
        /\ th[t].pc = "parse" /\ th[t].stmt = thread[t].stmt /\ th[t].ran = thread[t].ran
    BY <1>1 DEF StatementInv, SocketInv, Types, ThreadShape, Fields
  <1>3. th[t].unread /\ (th[t].calm => ~comment)
    BY <1>1 DEF StatementInv, SocketInv, Types, ThreadShape, Fields
  <1>4. PICK after : after = Disturb(t, th)
    OBVIOUS
  <1>5. /\ after[t] = th[t]
        /\ \A c \in Clients :
             /\ after[c].pc = th[c].pc
             /\ after[c].stmt = th[c].stmt /\ after[c].ran = th[c].ran
             /\ c # t /\ th[c].pc \in {"parse", "interp"} => ~after[c].calm
             /\ c = t \/ th[c].pc \notin {"parse", "interp"} => after[c] = th[c]
    BY <1>2, <1>4, DisturbedThreads
  <1>6. thread' = after
    BY <1>1, <1>4 DEF Scan
  <1>7. thread[t].pc = "scan" /\ current' = t /\ UNCHANGED <<overtaken, comment, parse_tree>>
    BY DEF Scan, At
  <1>8. OnItsWay(t)'
    <2>1. Carries(t)' /\ Unrun(t)'
      BY <1>2, <1>5, <1>6, <1>7 DEF StatementInv, OnItsWay, Carries, Unrun
    <2>2. Undisturbed(t)'
      BY <1>2, <1>3, <1>5, <1>6, <1>7 DEF Undisturbed
    <2> QED BY <2>1, <2>2 DEF OnItsWay
  <1>9. ASSUME NEW c \in Clients \ {t} PROVE OnItsWay(c)'
    <2>1. /\ thread'[c].pc = thread[c].pc /\ thread'[c].stmt = thread[c].stmt
          /\ thread'[c].ran = thread[c].ran
          /\ thread[c].pc \in {"parse", "interp"} => ~thread'[c].calm
          /\ thread[c].pc \notin {"parse", "interp"} => thread'[c] = thread[c]
      BY <1>2, <1>5, <1>6
    <2> QED BY <1>7, <2>1, OthersOnTheirWay DEF StatementInv
  <1> QED BY <1>8, <1>9

LEMMA ParseKeepsWay ==
  ASSUME StatementInv, NEW t \in Clients, Parse(t)
  PROVE  \A c \in Clients : OnItsWay(c)'
  <1>1. PICK ok : ok = Text(current).ok
    OBVIOUS
  <1>2. PICK th : th = [thread EXCEPT ![t].pc = IF ok THEN "interp" ELSE "delete",
                                      ![current].unread = FALSE]
    OBVIOUS
  <1>3. /\ DOMAIN th = Clients
        /\ \A c \in Clients : Fields \subseteq DOMAIN th[c]
        /\ \A c \in Clients : th[c].stmt = thread[c].stmt /\ th[c].ran = thread[c].ran
        /\ \A c \in Clients : th[c].calm = thread[c].calm
        /\ \A c \in Clients \ {t} : th[c].pc = thread[c].pc
        /\ \A c \in Clients \ {t} : c # current => th[c] = thread[c]
        /\ th[t].pc = IF ok THEN "interp" ELSE "delete"
    BY <1>2 DEF StatementInv, SocketInv, Types, ThreadShape, Fields
  <1>4. PICK after : after = Disturb(t, th)
    OBVIOUS
  <1>5. /\ after[t] = th[t]
        /\ \A c \in Clients :
             /\ after[c].pc = th[c].pc
             /\ after[c].stmt = th[c].stmt /\ after[c].ran = th[c].ran
             /\ c # t /\ th[c].pc \in {"parse", "interp"} => ~after[c].calm
             /\ c = t \/ th[c].pc \notin {"parse", "interp"} => after[c] = th[c]
    BY <1>3, <1>4, DisturbedThreads
  <1>6. thread' = after
    BY <1>1, <1>2, <1>4 DEF Parse
  <1>7. /\ thread[t].pc = "parse" /\ UNCHANGED overtaken
        /\ parse_tree' = IF ok THEN Text(current).tree ELSE parse_tree
    BY <1>1 DEF Parse, At
  <1>8. OnItsWay(t)'
    <2>1. Carries(t)' /\ Unrun(t)'
      BY <1>3, <1>5, <1>6, <1>7 DEF StatementInv, OnItsWay, Carries, Unrun
    <2>2. ASSUME thread[t].calm
          PROVE  /\ Text(current) = Parsed(thread[t].stmt, FALSE)
                 /\ thread[t].stmt.kind \in {"help", "sql", "open", "close"}
      <3>1. current = t /\ thread[t].unread /\ ~comment
        BY <1>7, <2>2 DEF StatementInv, OnItsWay, Undisturbed
      <3>2. thread[t].stmt.kind \in {"help", "sql", "open", "close"}
        BY <1>7 DEF StatementInv, OnItsWay, Carries
      <3>3. Text(current) = Parsed(thread[t].stmt, comment)
        BY <3>1 DEF Text
      <3>4. Parsed(thread[t].stmt, comment) = Parsed(thread[t].stmt, FALSE)
        BY <3>1 DEF Parsed
      <3> QED BY <3>2, <3>3, <3>4
    <2>3. ASSUME thread[t].calm, ok PROVE Text(current).tree = Tree(thread[t].stmt)
      BY <1>1, <2>2, <2>3 DEF Parsed, Tree
    <2>4. ASSUME thread[t].calm, ~ok PROVE Wanted(thread[t].stmt) = None
      BY <1>1, <2>2, <2>4 DEF Parsed, Wanted
    <2>5. thread[t].ran = None
      BY <1>7 DEF StatementInv, OnItsWay, Unrun
    <2>6. Undisturbed(t)'
      BY <1>3, <1>5, <1>6, <1>7, <2>3, <2>4, <2>5 DEF Undisturbed
    <2> QED BY <2>1, <2>6 DEF OnItsWay
  <1>9. ASSUME NEW c \in Clients \ {t} PROVE OnItsWay(c)'
    <2>1. /\ thread'[c].pc = thread[c].pc /\ thread'[c].stmt = thread[c].stmt
          /\ thread'[c].ran = thread[c].ran
          /\ thread[c].pc \in {"parse", "interp"} => ~thread'[c].calm
          /\ thread[c].pc \notin {"parse", "interp"} => thread'[c].calm = thread[c].calm
      BY <1>3, <1>5, <1>6
    <2>2. Carries(c)' /\ Unrun(c)'
      BY <1>7, <2>1 DEF StatementInv, OnItsWay, Carries, Unrun
    <2>3. Undisturbed(c)'
      BY <2>1 DEF StatementInv, OnItsWay, Undisturbed
    <2> QED BY <2>2, <2>3 DEF OnItsWay
  <1> QED BY <1>8, <1>9

LEMMA ParseFreedKeepsWay ==
  ASSUME StatementInv, NEW t \in Clients, ParseFreed(t)
  PROVE  \A c \in Clients : OnItsWay(c)'
  <1>1. PICK th : th = [thread EXCEPT ![t].pc = "delete"]
    OBVIOUS
  <1>2. /\ DOMAIN th = Clients
        /\ \A c \in Clients : Fields \subseteq DOMAIN th[c]
        /\ \A c \in Clients \ {t} : th[c] = thread[c]
        /\ th[t].pc = "delete" /\ th[t].stmt = thread[t].stmt /\ th[t].ran = thread[t].ran
        /\ th[t].calm = thread[t].calm
    BY <1>1 DEF StatementInv, SocketInv, Types, ThreadShape, Fields
  <1>3. PICK after : after = Disturb(t, th)
    OBVIOUS
  <1>4. /\ after[t] = th[t]
        /\ \A c \in Clients :
             /\ after[c].pc = th[c].pc
             /\ after[c].stmt = th[c].stmt /\ after[c].ran = th[c].ran
             /\ c # t /\ th[c].pc \in {"parse", "interp"} => ~after[c].calm
             /\ c = t \/ th[c].pc \notin {"parse", "interp"} => after[c] = th[c]
    BY <1>2, <1>3, DisturbedThreads
  <1>5. thread' = after
    BY <1>1, <1>3 DEF ParseFreed
  <1>6. thread[t].pc = "parse" /\ current = None /\ UNCHANGED overtaken
    BY DEF ParseFreed, At
  <1>7. ~thread[t].calm
    BY <1>6, NoneIsNoFd DEF StatementInv, OnItsWay, Undisturbed
  <1>8. OnItsWay(t)'
    BY <1>2, <1>4, <1>5, <1>6, <1>7 DEF StatementInv, OnItsWay, Carries, Unrun, Undisturbed
  <1>9. ASSUME NEW c \in Clients \ {t} PROVE OnItsWay(c)'
    <2>1. /\ thread'[c].pc = thread[c].pc /\ thread'[c].stmt = thread[c].stmt
          /\ thread'[c].ran = thread[c].ran
          /\ thread[c].pc \in {"parse", "interp"} => ~thread'[c].calm
          /\ thread[c].pc \notin {"parse", "interp"} => thread'[c] = thread[c]
      BY <1>2, <1>4, <1>5
    <2> QED BY <1>6, <2>1, OthersOnTheirWay DEF StatementInv
  <1> QED BY <1>8, <1>9

\* parse_tree is still the tree of a calm statement, and HELP is all that is run.
LEMMA InterpKeepsWay ==
  ASSUME StatementInv, NEW t \in Clients, Interp(t)
  PROVE  \A c \in Clients : OnItsWay(c)'
  <1>1. /\ \A c \in Clients \ {t} : thread'[c] = thread[c]
        /\ thread'[t].pc = "delete" /\ thread'[t].ran = parse_tree
        /\ thread'[t].stmt = thread[t].stmt /\ thread'[t].calm = thread[t].calm
    BY DEF Interp, StatementInv, SocketInv, Types, ThreadShape, Fields
  <1>2. /\ thread[t].pc = "interp" /\ UNCHANGED <<overtaken, current, comment, parse_tree>>
        /\ parse_tree = None \/ parse_tree.kind # "sql"
    BY DEF Interp, At, scanner
  <1>3. ASSUME thread[t].calm PROVE parse_tree = Wanted(thread[t].stmt)
    <2>1. parse_tree = Tree(thread[t].stmt)
      BY <1>2, <1>3 DEF StatementInv, OnItsWay, Undisturbed
    <2> QED BY <1>2, <2>1 DEF Tree, Wanted
  <1>4. OnItsWay(t)'
    BY <1>1, <1>2, <1>3 DEF StatementInv, OnItsWay, Carries, Unrun, Undisturbed
  <1>5. \A c \in Clients \ {t} : OnItsWay(c)'
    BY <1>1, <1>2, OthersOnTheirWay DEF StatementInv
  <1> QED BY <1>4, <1>5

\* A buffer is deleted only by who made it.
LEMMA DeleteKeepsWay ==
  ASSUME StatementInv, NEW t \in Clients, DeleteBuffer(t)
  PROVE  \A c \in Clients : OnItsWay(c)'
  <1>1. /\ thread[t].pc = "delete" /\ Go(t, "send")
        /\ current' = (IF current = t THEN None ELSE current)
        /\ UNCHANGED <<overtaken, comment, parse_tree>>
    BY DEF DeleteBuffer, At
  <1>2. /\ \A c \in Clients \ {t} : thread'[c] = thread[c]
        /\ thread'[t].pc = "send" /\ thread'[t].stmt = thread[t].stmt
        /\ thread'[t].ran = thread[t].ran /\ thread'[t].calm = thread[t].calm
    BY <1>1, GoFacts DEF StatementInv
  <1>3. OnItsWay(t)'
    BY <1>1, <1>2 DEF StatementInv, OnItsWay, Carries, Unrun, Undisturbed
  <1>4. ASSUME NEW c \in Clients \ {t} PROVE OnItsWay(c)'
    <2>1. current = c => current' = c
      BY <1>1
    <2> QED BY <1>1, <1>2, <2>1, OthersOnTheirWay DEF StatementInv
  <1> QED BY <1>3, <1>4

\* The steps that only begin or end a thread's statement.
LEMMA QuietStepsKeepWay ==
  ASSUME StatementInv, NEW t \in Clients,
         Start(t) \/ ReadEnd(t) \/ Send(t) \/ SendFails(t) \/ Close(t)
  PROVE  \A c \in Clients : OnItsWay(c)'
  <1>1. UNCHANGED <<overtaken, current, comment, parse_tree>>
    BY DEF Start, ReadEnd, Send, SendFails, Close, scanner
  <1>2. /\ \A c \in Clients \ {t} : thread'[c] = thread[c]
        /\ thread'[t].pc \in {"read", "close", "done"}
    <2> USE DEF StatementInv, SocketInv, Types, ThreadShape, Fields
    <2>1. CASE Start(t)
      BY <2>1 DEF Start
    <2>2. CASE ReadEnd(t) \/ SendFails(t)
      BY <2>2, GoFacts DEF ReadEnd, SendFails
    <2>3. CASE Send(t)
      <3>1. PICK r : r = [NewThread EXCEPT !.pc = "read", !.fd = thread[t].fd]
        OBVIOUS
      <3>2. r.pc = "read" /\ thread' = [thread EXCEPT ![t] = r]
        BY <2>3, <3>1 DEF Send, NewThread
      <3> QED BY <3>2
    <2>4. CASE Close(t)
      <3>1. PICK r : r = [NewThread EXCEPT !.pc = "done"]
        OBVIOUS
      <3>2. r.pc = "done" /\ thread' = [thread EXCEPT ![t] = r]
        BY <2>4, <3>1 DEF Close, NewThread
      <3> QED BY <3>2
    <2> QED BY <2>1, <2>2, <2>3, <2>4
  <1>3. OnItsWay(t)'
    BY <1>2, IdleOnItsWay
  <1>4. \A c \in Clients \ {t} : OnItsWay(c)'
    BY <1>1, <1>2, OthersOnTheirWay DEF StatementInv
  <1> QED BY <1>3, <1>4

LEMMA EndKeepsWay ==
  ASSUME NEW how, End(how) PROVE Requests' /\ \A c \in Clients : OnItsWay(c)'
  <1>1. \A c \in Clients : thread'[c].pc = "none"
    BY NewThreadFields DEF End
  <1>2. \A c \in Clients : OnItsWay(c)'
    BY <1>1, IdleOnItsWay
  <1>3. Requests'
    BY DEF End, Requests
  <1> QED BY <1>2, <1>3

LEMMA CreateKeepsWay ==
  ASSUME StatementInv, CreateThread PROVE \A c \in Clients : OnItsWay(c)'
  <1> PICK t : t = listening
    OBVIOUS
  <1>1. PICK r : r = [NewThread EXCEPT !.pc = "start"]
    OBVIOUS
  <1>2. t \in Clients /\ r.pc = "start" /\ thread' = [thread EXCEPT ![t] = r]
    BY <1>1, ThreadAt DEF CreateThread, StatementInv, SocketInv, Types
  <1>3. UNCHANGED <<overtaken, current, comment, parse_tree>>
    BY DEF CreateThread, scanner
  <1>4. thread'[t].pc = "start" /\ \A c \in Clients \ {t} : thread'[c] = thread[c]
    BY <1>2 DEF StatementInv, SocketInv, Types, ThreadShape
  <1>5. OnItsWay(t)'
    BY <1>2, <1>4, IdleOnItsWay
  <1>6. \A c \in Clients \ {t} : OnItsWay(c)'
    BY <1>3, <1>4, OthersOnTheirWay DEF StatementInv
  <1> QED BY <1>5, <1>6

\* Only Ask puts a statement on the way.
LEMMA RequestsKept ==
  ASSUME Requests,
         \/ UNCHANGED request
         \/ \E c \in Clients, k \in Kinds : request' = [request EXCEPT ![c] = [from |-> c, kind |-> k]]
         \/ \E c \in Clients : request' = [request EXCEPT ![c] = None]
         \/ \E cut \in SUBSET Clients :
              request' = [c \in Clients |-> IF c \in cut THEN None ELSE request[c]]
  PROVE  Requests'
  BY DEF Requests

LEMMA StatementsKept == StatementInv /\ [Next]_vars => StatementInv'
  <1> SUFFICES ASSUME StatementInv, [Next]_vars PROVE StatementInv'
    OBVIOUS
  <1>0. SocketInv'
    BY SocketsKept DEF StatementInv
  <1>1. ASSUME UNCHANGED <<thread, current, comment, parse_tree>>, overtaken => overtaken'
        PROVE  \A c \in Clients : OnItsWay(c)'
    BY <1>1, OthersOnTheirWay DEF StatementInv
  <1>2. Requests'
    <2>1. CASE UNCHANGED request
      BY <2>1, RequestsKept DEF StatementInv
    <2>2. CASE \E c \in Clients : Ask(c)
      BY <2>2, RequestsKept DEF StatementInv, Ask
    <2>3. CASE \E t \in Clients : ReadStatement(t)
      BY <2>3, RequestsKept DEF StatementInv, ReadStatement
    <2>4. ASSUME NEW t \in Clients, ReadEnd(t) PROVE Requests'
      <3>1. PICK cut \in SUBSET Clients : cut = {c \in Clients : Peer(t) = c}
        OBVIOUS
      <3>2. request' = [c \in Clients |-> IF c \in cut THEN None ELSE request[c]]
        BY <2>4, <3>1 DEF ReadEnd
      <3> QED BY <3>2, RequestsKept DEF StatementInv
    <2>5. ASSUME NEW t \in Clients, Close(t) PROVE Requests'
      <3>1. PICK cut \in SUBSET Clients :
              cut = {c \in Clients : thread[t].fd # None /\ conn[thread[t].fd] = c}
        OBVIOUS
      <3>2. request' = [c \in Clients |-> IF c \in cut THEN None ELSE request[c]]
        BY <2>5, <3>1 DEF Close, HangUp
      <3> QED BY <3>2, RequestsKept DEF StatementInv
    <2>6. CASE \E how : End(how)
      BY <2>6, EndKeepsWay
    <2>7. CASE UNCHANGED vars
      BY <2>1, <2>7 DEF vars, network
    <2>8. CASE AcceptFails \/ CreateThread \/ CreateFails \/ Interrupt
      BY <2>1, <2>6, <2>8 DEF AcceptFails, CreateThread, CreateFails, Interrupt, network
    <2>9. ASSUME NEW c \in Clients, Connect(c) \/ Ask(c) \/ Leave(c) \/ Accept(c)
          PROVE  Requests'
      BY <2>1, <2>2, <2>9 DEF Connect, Leave, Accept
    <2>10. ASSUME NEW t \in Clients, Step(t) PROVE Requests'
      <3>1. CASE \/ Start(t) \/ Scan(t) \/ Parse(t) \/ ParseFreed(t) \/ Interp(t)
                 \/ DeleteBuffer(t) \/ Send(t) \/ SendFails(t)
        BY <2>1, <3>1 DEF Start, Scan, Parse, ParseFreed, Interp, DeleteBuffer, Send, SendFails,
                          network
      <3> QED BY <2>3, <2>4, <2>5, <2>6, <2>10, <3>1 DEF Step, Killed
    <2> QED BY <2>7, <2>8, <2>9, <2>10 DEF Next
  <1>3. \A c \in Clients : OnItsWay(c)'
    <2>1. CASE UNCHANGED vars
      BY <1>1, <2>1 DEF vars, scanner
    <2>2. CASE AcceptFails
      BY <1>1, <2>2 DEF AcceptFails, Assign, scanner
    <2>3. CASE CreateThread
      BY <2>3, CreateKeepsWay
    <2>4. CASE CreateFails \/ Interrupt
      BY <2>4, EndKeepsWay DEF CreateFails, Interrupt
    <2>5. ASSUME NEW t \in Clients, Connect(t) \/ Ask(t) \/ Leave(t)
          PROVE  \A c \in Clients : OnItsWay(c)'
      BY <1>1, <2>5 DEF Connect, Ask, Leave, scanner
    <2>6. ASSUME NEW t \in Clients, Accept(t) PROVE \A c \in Clients : OnItsWay(c)'
      BY <1>1, <2>6 DEF Accept, Assign, scanner
    <2>7. ASSUME NEW t \in Clients, Step(t) PROVE \A c \in Clients : OnItsWay(c)'
      BY <2>7, QuietStepsKeepWay, ReadKeepsWay, ScanKeepsWay, ParseKeepsWay, ParseFreedKeepsWay,
         InterpKeepsWay, DeleteKeepsWay, EndKeepsWay DEF Step, Killed
    <2> QED BY <2>1, <2>2, <2>3, <2>4, <2>5, <2>6, <2>7 DEF Next
  <1> QED BY <1>0, <1>2, <1>3 DEF StatementInv

\* The inductive invariant of the statements, from read to the reply.
THEOREM StatementsSafe == Spec => []StatementInv
  BY InitStatements, StatementsKept, PTL DEF Spec

\* A statement that no other thread disturbed, scanned outside a comment, gets its
\* own reply, and without an overtaken accept that goes to who sent it, for any
\* number of clients, threads and statements.
THEOREM CalmRepliesAreRight == Spec => CalmRepliesRight
  <1>1. ASSUME StatementInv, NEW t \in Clients, Send(t)
        PROVE  LET stmt == thread[t].stmt
               IN  /\ thread[t].calm =>
                        thread[t].ran = IF stmt.kind = "help" THEN stmt ELSE None
                   /\ ~overtaken => Peer(t) = stmt.from
    <2>1. thread[t].pc = "send"
      BY <1>1 DEF Send, At
    <2>2. thread[t].calm => thread[t].ran = Wanted(thread[t].stmt)
      BY <1>1, <2>1 DEF StatementInv, OnItsWay, Undisturbed
    <2>3. ~overtaken => thread[t].stmt.from = t
      BY <1>1, <2>1 DEF StatementInv, OnItsWay, Carries
    <2>4. ~overtaken => Peer(t) = t
      BY <1>1, <2>1, NoneIsNoFd DEF StatementInv, SocketInv, Served, Live, Peer
    <2> QED BY <2>2, <2>3, <2>4 DEF Wanted
  <1>2. StatementInv =>
          [\A t \in Clients : Send(t) =>
             LET stmt == thread[t].stmt
             IN  /\ thread[t].calm =>
                      thread[t].ran = IF stmt.kind = "help" THEN stmt ELSE None
                 /\ ~overtaken => Peer(t) = stmt.from]_vars
    BY <1>1
  <1> QED BY <1>2, StatementsSafe, PTL DEF CalmRepliesRight
==============================================================================
