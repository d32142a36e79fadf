------------------------------- MODULE Server -------------------------------
(***************************************************************************)
(* rucbase.cpp: the accept loop of start_server, one client_handler thread *)
(* per connection, and what the threads share: the accept loop's local     *)
(* sockfd, which every thread is given the address of; flex's current      *)
(* buffer and start state; and the parser's result ast::parse_tree.  No    *)
(* lock guards any of them.                                                *)
(*                                                                         *)
(* A client connects once, sends one statement at a time and waits for the *)
(* reply (rucbase_client); it may leave at any time.  The thread created   *)
(* after the accept of client c is called c as well.  A statement is its   *)
(* sender and one of four kinds:                                           *)
(*   help    HELP, answered from a constant, and COMMIT, ABORT, ROLLBACK,  *)
(*           whose functions are empty                                     *)
(*   sql     any other statement: it needs a transaction                   *)
(*   open    text with a comment that it does not close                    *)
(*   close   the end of a comment and then HELP; a syntax error without it *)
(* or "exit", which ends the connection.                                   *)
(***************************************************************************)
EXTENDS Integers

CONSTANTS Clients, Kinds, MaxFd, None

ASSUME ServerAssumption ==
  /\ MaxFd \in Nat
  /\ None \notin Clients \cup Nat
  /\ Kinds \subseteq {"help", "sql", "open", "close", "exit"}

VARIABLES
  process,    \* "running", or ended: "stopped" by its own decision, "killed"
  sockfd,     \* start_server's local variable; None is -1
  listening,  \* client accepted for which no thread is created yet, or None
  conn,       \* fd -> the client at the other end, of the server's open sockets
  client,     \* Clients -> "away", "queued", "here", "left"
  request,    \* Clients -> statement sent and not yet read, or None
  waiting,    \* Clients -> the client has sent and has no reply
  thread,     \* Clients -> what client_handler has on its stack
  current,    \* YY_CURRENT_BUFFER: the thread that made it, or None
  comment,    \* flex's start state is STATE_COMMENT
  parse_tree, \* the statement that was parsed last, or None for nullptr
  overtaken   \* history: sockfd was assigned before a thread had read it

network == <<client, request, waiting>>
scanner == <<current, comment, parse_tree>>
vars == <<process, sockfd, listening, conn, thread, overtaken, network, scanner>>

Fds == 1..MaxFd

\* pc names what the thread does next; calm: from this thread's yy_scan_string
\* to its interp_sql no other thread scans or parses, nor does it begin in a comment.
NewThread ==
  [pc |-> "none", fd |-> None, stmt |-> None, unread |-> FALSE, ran |-> None, calm |-> FALSE]

Init ==
  /\ process = "running"
  /\ sockfd = None
  /\ listening = None
  /\ conn = [fd \in Fds |-> None]
  /\ client = [c \in Clients |-> "away"]
  /\ request = [c \in Clients |-> None]
  /\ waiting = [c \in Clients |-> FALSE]
  /\ thread = [c \in Clients |-> NewThread]
  /\ current = None
  /\ comment = FALSE
  /\ parse_tree = None
  /\ overtaken = FALSE

-----------------------------------------------------------------------------
\* Clients (rucbase_client/main.cpp).

Connect(c) ==
  /\ process = "running"
  /\ client[c] = "away"
  /\ client' = [client EXCEPT ![c] = "queued"]
  /\ UNCHANGED <<process, sockfd, listening, conn, request, waiting, thread, overtaken, scanner>>

Ask(c) ==
  /\ process = "running"
  /\ client[c] \in {"queued", "here"}
  /\ ~waiting[c]
  /\ \E k \in Kinds : request' = [request EXCEPT ![c] = [from |-> c, kind |-> k]]
  /\ waiting' = [waiting EXCEPT ![c] = TRUE]
  /\ UNCHANGED <<process, sockfd, listening, conn, client, thread, overtaken, scanner>>

\* Also while it waits.
Leave(c) ==
  /\ process = "running"
  /\ client[c] \in {"queued", "here"}
  /\ client' = [client EXCEPT ![c] = "left"]
  /\ waiting' = [waiting EXCEPT ![c] = FALSE]
  /\ UNCHANGED <<process, sockfd, listening, conn, request, thread, overtaken, scanner>>

-----------------------------------------------------------------------------
\* start_server.

\* The kernel gives the lowest descriptor that is not open.
Lowest(fd) == conn[fd] = None /\ \A lower \in 1..(fd - 1) : conn[lower] # None

\* sockfd is assigned: too early for a thread that has not read it.
Assign(fd) ==
  /\ sockfd' = fd
  /\ overtaken' = (overtaken \/ \E c \in Clients : thread[c].pc = "start")

\* Queued connections are accepted, also when the client has left again.
Accept(c) ==
  /\ process = "running"
  /\ listening = None
  /\ client[c] \in {"queued", "left"}
  /\ thread[c].pc = "none"
  /\ \A fd \in Fds : conn[fd] # c
  /\ \E fd \in Fds :
       /\ Lowest(fd)
       /\ Assign(fd)
       /\ conn' = [conn EXCEPT ![fd] = c]
  /\ listening' = c
  /\ client' = [client EXCEPT ![c] = IF @ = "queued" THEN "here" ELSE @]
  /\ UNCHANGED <<process, request, waiting, thread, scanner>>

\* accept returns -1: the loop goes on, and sockfd is -1.
AcceptFails ==
  /\ process = "running"
  /\ listening = None
  /\ sockfd # None
  /\ Assign(None)
  /\ UNCHANGED <<process, listening, conn, thread, network, scanner>>

\* pthread_create, with the address of sockfd.
CreateThread ==
  /\ process = "running"
  /\ listening # None
  /\ thread' = [thread EXCEPT ![listening] = [NewThread EXCEPT !.pc = "start"]]
  /\ listening' = None
  /\ UNCHANGED <<process, sockfd, conn, overtaken, network, scanner>>

\* With the process go its threads, its sockets and its memory, whatever the
\* threads are doing; clients that wait see the connection end.
End(how) ==
  /\ process = "running"
  /\ process' = how
  /\ sockfd' = None
  /\ listening' = None
  /\ conn' = [fd \in Fds |-> None]
  /\ thread' = [c \in Clients |-> NewThread]
  /\ waiting' = [c \in Clients |-> FALSE]
  /\ request' = [c \in Clients |-> None]
  /\ current' = None
  /\ comment' = FALSE
  /\ parse_tree' = None
  /\ UNCHANGED <<client, overtaken>>

\* pthread_create fails: the loop is left, and main returns.
CreateFails == listening # None /\ End("stopped")

\* SIGINT: sigint_handler jumps out of the loop, which is in accept.
Interrupt == listening = None /\ End("stopped")

-----------------------------------------------------------------------------
\* client_handler.

At(t, pc) == process = "running" /\ thread[t].pc = pc

Go(t, pc) == thread' = [thread EXCEPT ![t].pc = pc]

\* The thread starts to run and reads *sock_fd.
Start(t) ==
  /\ At(t, "start")
  /\ thread' = [thread EXCEPT ![t].fd = sockfd, ![t].pc = "read"]
  /\ UNCHANGED <<process, sockfd, listening, conn, overtaken, network, scanner>>

\* The other end of the thread's socket; None if it has been closed.
Peer(t) == IF thread[t].fd = None THEN None ELSE conn[thread[t].fd]

\* read returns a statement.
ReadStatement(t) ==
  /\ At(t, "read")
  /\ \E c \in Clients :
       /\ Peer(t) = c
       /\ request[c] # None
       /\ request[c].kind # "exit"
       /\ thread' = [thread EXCEPT ![t] =
                       [NewThread EXCEPT !.pc = "scan", !.fd = thread[t].fd, !.stmt = request[c]]]
       /\ request' = [request EXCEPT ![c] = None]
  /\ UNCHANGED <<process, sockfd, listening, conn, client, waiting, overtaken, scanner>>

\* read returns 0 or -1, or "exit".
ReadEnd(t) ==
  /\ At(t, "read")
  /\ \/ Peer(t) = None
     \/ Peer(t) # None /\ request[Peer(t)] = None /\ client[Peer(t)] = "left"
     \/ Peer(t) # None /\ request[Peer(t)] # None /\ request[Peer(t)].kind = "exit"
  /\ Go(t, "close")
  /\ request' = [c \in Clients |-> IF Peer(t) = c THEN None ELSE request[c]]
  /\ UNCHANGED <<process, sockfd, listening, conn, client, waiting, overtaken, scanner>>

\* The statements that other threads have scanned and not run lose their calm.
Disturb(t, threads) ==
  [c \in Clients |-> IF c # t /\ threads[c].pc \in {"parse", "interp"}
                     THEN [threads[c] EXCEPT !.calm = FALSE] ELSE threads[c]]

\* yy_scan_string makes a buffer of the statement and switches to it.
Scan(t) ==
  /\ At(t, "scan")
  /\ thread' = Disturb(t, [thread EXCEPT ![t].pc = "parse", ![t].unread = TRUE, ![t].calm = ~comment])
  /\ current' = t
  /\ UNCHANGED <<process, sockfd, listening, conn, overtaken, network, comment, parse_tree>>

\* What yyparse makes of a statement: whether it returns 0, the tree, and the
\* start state it leaves.  Text in a comment is skipped up to EOF.
Parsed(stmt, in_comment) ==
  CASE in_comment /\ stmt.kind = "close" -> [ok |-> TRUE, tree |-> stmt, comment |-> FALSE]
    [] in_comment /\ stmt.kind # "close" -> [ok |-> TRUE, tree |-> None, comment |-> TRUE]
    [] ~in_comment /\ stmt.kind \in {"help", "sql"} ->
         [ok |-> TRUE, tree |-> stmt, comment |-> FALSE]
    [] ~in_comment /\ stmt.kind = "close" -> [ok |-> FALSE, tree |-> None, comment |-> FALSE]
    [] ~in_comment /\ stmt.kind = "open" -> [ok |-> TRUE, tree |-> None, comment |-> TRUE]

\* The statement in a buffer that is not deleted; one that was parsed is at EOF.
Text(b) ==
  IF thread[b].unread THEN Parsed(thread[b].stmt, comment)
  ELSE [ok |-> TRUE, tree |-> None, comment |-> comment]

\* Mutant: after a syntax error the handler goes back to read.
ParseOrRead(t) ==
  /\ At(t, "parse")
  /\ current # None
  /\ LET parsed == Text(current)
     IN  /\ comment' = parsed.comment
         /\ parse_tree' = IF parsed.ok THEN parsed.tree ELSE parse_tree
         /\ thread' = Disturb(t, [thread EXCEPT
                        ![t].pc = IF parsed.ok THEN "interp" ELSE "read",
                        ![current].unread = FALSE])
  /\ UNCHANGED <<process, sockfd, listening, conn, overtaken, network, current>>

\* yyparse reads the current buffer, whoever made it, and sets parse_tree if it
\* succeeds; the handler goes on to look at parse_tree, or skips it.
Parse(t) ==
  /\ At(t, "parse")
  /\ current # None
  /\ LET parsed == Text(current)
     IN  /\ comment' = parsed.comment
         /\ parse_tree' = IF parsed.ok THEN parsed.tree ELSE parse_tree
         /\ thread' = Disturb(t, [thread EXCEPT
                        ![t].pc = IF parsed.ok THEN "interp" ELSE "delete",
                        ![current].unread = FALSE])
  /\ UNCHANGED <<process, sockfd, listening, conn, overtaken, network, current>>

\* With its buffer deleted, yylex reads what was freed: the outcomes are a crash
\* (Race) or text that is no statement.
ParseFreed(t) ==
  /\ At(t, "parse")
  /\ current = None
  /\ thread' = Disturb(t, [thread EXCEPT ![t].pc = "delete"])
  /\ UNCHANGED <<process, sockfd, listening, conn, overtaken, network, scanner>>

\* interp_sql of what parse_tree is by now.
Interp(t) ==
  /\ At(t, "interp")
  /\ parse_tree = None \/ (parse_tree # None /\ parse_tree.kind # "sql")
  /\ thread' = [thread EXCEPT ![t].ran = parse_tree, ![t].pc = "delete"]
  /\ UNCHANGED <<process, sockfd, listening, conn, overtaken, network, scanner>>

\* TransactionManager::Begin returns the nullptr it is given, and SetTransaction
\* dereferences it.
NullTransaction(t) ==
  /\ At(t, "interp")
  /\ parse_tree # None /\ parse_tree.kind = "sql"

\* Mutant: there is no current buffer any more, whichever it was.
DeleteAnyBuffer(t) ==
  /\ At(t, "delete")
  /\ current' = None
  /\ Go(t, "send")
  /\ UNCHANGED <<process, sockfd, listening, conn, overtaken, network, comment, parse_tree>>

\* yy_delete_buffer: a buffer that is current leaves none.
DeleteBuffer(t) ==
  /\ At(t, "delete")
  /\ current' = IF current = t THEN None ELSE current
  /\ Go(t, "send")
  /\ UNCHANGED <<process, sockfd, listening, conn, overtaken, network, comment, parse_tree>>

\* write: the reply goes to whoever has the socket now.
Send(t) ==
  /\ At(t, "send")
  /\ \E c \in Clients :
       /\ Peer(t) = c
       /\ waiting' = [waiting EXCEPT ![c] = FALSE]
  /\ thread' = [thread EXCEPT ![t] = [NewThread EXCEPT !.pc = "read", !.fd = thread[t].fd]]
  /\ UNCHANGED <<process, sockfd, listening, conn, client, request, overtaken, scanner>>

\* write returns -1: the socket has been closed by another thread.
SendFails(t) ==
  /\ At(t, "send")
  /\ Peer(t) = None
  /\ Go(t, "close")
  /\ UNCHANGED <<process, sockfd, listening, conn, overtaken, network, scanner>>

\* write to a client that has left raises SIGPIPE, which is not caught.
BrokenPipe(t) ==
  /\ At(t, "send")
  /\ Peer(t) # None /\ client[Peer(t)] = "left"

\* Two threads that use the scanner or the parse tree at once: a data race, one
\* outcome of which is a crash; so is reading a buffer that is gone.
Race(t) ==
  /\ At(t, "parse") \/ At(t, "interp")
  /\ \/ current = None
     \/ \E c \in Clients \ {t} : thread[c].pc \in {"scan", "parse", "interp"}

Killed(t) ==
  /\ NullTransaction(t) \/ BrokenPipe(t) \/ Race(t)
  /\ End("killed")

\* The client of a closed socket sees the end and leaves.
HangUp(fd) ==
  /\ conn' = [f \in Fds |-> IF f = fd THEN None ELSE conn[f]]
  /\ LET cut == {c \in Clients : fd # None /\ conn[fd] = c}
     IN  /\ client' = [c \in Clients |-> IF c \in cut THEN "left" ELSE client[c]]
         /\ request' = [c \in Clients |-> IF c \in cut THEN None ELSE request[c]]
         /\ waiting' = [c \in Clients |-> IF c \in cut THEN FALSE ELSE waiting[c]]

\* Mutant: the handler goes on after its close.
CloseGoingOn(t) ==
  /\ At(t, "close")
  /\ HangUp(thread[t].fd)
  /\ Go(t, "read")
  /\ UNCHANGED <<process, sockfd, listening, overtaken, scanner>>

\* close(fd) and pthread_exit.  The descriptor is closed whoever has it.
Close(t) ==
  /\ At(t, "close")
  /\ HangUp(thread[t].fd)
  /\ thread' = [thread EXCEPT ![t] = [NewThread EXCEPT !.pc = "done"]]
  /\ UNCHANGED <<process, sockfd, listening, overtaken, scanner>>

-----------------------------------------------------------------------------
Step(t) ==
  \/ Start(t) \/ ReadStatement(t) \/ ReadEnd(t) \/ Scan(t)
  \/ Parse(t) \/ ParseFreed(t) \/ Interp(t) \/ DeleteBuffer(t)
  \/ Send(t) \/ SendFails(t) \/ Killed(t) \/ Close(t)

Next ==
  \/ \E c \in Clients : Connect(c) \/ Ask(c) \/ Leave(c) \/ Accept(c) \/ Step(c)
  \/ AcceptFails \/ CreateThread \/ CreateFails \/ Interrupt

\* The kernel runs every thread that can run, and accept takes every queued
\* connection; clients need do nothing.
Fairness ==
  /\ \A c \in Clients : WF_vars(Step(c)) /\ WF_vars(Accept(c))
  /\ WF_vars(CreateThread)

Spec == Init /\ [][Next]_vars /\ Fairness

-----------------------------------------------------------------------------
(***************************************************************************)
(* As long as no accept has assigned sockfd before the thread of an        *)
(* earlier one has read it, the thread created for a client has that       *)
(* client's socket for as long as it runs, also when descriptors are       *)
(* closed and used again; so no two threads have one socket, and none      *)
(* closes another's.                                                       *)
(***************************************************************************)
OwnSocket ==
  ~overtaken =>
    \A t \in Clients : thread[t].pc \notin {"none", "start", "done"} => Peer(t) = t

(***************************************************************************)
(* The reply to a statement that no other thread disturbed, and that does  *)
(* not begin in a comment somebody left open, is the reply to that         *)
(* statement and, without an overtaken accept, goes to who sent it.  What  *)
(* disturbed earlier statements leaves no trace in the scanner.            *)
(***************************************************************************)
CalmRepliesRight ==
  [][\A t \in Clients :
       Send(t) =>
         LET stmt == thread[t].stmt
         IN  /\ thread[t].calm =>
                  thread[t].ran = IF stmt.kind = "help" THEN stmt ELSE None
             /\ ~overtaken => Peer(t) = stmt.from]_vars

(***************************************************************************)
(* A client that has sent a statement gets a reply, if perhaps the wrong   *)
(* one, or sees its connection end, unless an accept was overtaken: then a *)
(* connection may be left that no thread reads.                            *)
(***************************************************************************)
EveryoneAnswered == \A c \in Clients : waiting[c] ~> (~waiting[c] \/ overtaken)
=============================================================================
