------------------------------- MODULE RbbServer --------------------------------
(***************************************************************************)
(* The remote bitbang server of the Verilator simulation                   *)
(* (verilator/rbb_server.cpp): its two descriptors, the wait for a client  *)
(* or for the main thread, and the commands it reads.  The client (OpenOCD)*)
(* and the kernel's side of the sockets are the environment.               *)
(***************************************************************************)
EXTENDS Integers, Sequences, FiniteSets, SequencesExt

CONSTANTS
  TDI_FREE,     \* bound: whether a client drives TDI and TCK apart
  MaxCommands   \* bound: commands a client sends

Bits == {0, 1}

ASSUME CommandsAssumption == TDI_FREE \in BOOLEAN /\ MaxCommands \in Nat

VARIABLES
  sockfd, clientfd,  \* the two descriptors of the server: open or 0
  pipe,              \* the pipe from main: a byte is waiting in it
  events,            \* what epoll_wait returned and accept() has yet to handle
  client,            \* the client: "away", "connected", "closed"
  backlog,           \* kernel: a connection waits to be accepted
  toServer,          \* kernel: commands sent and not yet read
  budget,            \* commands the client may still send
  replies,           \* bits written to the client
  wanted             \* history: TDO as the client's commands imply it, at each read

serverVars == <<sockfd, clientfd, pipe, events, client, backlog, toServer, budget,
                replies, wanted>>

\* A command letter: '0'..'7' sets the pins (TMS is left out), 'r' pulses TRST, 'R' asks for TDO, 'Q'
\* quits; "other" stands for 'B', 'b' and letters nobody knows.
PinCommands ==
  {c \in [do : {"pins"}, tck : Bits, tdi : Bits] : TDI_FREE \/ c.tck = c.tdi}
Commands == PinCommands \cup [do : {"reset", "tdo", "quit", "other"}]

ServerInit ==
  /\ sockfd = FALSE /\ clientfd = FALSE
  /\ pipe = FALSE
  /\ events = <<>>
  /\ client = "away"
  /\ backlog = FALSE
  /\ toServer = <<>>
  /\ budget = MaxCommands
  /\ replies = <<>>
  /\ wanted = <<>>

--------------------------------------------------------------------------------
finished == ~sockfd /\ ~clientfd

\* Mutant: the listening socket only.
finish_KeepsClient ==
  /\ sockfd' = FALSE
  /\ clientfd' = clientfd

\* Both descriptors, or nothing when the server is closed already.
finish ==
  /\ sockfd' = FALSE
  /\ clientfd' = (clientfd /\ ~sockfd)

listen ==
  /\ sockfd' = TRUE
  /\ UNCHANGED <<clientfd, pipe, events, client, backlog, toServer, budget, replies, wanted>>

\* What epoll_wait would report now.
Ready == (IF backlog THEN {"sock"} ELSE {}) \cup (IF pipe THEN {"pipe"} ELSE {})

\* The first half of accept(): both may be ready, in either order.
epoll_wait ==
  /\ Ready # {}
  /\ events' \in SetToSeqs(Ready)
  /\ UNCHANGED <<sockfd, clientfd, pipe, client, backlog, toServer, budget, replies, wanted>>

\* Its loop over the events.  A descriptor that is no longer the listening socket
\* is taken for the pipe, also when finish() has just zeroed sockfd.
HandleEvent ==
  /\ events # <<>>
  /\ events' = Tail(events)
  /\ IF Head(events) = "sock" /\ sockfd
       THEN clientfd' = TRUE /\ backlog' = FALSE /\ UNCHANGED sockfd
       ELSE finish /\ UNCHANGED backlog
  /\ UNCHANGED <<pipe, client, toServer, budget, replies, wanted>>

\* read() of one letter c.  At the end of the stream it returns 0 and leaves c as
\* it was, uninitialised: any letter.
ReadCommand(c) ==
  /\ clientfd
  /\ \/ toServer # <<>> /\ c = Head(toServer) /\ toServer' = Tail(toServer)
     \/ toServer = <<>> /\ client = "closed" /\ c \in Commands /\ UNCHANGED toServer
  /\ UNCHANGED <<sockfd, clientfd, pipe, events, client, backlog, budget, replies, wanted>>

\* read() fails once the connection has been reset: a message, and back.
ReadFails ==
  /\ clientfd /\ toServer = <<>> /\ client = "closed"
  /\ UNCHANGED serverVars

\* write() of one bit; lost if the client has gone.
WriteReply(bit) ==
  /\ replies' = IF client = "closed" THEN replies ELSE Append(replies, bit)
  /\ UNCHANGED <<sockfd, clientfd, pipe, events, client, backlog, toServer, budget, wanted>>

--------------------------------------------------------------------------------
(* The client: it connects when the socket listens, sends, and may close.       *)

Connect ==
  /\ client = "away" /\ sockfd
  /\ client' = "connected" /\ backlog' = TRUE
  /\ UNCHANGED <<sockfd, clientfd, pipe, events, toServer, budget, replies, wanted>>

\* tdo is what the client's earlier commands imply.
Send(c, tdo) ==
  /\ client = "connected" /\ sockfd /\ budget > 0
  /\ toServer' = Append(toServer, c)
  /\ budget' = budget - 1
  /\ wanted' = IF c.do = "tdo" THEN Append(wanted, tdo) ELSE wanted
  /\ UNCHANGED <<sockfd, clientfd, pipe, events, client, backlog, replies>>

Close ==
  /\ client = "connected"
  /\ client' = "closed"
  /\ UNCHANGED <<sockfd, clientfd, pipe, events, backlog, toServer, budget, replies, wanted>>
================================================================================
