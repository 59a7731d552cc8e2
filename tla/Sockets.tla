-------------------------------- MODULE Sockets --------------------------------
(***************************************************************************)
(* The command server of ex5/sockets.cpp and its clients.  The server      *)
(* handles one connection at a time: accept, read until the client closes  *)
(* or the buffer is full, system, close.  A client connects, writes its    *)
(* command and closes; it may end before it has done so.                   *)
(*                                                                         *)
(* A command is the number of its bytes.  What arrives is read in pieces.  *)
(* The sockets themselves are the operating system's.                      *)
(***************************************************************************)
EXTENDS Naturals, Sequences, SequencesExt

CONSTANTS
    Clients,     \* the client processes
    Lengths,     \* the lengths of the commands
    Listener,    \* the listening socket's descriptor, the first one free
    MAX_CLIENTS, \* the length of listen's queue, and the last descriptor for select
    MAX_BUFFER,  \* the size of the server's buffer
    MaxBehind    \* bound: bytes in memory between the buffer and the first zero

ASSUME ClientsAssumption == Clients # {}
ASSUME LengthsAssumption == Lengths \subseteq Nat \ {0}
ASSUME LimitsAssumption == MAX_CLIENTS \in Nat \ {0} /\ MAX_BUFFER \in Nat \ {0}
ASSUME MaxBehindAssumption == MaxBehind \in Nat
ASSUME ListenerAssumption == Listener \in Nat

VARIABLES
    client,     \* where each client is in run_client
    sent,       \* how many bytes each client has written
    received,   \* how many of them the server has read
    backlog,    \* connections that wait to be accepted
    server,     \* where the server is in its loop
    peer,       \* the client whose connection the server handles
    open,       \* the server's open descriptors
    connected,  \* the server's vector of accepted descriptors
    watched,    \* the descriptors given to select (clients)
    executed    \* history: the commands given to system

client_vars == <<client, sent>>
fd_vars == <<open, connected, watched>>
vars == <<client, sent, received, backlog, server, peer, open, connected, watched, executed>>

\* The descriptors below the listening socket's are in use.
NewDescriptor == Min((Listener .. Listener + Cardinality(open)) \ open)

Init ==
    /\ client = [c \in Clients |-> "start"]
    /\ sent = [c \in Clients |-> 0]
    /\ received = [c \in Clients |-> 0]
    /\ backlog = <<>>
    /\ server = "select"
    /\ peer = CHOOSE c \in Clients : TRUE
    /\ open = {Listener}
    /\ connected = <<>>
    /\ watched = {Listener}
    /\ executed = <<>>

-----------------------------------------------------------------------------
(* The client.                                                             *)

ClientGoto(c, from, to) == client[c] = from /\ client' = [client EXCEPT ![c] = to]

\* get_socket_client.
Connect(c) ==
    /\ ClientGoto(c, "start", "write")
    /\ server # "stopped"
    /\ Len(backlog) <= MAX_CLIENTS
    /\ backlog' = Append(backlog, c)
    /\ UNCHANGED <<sent, received, server, peer, fd_vars, executed>>

\* get_socket_client: nobody listens, or the queue stays full.
ConnectFails(c) ==
    /\ server = "stopped" \/ Len(backlog) > MAX_CLIENTS
    /\ ClientGoto(c, "start", "ended")
    /\ UNCHANGED <<sent, received, backlog, server, peer, fd_vars, executed>>

\* run_client: write.
Write(c) ==
    /\ ClientGoto(c, "write", "close")
    /\ \E length \in Lengths : sent' = [sent EXCEPT ![c] = length]
    /\ UNCHANGED <<received, backlog, server, peer, fd_vars, executed>>

\* run_client: close; after a write that fails, or at the client's own end
\* before its write, nothing was sent.
ClientCloses(c) ==
    /\ client[c] \in {"write", "close"}
    /\ ClientGoto(c, client[c], "ended")
    /\ UNCHANGED <<sent, received, backlog, server, peer, fd_vars, executed>>

-----------------------------------------------------------------------------
(* The server.                                                             *)

Goto(from, to) == server = from /\ server' = to

\* select looks at descriptors up to MAX_CLIENTS, and waits for a connection.
ListenerReady == Listener \in watched /\ Listener <= MAX_CLIENTS /\ backlog # <<>>

\* Seeded fault: the new descriptor is not recorded.
AcceptUnrecorded ==
    /\ Goto("select", "read")
    /\ ListenerReady
    /\ peer' = Head(backlog)
    /\ backlog' = Tail(backlog)
    /\ open' = open \union {NewDescriptor}
    /\ UNCHANGED <<client_vars, received, connected, watched, executed>>

\* accept and connect_to_client.
Accept ==
    /\ Goto("select", "read")
    /\ ListenerReady
    /\ peer' = Head(backlog)
    /\ backlog' = Tail(backlog)
    /\ open' = open \union {NewDescriptor}
    /\ connected' = Append(connected, NewDescriptor)
    /\ watched' = watched \union {NewDescriptor}
    /\ UNCHANGED <<client_vars, received, executed>>

Arrived == sent[peer] - received[peer]
AtEnd == client[peer] = "ended" /\ Arrived = 0
BufferFull == received[peer] = MAX_BUFFER

\* Seeded fault: every read may fill the whole buffer.
ReadOverrun ==
    /\ server = "read"
    /\ ~BufferFull
    /\ \E n \in 1 .. Arrived :
          /\ n <= MAX_BUFFER
          /\ received' = [received EXCEPT ![peer] = @ + n]
    /\ UNCHANGED <<client_vars, backlog, server, peer, fd_vars, executed>>

\* Seeded fault: the first piece is taken for the command.
ReadOnce ==
    /\ Goto("read", "execute")
    /\ \E n \in 0 .. Arrived : received' = [received EXCEPT ![peer] = n]
    /\ received'[peer] <= MAX_BUFFER
    /\ received'[peer] > 0 \/ AtEnd
    /\ UNCHANGED <<client_vars, backlog, peer, fd_vars, executed>>

\* read_from_socket: a read that returns some of what has arrived.
Read ==
    /\ server = "read"
    /\ \E n \in 1 .. Arrived :
          /\ received[peer] + n <= MAX_BUFFER
          /\ received' = [received EXCEPT ![peer] = @ + n]
    /\ UNCHANGED <<client_vars, backlog, server, peer, fd_vars, executed>>

\* Seeded fault: the end of the stream does not end the loop.
ReadEndsFull ==
    /\ Goto("read", "execute")
    /\ BufferFull
    /\ UNCHANGED <<client_vars, received, backlog, peer, fd_vars, executed>>

\* read_from_socket: the buffer is full, or a read finds the end.
ReadEnds ==
    /\ Goto("read", "execute")
    /\ BufferFull \/ AtEnd
    /\ UNCHANGED <<client_vars, received, backlog, peer, fd_vars, executed>>

\* Seeded fault: a command may be run again.
ExecuteAgain ==
    /\ server = "execute" /\ server' \in {"execute", "close"}
    /\ executed' = Append(executed, [client |-> peer, length |-> received[peer], behind |-> 0])
    /\ UNCHANGED <<client_vars, received, backlog, peer, fd_vars>>

\* handle_request: system, which runs what it finds up to a zero.  A full
\* buffer holds none, and the command goes on with what lies behind it.
Execute ==
    /\ Goto("execute", "close")
    /\ \E n \in IF BufferFull THEN 0 .. MaxBehind ELSE {0} :
          executed' = Append(executed,
                             [client |-> peer, length |-> received[peer], behind |-> n])
    /\ UNCHANGED <<client_vars, received, backlog, peer, fd_vars>>

\* The end of run_server's loop.  A descriptor is in connected once.
CloseClient ==
    /\ Goto("close", "select")
    /\ LET fd == Last(connected)
       IN  /\ watched' = watched \ {fd}
           /\ connected' = RemoveFirst(connected, fd)
           /\ open' = open \ {fd}
    /\ UNCHANGED <<client_vars, received, backlog, peer, executed>>

\* select, accept or read fails: close_files and error_handler.  The
\* connections that wait are reset.
ServerFails ==
    /\ server \in {"select", "read"}
    /\ server' = "stopped"
    /\ open' = open \ (ToSet(connected) \union {Listener})
    /\ UNCHANGED <<client_vars, received, backlog, peer, connected, watched, executed>>

ClientStep(c) == Connect(c) \/ ConnectFails(c) \/ Write(c) \/ ClientCloses(c)
ServerStep == Accept \/ Read \/ ReadEnds \/ Execute \/ CloseClient

Next ==
    \/ \E c \in Clients : ClientStep(c)
    \/ ServerStep
    \/ ServerFails

Spec == Init /\ [][Next]_vars

\* The operating system runs every process: the server goes on when it can,
\* a client ends in the end, and so does every command that system runs.
FairSpec ==
    /\ Spec
    /\ WF_vars(ServerStep)
    /\ \A c \in Clients : WF_vars(ClientStep(c))

-----------------------------------------------------------------------------
(* Properties.                                                             *)

\* Every variable has its type.
TypeOK ==
    /\ client \in [Clients -> {"start", "write", "close", "ended"}]
    /\ sent \in [Clients -> {0} \union Lengths]
    /\ received \in [Clients -> 0 .. MAX_BUFFER]
    /\ backlog \in Seq(Clients)
    /\ server \in {"select", "read", "execute", "close", "stopped"}
    /\ peer \in Clients
    /\ open \subseteq Nat
    /\ connected \in Seq(Nat)
    /\ watched \subseteq Nat
    /\ executed \in Seq([client : Clients, length : 0 .. MAX_BUFFER, behind : 0 .. MaxBehind])

\* In however many pieces a command arrives and whenever its client ends, system
\* runs all of it and nothing else if it is shorter than the buffer, so that
\* there is room for the zero (212, 216); of a longer one, no more than begins
\* to fill the buffer is missing.
CommandsWhole ==
    \A i \in DOMAIN executed :
        LET e == executed[i]
        IN  /\ e.length = Min({sent[e.client], MAX_BUFFER})
            /\ sent[e.client] < MAX_BUFFER => e.behind = 0

\* Between two connections only the listening socket is open and watched,
\* and after an error nothing is: no descriptor is lost on any way out.
NoDescriptorLost ==
    /\ server = "select" => open = {Listener} /\ watched = {Listener} /\ connected = <<>>
    /\ server = "stopped" => open = {}

\* Every connection is served, unless the server stops: a client that ends
\* without a command, or sends more than the buffer holds, does not hold up
\* the others.
EveryClientServed ==
    \A c \in Clients :
        client[c] = "write" ~>
            (server = "stopped" \/ \E i \in DOMAIN executed : executed[i].client = c)

\* The server runs one command for each connection, in the order of the
\* connections, when its client has sent what it will send: it implements
\* CommandServer.
Connections == INSTANCE CommandServer WITH
    connected <- CASE server \in {"read", "execute"} -> <<peer>> \o backlog
                   [] server \in {"select", "close"} -> backlog
                   [] server = "stopped" -> <<>>,
    running <- server # "stopped",
    served <- [i \in DOMAIN executed |-> executed[i].client]
ServerSpec == Connections!Spec
=============================================================================
