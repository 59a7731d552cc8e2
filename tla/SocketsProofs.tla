----------------------------- MODULE SocketsProofs -----------------------------
(***************************************************************************)
(* Proofs about the command server, for any number of clients, commands of *)
(* any length and any size of the buffer.                                  *)
(***************************************************************************)
EXTENDS Sockets, DataLemmas, FiniteSetTheorems

-----------------------------------------------------------------------------
(* The inductive invariant.                                                *)

\* The server has accepted a connection and not yet closed it.
Serving == server \in {"read", "execute", "close"}

\* The connection that the server handles has the descriptor after the
\* listening socket's, and there is no other.
DescriptorInv ==
    /\ server = "select" => open = {Listener} /\ watched = {Listener} /\ connected = <<>>
    /\ Serving => /\ open = {Listener, Listener + 1}
                  /\ watched = {Listener, Listener + 1}
                  /\ connected = <<Listener + 1>>
    /\ server = "stopped" => open = {}

\* The clients whose command has been given to system.
Executed == {executed[i].client : i \in DOMAIN executed}

\* The client whose command is being read or is about to be executed.
Handled == IF server \in {"read", "execute"} THEN {peer} ELSE {}

\* A client waits once, is then handled and then has been executed; before
\* it has connected it is none of these.
PlaceInv ==
    /\ NoDuplicates(backlog)
    /\ Handled \cap ToSet(backlog) = {}
    /\ Executed \cap (Handled \union ToSet(backlog)) = {}
    /\ \A c \in Clients :
          /\ client[c] = "start" => c \notin Handled \union ToSet(backlog) \union Executed
          /\ client[c] = "write" /\ server # "stopped" =>
                c \in Handled \union ToSet(backlog)

\* Only what was sent is received, and only by a client's turn; once its
\* command is executed a client sends no more.
BytesInv ==
    \A c \in Clients :
        /\ received[c] <= sent[c]
        /\ client[c] \in {"start", "write"} => sent[c] = 0
        /\ c \in ToSet(backlog) => received[c] = 0
        /\ client[c] = "start" => received[c] = 0
        /\ server = "execute" /\ c = peer =>
              /\ client[c] \in {"close", "ended"}
              /\ received[c] = sent[c] \/ (received[c] = MAX_BUFFER /\ sent[c] >= MAX_BUFFER)

\* The commands that were executed are those that were sent.
CommandInv ==
    \A i \in DOMAIN executed :
        LET e == executed[i]
        IN  /\ client[e.client] \in {"close", "ended"}
            /\ e.length = sent[e.client] \/ (e.length = MAX_BUFFER /\ sent[e.client] >= MAX_BUFFER)
            /\ sent[e.client] < MAX_BUFFER => e.behind = 0

\* The inductive invariant.
ServerInv == TypeOK /\ DescriptorInv /\ PlaceInv /\ BytesInv /\ CommandInv

-----------------------------------------------------------------------------
(* Facts about descriptors and sequences.                                  *)

\* The only descriptor to choose while the listening socket alone is open.
LEMMA FirstDescriptor ==
    ASSUME open = {Listener}
    PROVE  NewDescriptor = Listener + 1
<1>1. Cardinality(open) = 1
  BY FS_Singleton
<1>2. (Listener .. Listener + 1) \ open = {Listener + 1}
  BY ListenerAssumption
<1>3. Min({Listener + 1}) = Listener + 1
  <2>1. \E x \in {Listener + 1} : \A y \in {Listener + 1} : x <= y
    BY ListenerAssumption
  <2> QED
    BY <2>1 DEF Min
<1> QED
  BY <1>1, <1>2, <1>3 DEF NewDescriptor

\* A vector of one element is empty without it.
LEMMA RemoveOnly ==
    ASSUME NEW x
    PROVE  Last(<<x>>) = x /\ RemoveFirst(<<x>>, x) = <<>>
<1> DEFINE s == <<x>>
           found == {i \in 1 .. Len(s) : s[i] = x}
<1>1. Len(s) = 1 /\ s[1] = x
  OBVIOUS
<1>2. found = {1}
  BY <1>1
<1>3. Min(found) = 1
  <2>1. \E y \in {1} : \A z \in {1} : y <= z
    OBVIOUS
  <2> QED
    BY <1>2, <2>1 DEF Min
<1>4. SelectInSeq(s, LAMBDA v : v = x) = 1
  BY <1>2, <1>3 DEF SelectInSeq
<1>5. RemoveFirst(s, x) = RemoveAt(s, 1)
  BY <1>1, <1>4 DEF RemoveFirst
<1>6. RemoveAt(s, 1) = <<>>
  BY <1>1 DEF RemoveAt
<1> QED
  BY <1>1, <1>5, <1>6 DEF Last

\* The numbers of bytes, and the descriptors.
LEMMA Numbers ==
    TypeOK => /\ MAX_BUFFER \in Nat \ {0}
              /\ \A c \in Clients : /\ sent[c] \in Nat
                                    /\ received[c] \in Nat
                                    /\ received[c] <= MAX_BUFFER
<1> SUFFICES ASSUME TypeOK, NEW c \in Clients
             PROVE  /\ sent[c] \in Nat
                    /\ received[c] \in Nat
                    /\ received[c] <= MAX_BUFFER
  BY LimitsAssumption
<1>1. sent[c] \in {0} \union Lengths
  BY DEF TypeOK
<1>2. sent[c] \in Nat
  <2>1. \A length \in Lengths : length \in Nat
    BY LengthsAssumption
  <2> QED
    BY <1>1, <2>1
<1>3. received[c] \in 0 .. MAX_BUFFER
  BY DEF TypeOK
<1> QED
  BY <1>2, <1>3, LimitsAssumption

\* One more element.
LEMMA AppendedClients ==
    ASSUME NEW S, NEW q \in Seq(S), NEW e \in S
    PROVE  /\ Append(q, e) \in Seq(S)
           /\ DOMAIN Append(q, e) = DOMAIN q \union {Len(q) + 1}
           /\ Append(q, e)[Len(q) + 1] = e
           /\ \A i \in DOMAIN q : Append(q, e)[i] = q[i] /\ i # Len(q) + 1
OBVIOUS

\* An element before a sequence.
LEMMA ElementBefore ==
    ASSUME NEW S, NEW q \in Seq(S), NEW e \in S
    PROVE  /\ <<e>> \o q \in Seq(S)
           /\ ToSet(<<e>> \o q) = {e} \union ToSet(q)
<1> DEFINE r == <<e>> \o q
<1>1. /\ r \in Seq(S) /\ Len(r) = Len(q) + 1 /\ Len(q) \in Nat
      /\ DOMAIN r = 1 .. Len(q) + 1 /\ DOMAIN q = 1 .. Len(q)
      /\ r[1] = e /\ \A i \in 1 .. Len(q) : r[i + 1] = q[i]
  OBVIOUS
<1>2. ToSet(r) = {e} \union ToSet(q)
  <2>1. ASSUME NEW i \in DOMAIN r PROVE r[i] \in {e} \union ToSet(q)
    <3>1. CASE i = 1
      BY <3>1, <1>1
    <3>2. CASE i # 1
      <4>1. i - 1 \in DOMAIN q /\ r[(i - 1) + 1] = q[i - 1] /\ (i - 1) + 1 = i
        BY <3>2, <1>1
      <4> QED
        BY <4>1 DEF ToSet
    <3> QED
      BY <3>1, <3>2
  <2>2. e \in ToSet(r)
    BY <1>1 DEF ToSet
  <2>3. ASSUME NEW i \in DOMAIN q PROVE q[i] \in ToSet(r)
    BY <1>1, i + 1 \in DOMAIN r DEF ToSet
  <2> QED
    BY <2>1, <2>2, <2>3 DEF ToSet
<1> QED
  BY <1>1, <1>2

\* The parts of such a sequence.
LEMMA ConcatOne ==
    ASSUME NEW S, NEW q \in Seq(S), NEW e \in S
    PROVE  /\ <<e>> \o q \in Seq(S)
           /\ ToSet(<<e>> \o q) = {e} \union ToSet(q)
           /\ <<e>> \o q # <<>> /\ Head(<<e>> \o q) = e /\ Tail(<<e>> \o q) = q
           /\ \A f \in S : Append(<<e>> \o q, f) = <<e>> \o Append(q, f)
           /\ q # <<>> => <<Head(q)>> \o Tail(q) = q
<1> DEFINE r == <<e>> \o q
<1>1. /\ r \in Seq(S) /\ Len(r) = Len(q) + 1 /\ Len(q) \in Nat
      /\ DOMAIN r = 1 .. Len(q) + 1 /\ DOMAIN q = 1 .. Len(q)
      /\ r[1] = e /\ \A i \in 1 .. Len(q) : r[i + 1] = q[i]
  OBVIOUS
<1>2. ToSet(r) = {e} \union ToSet(q)
  BY ElementBefore
<1>3. r # <<>> /\ Head(r) = e
  BY <1>1
<1>4. Tail(r) = q
  BY <1>1, <1>3, SeqEqual
<1>5. ASSUME NEW f \in S PROVE Append(r, f) = <<e>> \o Append(q, f)
  OBVIOUS
<1>6. q # <<>> => <<Head(q)>> \o Tail(q) = q
  OBVIOUS
<1> QED
  BY <1>1, <1>2, <1>3, <1>4, <1>5, <1>6

\* The entries of a sequence.
LEMMA EntryOf ==
    ASSUME NEW S, NEW q \in Seq(S), NEW i \in DOMAIN q
    PROVE  q[i] \in S
OBVIOUS

\* A step of a client keeps what was executed: it is not that client's
\* command, or the client has sent it and only closes.
LEMMA CommandsKept ==
    ASSUME TypeOK, CommandInv, NEW c \in Clients, executed' = executed,
           \A d \in Clients \ {c} : client'[d] = client[d] /\ sent'[d] = sent[d],
           client[c] \in {"start", "write"} \/ (client'[c] = "ended" /\ sent'[c] = sent[c])
    PROVE  CommandInv'
<1> SUFFICES ASSUME NEW i \in DOMAIN executed
             PROVE  LET e == executed[i]
                    IN  /\ client'[e.client] \in {"close", "ended"}
                        /\ \/ e.length = sent'[e.client]
                           \/ e.length = MAX_BUFFER /\ sent'[e.client] >= MAX_BUFFER
                        /\ sent'[e.client] < MAX_BUFFER => e.behind = 0
  BY DEF CommandInv
<1> DEFINE e == executed[i]
<1>1. e \in [client : Clients, length : 0 .. MAX_BUFFER, behind : 0 .. MaxBehind]
  BY EntryOf DEF TypeOK
<1>2. e.client \in Clients
  BY <1>1
<1>3. /\ client[e.client] \in {"close", "ended"}
      /\ e.length = sent[e.client] \/ (e.length = MAX_BUFFER /\ sent[e.client] >= MAX_BUFFER)
      /\ sent[e.client] < MAX_BUFFER => e.behind = 0
  BY DEF CommandInv
<1> HIDE DEF e
<1>4. client'[e.client] \in {"close", "ended"} /\ sent'[e.client] = sent[e.client]
  BY <1>2, <1>3
<1>5. /\ client'[e.client] \in {"close", "ended"}
      /\ e.length = sent'[e.client] \/ (e.length = MAX_BUFFER /\ sent'[e.client] >= MAX_BUFFER)
      /\ sent'[e.client] < MAX_BUFFER => e.behind = 0
  BY <1>3, <1>4
<1> QED
  BY <1>5 DEF e

-----------------------------------------------------------------------------
(* The invariant holds initially, and every action preserves it.           *)

\* Before any client has connected.
LEMMA ServerInit == Init => ServerInv
<1> SUFFICES ASSUME Init PROVE ServerInv
  OBVIOUS
<1>1. ToSet(backlog) = {} /\ Executed = {} /\ Handled = {}
  BY DEF Init, ToSet, Executed, Handled
<1>2. TypeOK
  BY ClientsAssumption, ListenerAssumption, LimitsAssumption DEF Init, TypeOK
<1>3. DescriptorInv
  BY DEF Init, DescriptorInv, Serving
<1>4. PlaceInv
  BY <1>1 DEF Init, PlaceInv, NoDuplicates
<1>5. BytesInv
  BY DEF Init, BytesInv
<1>6. CommandInv
  BY DEF Init, CommandInv
<1> QED
  BY <1>2, <1>3, <1>4, <1>5, <1>6 DEF ServerInv

\* A client that connects goes to the end of the backlog and to no other
\* place.
LEMMA ConnectPreserves ==
    ASSUME ServerInv, NEW c \in Clients, Connect(c)
    PROVE  ServerInv'
<1> USE DEF ServerInv, Connect, ClientGoto, fd_vars
<1>1. c \notin ToSet(backlog)
  BY DEF PlaceInv
<1>2. /\ backlog' \in Seq(Clients) /\ NoDuplicates(backlog')
      /\ ToSet(backlog') = ToSet(backlog) \union {c}
  BY <1>1, AppendNoDuplicates DEF PlaceInv, TypeOK
<1>3. Executed' = Executed /\ Handled' = Handled
  BY DEF Executed, Handled
<1>4. TypeOK'
  BY <1>2 DEF TypeOK
<1>5. DescriptorInv'
  BY DEF DescriptorInv, Serving
<1>6. PlaceInv'
  BY <1>2, <1>3 DEF PlaceInv, TypeOK
<1>7. BytesInv'
  BY <1>2 DEF BytesInv, TypeOK
<1>8. CommandInv'
  <2>1. /\ executed' = executed
        /\ \A d \in Clients \ {c} : client'[d] = client[d] /\ sent'[d] = sent[d]
        /\ client[c] \in {"start", "write"} \/ (client'[c] = "ended" /\ sent'[c] = sent[c])
    BY DEF TypeOK
  <2> QED
    BY <2>1, CommandsKept
<1> QED
  BY <1>4, <1>5, <1>6, <1>7, <1>8

\* A client that is refused was nowhere.
LEMMA ConnectFailsPreserves ==
    ASSUME ServerInv, NEW c \in Clients, ConnectFails(c)
    PROVE  ServerInv'
<1> USE DEF ServerInv, ConnectFails, ClientGoto, fd_vars
<1>1. Executed' = Executed /\ Handled' = Handled
  BY DEF Executed, Handled
<1>2. TypeOK'
  BY DEF TypeOK
<1>3. DescriptorInv'
  BY DEF DescriptorInv, Serving
<1>4. PlaceInv'
  BY <1>1 DEF PlaceInv, TypeOK
<1>5. BytesInv'
  BY DEF BytesInv, TypeOK
<1>6. CommandInv'
  <2>1. /\ executed' = executed
        /\ \A d \in Clients \ {c} : client'[d] = client[d] /\ sent'[d] = sent[d]
        /\ client[c] \in {"start", "write"} \/ (client'[c] = "ended" /\ sent'[c] = sent[c])
    BY DEF TypeOK
  <2> QED
    BY <2>1, CommandsKept
<1> QED
  BY <1>2, <1>3, <1>4, <1>5, <1>6

\* A client writes its command once, before any of it has been received.
LEMMA WritePreserves ==
    ASSUME ServerInv, NEW c \in Clients, Write(c)
    PROVE  ServerInv'
<1> USE DEF ServerInv, Write, ClientGoto, fd_vars
<1>1. Executed' = Executed /\ Handled' = Handled
  BY DEF Executed, Handled
<1>2. TypeOK'
  BY DEF TypeOK
<1>3. DescriptorInv'
  BY DEF DescriptorInv, Serving
<1>4. PlaceInv'
  BY <1>1 DEF PlaceInv, TypeOK
<1>5. BytesInv'
  BY LengthsAssumption DEF BytesInv, TypeOK
<1>6. CommandInv'
  <2>1. /\ executed' = executed
        /\ \A d \in Clients \ {c} : client'[d] = client[d] /\ sent'[d] = sent[d]
        /\ client[c] \in {"start", "write"} \/ (client'[c] = "ended" /\ sent'[c] = sent[c])
    BY DEF TypeOK
  <2> QED
    BY <2>1, CommandsKept
<1> QED
  BY <1>2, <1>3, <1>4, <1>5, <1>6

\* A client closes after it has sent all it will send.
LEMMA ClientClosesPreserves ==
    ASSUME ServerInv, NEW c \in Clients, ClientCloses(c)
    PROVE  ServerInv'
<1> USE DEF ServerInv, ClientCloses, ClientGoto, fd_vars
<1>1. Executed' = Executed /\ Handled' = Handled
  BY DEF Executed, Handled
<1>2. TypeOK'
  BY DEF TypeOK
<1>3. DescriptorInv'
  BY DEF DescriptorInv, Serving
<1>4. PlaceInv'
  BY <1>1 DEF PlaceInv, TypeOK
<1>5. BytesInv'
  BY DEF BytesInv, TypeOK
<1>6. CommandInv'
  <2>1. /\ executed' = executed
        /\ \A d \in Clients \ {c} : client'[d] = client[d] /\ sent'[d] = sent[d]
        /\ client[c] \in {"start", "write"} \/ (client'[c] = "ended" /\ sent'[c] = sent[c])
    BY DEF TypeOK
  <2> QED
    BY <2>1, CommandsKept
<1> QED
  BY <1>2, <1>3, <1>4, <1>5, <1>6

\* The first of the backlog becomes the client handled, with a new descriptor.
LEMMA AcceptPreserves ==
    ASSUME ServerInv, Accept
    PROVE  ServerInv'
<1> USE DEF ServerInv, Accept, ListenerReady, Goto, client_vars
<1>1. /\ peer' \in ToSet(backlog) /\ backlog' \in Seq(Clients)
      /\ NoDuplicates(backlog') /\ ToSet(backlog') = ToSet(backlog) \ {peer'}
  BY TailNoDuplicates DEF PlaceInv, TypeOK
<1>2. peer' \in Clients
  BY <1>1 DEF TypeOK, ToSet
<1>3. Executed' = Executed /\ Handled' = {peer'} /\ Handled = {}
  BY DEF Executed, Handled
<1>4. /\ open' = {Listener, Listener + 1} /\ watched' = {Listener, Listener + 1}
      /\ connected' = <<Listener + 1>>
  BY FirstDescriptor DEF DescriptorInv
<1>5. TypeOK'
  <2>1. Listener + 1 \in Nat
    BY ListenerAssumption
  <2>2. {Listener, Listener + 1} \subseteq Nat /\ <<Listener + 1>> \in Seq(Nat)
    BY <2>1, ListenerAssumption
  <2> QED
    BY <1>1, <1>2, <1>4, <2>2 DEF TypeOK
<1>6. DescriptorInv'
  BY <1>4 DEF DescriptorInv, Serving
<1>7. PlaceInv'
  BY <1>1, <1>2, <1>3 DEF PlaceInv
<1>8. BytesInv'
  BY <1>1 DEF BytesInv
<1>9. CommandInv'
  BY DEF CommandInv
<1> QED
  BY <1>5, <1>6, <1>7, <1>8, <1>9

\* What is read was sent, and fits what is left of the buffer.
LEMMA ReadPreserves ==
    ASSUME ServerInv, Read
    PROVE  ServerInv'
<1> USE DEF ServerInv, Read, client_vars, fd_vars
<1>1. Executed' = Executed /\ Handled' = Handled /\ Handled = {peer}
  BY DEF Executed, Handled
<1>2. PICK n \in 1 .. Arrived :
          received[peer] + n <= MAX_BUFFER /\ received' = [received EXCEPT ![peer] = @ + n]
  OBVIOUS
<1>3. /\ received[peer] \in Nat /\ sent[peer] \in Nat /\ n \in Nat \ {0}
      /\ received[peer] + n <= sent[peer]
  <2>1. received[peer] \in Nat /\ sent[peer] \in Nat
    BY Numbers DEF TypeOK
  <2>2. n \in Nat \ {0} /\ n <= sent[peer] - received[peer]
    BY <2>1 DEF Arrived
  <2> QED
    BY <2>1, <2>2
<1>4. TypeOK'
  BY <1>2, <1>3, LimitsAssumption DEF TypeOK
<1>5. DescriptorInv'
  BY DEF DescriptorInv, Serving
<1>6. PlaceInv'
  BY <1>1 DEF PlaceInv
<1>7. BytesInv'
  BY <1>1, <1>2, <1>3 DEF BytesInv, PlaceInv, TypeOK
<1>8. CommandInv'
  BY DEF CommandInv
<1> QED
  BY <1>4, <1>5, <1>6, <1>7, <1>8

\* Reading ends when the client has closed or the buffer is full.
LEMMA ReadEndsPreserves ==
    ASSUME ServerInv, ReadEnds
    PROVE  ServerInv'
<1> USE DEF ServerInv, ReadEnds, Goto, client_vars, fd_vars
<1>1. Executed' = Executed /\ Handled' = Handled /\ Handled = {peer}
  BY DEF Executed, Handled
<1>2. received[peer] \in Nat /\ sent[peer] \in Nat /\ received[peer] <= sent[peer]
  BY Numbers DEF TypeOK, BytesInv
<1>3. /\ client[peer] \in {"close", "ended"}
      /\ received[peer] = sent[peer] \/ (received[peer] = MAX_BUFFER /\ sent[peer] >= MAX_BUFFER)
  <2>1. CASE BufferFull
    BY <2>1, <1>1, <1>2, LimitsAssumption DEF BufferFull, BytesInv, PlaceInv, TypeOK
  <2>2. CASE AtEnd
    BY <2>2, <1>2 DEF AtEnd, Arrived
  <2> QED
    BY <2>1, <2>2
<1>4. TypeOK'
  BY DEF TypeOK
<1>5. DescriptorInv'
  BY DEF DescriptorInv, Serving
<1>6. PlaceInv'
  BY <1>1 DEF PlaceInv
<1>7. BytesInv'
  BY <1>3 DEF BytesInv
<1>8. CommandInv'
  BY DEF CommandInv
<1> QED
  BY <1>4, <1>5, <1>6, <1>7, <1>8

\* The command that is executed is the one received, which is the one sent.
LEMMA ExecutePreserves ==
    ASSUME ServerInv, Execute
    PROVE  ServerInv'
<1> USE DEF ServerInv, Execute, Goto, client_vars, fd_vars
<1> DEFINE Entries == [client : Clients, length : 0 .. MAX_BUFFER, behind : 0 .. MaxBehind]
<1>1. PICK n \in IF BufferFull THEN 0 .. MaxBehind ELSE {0} :
          executed' = Append(executed, [client |-> peer, length |-> received[peer], behind |-> n])
  OBVIOUS
<1> DEFINE new == [client |-> peer, length |-> received[peer], behind |-> n]
<1>2. new \in Entries /\ executed \in Seq(Entries)
  BY <1>1, MaxBehindAssumption DEF TypeOK
<1>3. /\ executed' \in Seq(Entries)
      /\ DOMAIN executed' = DOMAIN executed \union {Len(executed) + 1}
      /\ executed'[Len(executed) + 1] = new
      /\ \A i \in DOMAIN executed : executed'[i] = executed[i]
  BY <1>1, <1>2, AppendedClients
<1>4. Executed' = Executed \union {peer}
  BY <1>3 DEF Executed
<1>5. Handled' = {} /\ Handled = {peer}
  BY DEF Handled
<1>6. TypeOK'
  BY <1>3 DEF TypeOK
<1>7. DescriptorInv'
  BY DEF DescriptorInv, Serving
<1>8. /\ client[peer] \in {"close", "ended"}
      /\ received[peer] = sent[peer] \/ (received[peer] = MAX_BUFFER /\ sent[peer] >= MAX_BUFFER)
  BY DEF BytesInv, TypeOK
<1>9. PlaceInv'
  BY <1>4, <1>5, <1>8 DEF PlaceInv, TypeOK
<1>10. BytesInv'
  BY DEF BytesInv
<1>11. sent[peer] < MAX_BUFFER => n = 0
  BY <1>1, <1>8, Numbers DEF BufferFull, TypeOK
<1>12. CommandInv'
  BY <1>3, <1>8, <1>11 DEF CommandInv
<1> QED
  BY <1>6, <1>7, <1>9, <1>10, <1>12

\* The connection's descriptor is closed and leaves both sets.
LEMMA CloseClientPreserves ==
    ASSUME ServerInv, CloseClient
    PROVE  ServerInv'
<1> USE DEF ServerInv, CloseClient, Goto, client_vars
<1>1. Executed' = Executed /\ Handled' = {} /\ Handled = {}
  BY DEF Executed, Handled
<1>2. /\ open = {Listener, Listener + 1} /\ watched = {Listener, Listener + 1}
      /\ connected = <<Listener + 1>>
  BY DEF DescriptorInv, Serving
<1>3. open' = {Listener} /\ watched' = {Listener} /\ connected' = <<>>
  BY <1>2, RemoveOnly, ListenerAssumption
<1>4. TypeOK'
  BY <1>3, ListenerAssumption DEF TypeOK
<1>5. DescriptorInv'
  BY <1>3 DEF DescriptorInv, Serving
<1>6. PlaceInv'
  BY <1>1 DEF PlaceInv
<1>7. BytesInv'
  BY DEF BytesInv
<1>8. CommandInv'
  BY DEF CommandInv
<1> QED
  BY <1>4, <1>5, <1>6, <1>7, <1>8

\* A server that exits closes every descriptor.
LEMMA ServerFailsPreserves ==
    ASSUME ServerInv, ServerFails
    PROVE  ServerInv'
<1> USE DEF ServerInv, ServerFails, client_vars
<1>1. Executed' = Executed /\ Handled' = {}
  BY DEF Executed, Handled
<1>2. open' = {}
  BY DEF DescriptorInv, Serving, ToSet
<1>3. TypeOK'
  BY <1>2 DEF TypeOK
<1>4. DescriptorInv'
  BY <1>2 DEF DescriptorInv, Serving
<1>5. PlaceInv'
  BY <1>1 DEF PlaceInv
<1>6. BytesInv'
  BY DEF BytesInv
<1>7. CommandInv'
  BY DEF CommandInv
<1> QED
  BY <1>3, <1>4, <1>5, <1>6, <1>7

\* A step that changes nothing.
LEMMA ServerStutters ==
    ASSUME ServerInv, UNCHANGED vars
    PROVE  ServerInv'
BY DEF ServerInv, TypeOK, DescriptorInv, Serving, PlaceInv, Handled, Executed, BytesInv,
   CommandInv, vars

\* Every step preserves the invariant.
LEMMA ServerNext == ServerInv /\ [Next]_vars => ServerInv'
BY ServerStutters, ConnectPreserves, ConnectFailsPreserves, WritePreserves,
   ClientClosesPreserves, AcceptPreserves, ReadPreserves, ReadEndsPreserves, ExecutePreserves,
   CloseClientPreserves, ServerFailsPreserves DEF Next, ClientStep, ServerStep

\* The invariant holds throughout.
LEMMA ServerInvHolds == Spec => []ServerInv
BY ServerInit, ServerNext, PTL DEF Spec

-----------------------------------------------------------------------------
(* The properties.                                                         *)

\* The variables have their types: no read goes beyond the buffer (208).
THEOREM TypesCorrect == Spec => []TypeOK
BY ServerInvHolds, PTL DEF ServerInv

\* Between two connections only the listening socket is open, and after an
\* error nothing is, whatever the clients did (226, 262).
THEOREM NoDescriptorLostHolds == Spec => []NoDescriptorLost
<1>1. ServerInv => NoDescriptorLost
  BY DEF ServerInv, DescriptorInv, NoDescriptorLost
<1> QED
  BY <1>1, ServerInvHolds, PTL

\* A command shorter than the buffer is executed whole and alone, and a
\* longer one from its beginning on, in however many pieces it came (208, 216).
THEOREM CommandsWholeHolds == Spec => []CommandsWhole
<1>1. ASSUME NEW x \in Nat, NEW y \in Nat, y = x \/ (y = MAX_BUFFER /\ x >= MAX_BUFFER),
             y <= MAX_BUFFER
      PROVE  y = Min({x, MAX_BUFFER})
  <2>1. y \in {x, MAX_BUFFER} /\ \A z \in {x, MAX_BUFFER} : y <= z
    BY <1>1, LimitsAssumption
  <2>2. \A w \in {x, MAX_BUFFER} : (\A z \in {x, MAX_BUFFER} : w <= z) => w = y
    BY <2>1, LimitsAssumption
  <2> QED
    BY <2>1, <2>2 DEF Min
<1>2. ASSUME ServerInv, NEW i \in DOMAIN executed
      PROVE  LET e == executed[i]
             IN  /\ e.length = Min({sent[e.client], MAX_BUFFER})
                 /\ sent[e.client] < MAX_BUFFER => e.behind = 0
  <2>1. executed[i] \in [client : Clients, length : 0 .. MAX_BUFFER, behind : 0 .. MaxBehind]
    BY <1>2, EntryOf DEF ServerInv, TypeOK
  <2>2. /\ sent[executed[i].client] \in Nat
        /\ executed[i].length \in Nat /\ executed[i].length <= MAX_BUFFER
    BY <1>2, <2>1, Numbers DEF ServerInv
  <2> QED
    BY <1>1, <1>2, <2>2 DEF ServerInv, CommandInv
<1>3. ServerInv => CommandsWhole
  BY <1>2 DEF CommandsWhole
<1> QED
  BY <1>3, ServerInvHolds, PTL

-----------------------------------------------------------------------------
(* The server implements CommandServer.                                    *)

\* The values that the refinement gives to the abstract variables.
Waiting == CASE server \in {"read", "execute"} -> <<peer>> \o backlog
             [] server \in {"select", "close"} -> backlog
             [] server = "stopped" -> <<>>
Served == [i \in DOMAIN executed |-> executed[i].client]

\* What they are in each state.
LEMMA Mapping ==
    ASSUME ServerInv
    PROVE  /\ server \in {"read", "execute"} => Waiting = <<peer>> \o backlog
           /\ server \in {"select", "close"} => Waiting = backlog
           /\ server = "stopped" => Waiting = <<>>
           /\ Waiting \in Seq(Clients)
           /\ ToSet(Served) = Executed
           /\ server # "stopped" => ToSet(Waiting) = Handled \union ToSet(backlog)
           /\ server = "stopped" => ToSet(Waiting) = {}
<1>1. /\ server \in {"read", "execute", "select", "close", "stopped"}
      /\ backlog \in Seq(Clients) /\ peer \in Clients
  BY DEF ServerInv, TypeOK
<1>2. CASE server \in {"read", "execute"}
  <2>1. Waiting = <<peer>> \o backlog
    BY <1>2 DEF Waiting
  <2>2. <<peer>> \o backlog \in Seq(Clients)
        /\ ToSet(<<peer>> \o backlog) = {peer} \union ToSet(backlog)
    BY ONLY <1>1, ElementBefore
  <2>3. Handled = {peer} /\ ToSet(Served) = Executed
    BY <1>2 DEF Handled, ToSet, Executed, Served
  <2> QED
    BY <1>2, <2>1, <2>2, <2>3
<1>3. CASE server \in {"select", "close"}
  BY <1>1, <1>3 DEF Waiting, Handled, ToSet, Executed, Served
<1>4. CASE server = "stopped"
  BY <1>4 DEF Waiting, Handled, ToSet, Executed, Served
<1> QED
  BY <1>1, <1>2, <1>3, <1>4

\* One more command served.
LEMMA AppendedServed ==
    ASSUME NEW S, executed \in Seq(S), NEW e \in S, executed' = Append(executed, e)
    PROVE  Served' = Append(Served, e.client)
<1>1. /\ DOMAIN executed = 1 .. Len(executed) /\ Len(executed) \in Nat
      /\ DOMAIN executed' = 1 .. Len(executed) + 1
      /\ \A i \in 1 .. Len(executed) : executed'[i] = executed[i]
      /\ executed'[Len(executed) + 1] = e
  OBVIOUS
<1>2. Served = [i \in 1 .. Len(executed) |-> executed[i].client] /\ Len(Served) = Len(executed)
  BY <1>1 DEF Served
<1>3. Served' = [i \in 1 .. Len(executed) + 1 |-> executed'[i].client]
  BY <1>1 DEF Served
<1> QED
  BY <1>1, <1>2, <1>3

\* A client that connects joins the queue; its other steps but the write
\* are not seen.
LEMMA ClientImplements ==
    ASSUME ServerInv, ServerInv', NEW c \in Clients, ClientStep(c)
    PROVE  Connections!Next \/ UNCHANGED Connections!vars
<1>1. UNCHANGED <<server, peer, executed>>
  BY DEF ClientStep, Connect, ConnectFails, Write, ClientCloses
<1>2. UNCHANGED <<Served, server # "stopped">>
  BY <1>1 DEF Served
<1>3. CASE Connect(c)
  <2>1. /\ server # "stopped" /\ client[c] = "start" /\ backlog' = Append(backlog, c)
        /\ UNCHANGED sent
    BY <1>3 DEF Connect, ClientGoto
  <2>2. c \notin ToSet(Waiting) \union ToSet(Served)
    BY <2>1, Mapping DEF ServerInv, PlaceInv
  <2>3. Waiting' = Append(Waiting, c)
    <3>1. server \in {"read", "execute", "select", "close"} /\ backlog \in Seq(Clients)
          /\ peer \in Clients
      BY <2>1 DEF ServerInv, TypeOK
    <3>2. CASE server \in {"read", "execute"}
      <4>1. Waiting = <<peer>> \o backlog /\ Waiting' = <<peer>> \o backlog'
        BY <1>1, <3>2 DEF Waiting
      <4> QED
        BY <2>1, <3>1, <4>1, ConcatOne
    <3>3. CASE server \in {"select", "close"}
      BY <1>1, <2>1, <3>3 DEF Waiting
    <3> QED
      BY <3>1, <3>2, <3>3
  <2>4. Connections!Connect(c)
    <3>1. UNCHANGED <<sent, Served, server # "stopped">>
      BY <1>1, <2>1 DEF Served
    <3> QED
      BY <2>1, <2>2, <2>3, <3>1 DEF Connections!Connect, Connections!ToSet, ToSet, Waiting, Served
  <2> QED
    BY <2>4 DEF Connections!Next
<1>4. CASE Write(c)
  <2>1. /\ client[c] = "write" /\ UNCHANGED backlog
        /\ \E length \in Lengths : sent' = [sent EXCEPT ![c] = length]
    BY <1>4 DEF Write, ClientGoto
  <2>2. UNCHANGED Waiting
    BY <1>1, <2>1 DEF Waiting
  <2>3. sent[c] = 0 /\ c \notin ToSet(Served) /\ (server # "stopped" => c \in ToSet(Waiting))
    <3>1. c \notin Executed
      BY <2>1 DEF ServerInv, CommandInv, Executed
    <3> QED
      BY <2>1, <3>1, Mapping DEF ServerInv, BytesInv, PlaceInv
  <2>4. Connections!Send(c)
    <3>1. UNCHANGED <<Waiting, Served, server # "stopped">>
      BY <1>1, <2>2 DEF Served
    <3> QED
      BY <2>1, <2>3, <3>1 DEF Connections!Send, Connections!ToSet, ToSet, Waiting, Served
  <2> QED
    BY <2>4 DEF Connections!Next
<1>5. CASE ConnectFails(c) \/ ClientCloses(c)
  <2>1. UNCHANGED <<sent, backlog>>
    BY <1>5 DEF ConnectFails, ClientCloses
  <2>2. UNCHANGED Waiting
    BY <1>1, <2>1 DEF Waiting
  <2> QED
    BY <1>2, <2>1, <2>2 DEF Connections!vars, Waiting, Served
<1> QED
  BY <1>3, <1>4, <1>5 DEF ClientStep

\* The server takes a client from the queue when its command is executed.
LEMMA ServerImplements ==
    ASSUME ServerInv, ServerStep
    PROVE  Connections!Next \/ UNCHANGED Connections!vars
<1>1. UNCHANGED sent
  BY DEF ServerStep, Accept, Read, ReadEnds, Execute, CloseClient, client_vars
<1>2. backlog \in Seq(Clients) /\ peer \in Clients
  BY DEF ServerInv, TypeOK
<1>3. CASE Execute
  <2>1. /\ server = "execute" /\ server' = "close" /\ UNCHANGED backlog
        /\ \E n \in 0 .. MaxBehind : executed' = Append(executed, [client |-> peer,
                                              length |-> received[peer], behind |-> n])
    BY <1>3, MaxBehindAssumption DEF Execute, Goto
  <2>2. Waiting = <<peer>> \o backlog /\ Waiting' = backlog
    BY <2>1 DEF Waiting
  <2>3. Waiting # <<>> /\ Head(Waiting) = peer /\ Waiting' = Tail(Waiting)
    BY <1>2, <2>2, ConcatOne
  <2>4. Served' = Append(Served, peer)
    <3> DEFINE S == [client : Clients, length : 0 .. MAX_BUFFER, behind : 0 .. MaxBehind]
    <3>1. executed \in Seq(S)
      BY DEF ServerInv, TypeOK
    <3>2. received[peer] \in 0 .. MAX_BUFFER
      BY <1>2 DEF ServerInv, TypeOK
    <3>3. PICK n \in 0 .. MaxBehind : executed' = Append(executed, [client |-> peer,
                                        length |-> received[peer], behind |-> n])
      BY <2>1
    <3>4. [client |-> peer, length |-> received[peer], behind |-> n] \in S
      BY <1>2, <3>2
    <3> HIDE DEF S
    <3> QED
      BY <3>1, <3>3, <3>4, AppendedServed
  <2>5. Connections!Serve
    BY <1>1, <2>1, <2>3, <2>4 DEF Connections!Serve, Waiting, Served
  <2> QED
    BY <2>5 DEF Connections!Next
<1>4. CASE Accept
  <2>1. /\ server = "select" /\ server' = "read" /\ backlog # <<>> /\ UNCHANGED executed
        /\ peer' = Head(backlog) /\ backlog' = Tail(backlog)
    BY <1>4 DEF Accept, ListenerReady, Goto
  <2>2. UNCHANGED Waiting
    BY <1>2, <2>1, ConcatOne DEF Waiting
  <2>3. UNCHANGED <<Served, server # "stopped">>
    BY <2>1 DEF Served
  <2> QED
    BY <1>1, <2>2, <2>3 DEF Connections!vars, Waiting, Served
<1>5. CASE Read \/ ReadEnds \/ CloseClient
  <2>1. /\ UNCHANGED <<backlog, peer, executed>>
        /\ server \in {"read", "close"}
        /\ server' \in IF server = "read" THEN {"read", "execute"} ELSE {"select"}
    BY <1>5 DEF Read, ReadEnds, CloseClient, Goto
  <2>2. UNCHANGED Waiting
    BY <2>1 DEF Waiting
  <2>3. UNCHANGED <<Served, server # "stopped">>
    BY <2>1 DEF Served
  <2> QED
    BY <1>1, <2>2, <2>3 DEF Connections!vars, Waiting, Served
<1> QED
  BY <1>3, <1>4, <1>5 DEF ServerStep

\* A failing call stops the server, and those who wait are not served.
LEMMA FailureImplements ==
    ASSUME ServerFails
    PROVE  Connections!Stop
<1>1. /\ server \in {"select", "read"} /\ server' = "stopped"
      /\ UNCHANGED <<sent, executed>>
  BY DEF ServerFails, client_vars
<1>2. Waiting' = <<>> /\ UNCHANGED Served
  BY <1>1 DEF Waiting, Served
<1> QED
  BY <1>1, <1>2 DEF Connections!Stop, Waiting, Served

\* For every number of clients the server runs one command for each of them,
\* in the order in which they have connected (255, 259).
THEOREM ImplementsCommandServer == Spec => ServerSpec
<1>1. Init => Connections!Init
  BY DEF Init, Connections!Init
<1>2. ServerInv /\ ServerInv' /\ [Next]_vars => [Connections!Next]_(Connections!vars)
  <2>1. ASSUME UNCHANGED vars PROVE UNCHANGED Connections!vars
    BY <2>1 DEF vars, Connections!vars
  <2> QED
    BY <2>1, ClientImplements, ServerImplements, FailureImplements DEF Next, Connections!Next
<1> QED
  BY <1>1, <1>2, ServerInvHolds, PTL DEF Spec, ServerSpec, Connections!Spec
=============================================================================
