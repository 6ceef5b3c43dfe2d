-------------------------- MODULE DtlsHandshakeProofs --------------------------
(***************************************************************************)
(* Proofs about DtlsHandshake, for any clients, secrets and bounds.        *)
(*                                                                         *)
(* The inductive invariant comes in layers.  Types is the shape of the     *)
(* state; Numbers relates the randomness of a connect to the counter it    *)
(* came from, so that no two connects share one; Cookies, Keys and         *)
(* Transcripts say of the datagrams on their way what the ends will take   *)
(* them for.  All but the first rest on the ones before.                   *)
(***************************************************************************)
EXTENDS DtlsHandshake, TLAPS

\* The obligations of this module carry a large context, which Zenon takes better than
\* SMT, and whose translation for SMT may take more than one attempt.
USE ZenonT(5), SMTT(30), ZenonT(25), SMTT(20), SMTT(25)

Cookies == Nat \X Nat

Key == [cid : Nat, sid : Nat, psk : Psk]

Message ==
    {Hello(i, k) : i \in Nat, k \in Cookies}
      \cup {<<"ServerHello", i>> : i \in Nat}
      \cup {<<"ServerKeyExchange", i, j>> : i \in Nat, j \in Nat}
      \cup {<<"ServerHelloDone", i>> : i \in Nat}
      \cup {KeyExchange(i, j) : i \in Nat, j \in Nat}
      \cup {FinishedMessage(k) : k \in Key}

Address == Clients \cup {Server}

ClientState ==
    [st : {"idle", "hello", "flight", "finished", "established", "failed"},
     cid : Nat, seq : Nat, cookie : Cookies, key : Key, transcript : Seq(Message)]

ServerState ==
    [st : {"cookie", "flight", "accepted", "failed"},
     sid : Nat \ {0}, rec : Nat, peer : Address, cid : Nat, key : Key,
     transcript : Seq(Message)]

Datagrams ==
    [src : Address, dst : Address,
     kind : {"ClientHello", "HelloVerifyRequest", "ServerFlight", "ClientFlight",
             "ServerFinished", "Alert", "Garbled"},
     cid : Nat, sid : Nat, seq : Nat, rec : Nat, cookie : Cookies, key : Key,
     transcript : Seq(Message)]

(* The shape of the state.                                                   *)
Types ==
    /\ psk \in [Clients -> Psk]
    /\ client \in [Clients -> ClientState]
    /\ server \in ServerState
    /\ net \subseteq Datagrams
    /\ connects \in Nat
    /\ faults \in 0..MaxFaults
    /\ accepted \subseteq [peer : Address, key : Key]
    /\ verified \subseteq Cookies
    /\ \A c \in Clients : /\ client[c].seq <= 1
                          /\ client[c].st = "hello" => client[c].seq = 0

-----------------------------------------------------------------------------
(* What the constructors build.                                              *)

(* The absent key, cookie and transcript have the types of present ones.     *)
LEMMA Absent == NoKey \in Key /\ NoCookie \in Cookies /\ <<>> \in Seq(Message)
<1>1. <<>> \in Seq(Message)
  OBVIOUS
<1> QED
  BY <1>1, PskAssumption DEF NoKey, Key, NoCookie, Cookies

(* A client before its handshake, and one that gave up, are well formed.     *)
LEMMA IdleClient ==
    ASSUME NEW i \in Nat
    PROVE  /\ NoClient \in ClientState
           /\ [NoClient EXCEPT !.st = "hello", !.cid = i] \in ClientState
           /\ [NoClient EXCEPT !.st = "failed", !.cid = i] \in ClientState
<1>1. NoClient \in ClientState
  BY Absent DEF NoClient, ClientState
<1> QED
  BY <1>1 DEF ClientState

(* So are a server that waits for a peer and one that gave up.               *)
LEMMA IdleServer ==
    ASSUME NEW n \in Nat \ {0}, NEW r \in Nat
    PROVE  /\ Accepting(n) \in ServerState
           /\ [Accepting(n) EXCEPT !.st = "failed", !.rec = r] \in ServerState
<1>1. Accepting(n) \in ServerState
  BY Absent DEF Accepting, ServerState, Address
<1> QED
  BY <1>1 DEF ServerState

Fresh(s, d, k) ==
    /\ Datagram(s, d, k) \in Datagrams
    /\ Datagram(s, d, k).src = s
    /\ Datagram(s, d, k).dst = d
    /\ Datagram(s, d, k).kind = k
    /\ Datagram(s, d, k).cid = 0

(* A bare datagram has the kind and addresses it was made with.              *)
LEMMA DatagramType ==
    ASSUME NEW s \in Address, NEW d \in Address
    PROVE  /\ Fresh(s, d, "ClientHello") /\ Fresh(s, d, "HelloVerifyRequest")
           /\ Fresh(s, d, "ServerFlight") /\ Fresh(s, d, "ClientFlight")
           /\ Fresh(s, d, "ServerFinished") /\ Fresh(s, d, "Alert")
           /\ Fresh(s, d, "Garbled")
<1>2. Fresh(s, d, "ClientHello") /\ Fresh(s, d, "HelloVerifyRequest")
  BY Absent DEF Fresh, Datagram, Datagrams
<1>3. Fresh(s, d, "ServerFlight") /\ Fresh(s, d, "ClientFlight")
  BY Absent DEF Fresh, Datagram, Datagrams
<1>4. Fresh(s, d, "ServerFinished") /\ Fresh(s, d, "Alert") /\ Fresh(s, d, "Garbled")
  BY Absent DEF Fresh, Datagram, Datagrams
<1> QED
  BY <1>2, <1>3, <1>4

(* A ClientHello carries its client's randomness and cookie.                 *)
LEMMA HelloType ==
    ASSUME NEW c \in Clients, NEW cl \in ClientState
    PROVE  /\ ClientHello(c, cl) \in Datagrams
           /\ ClientHello(c, cl).src = c /\ ClientHello(c, cl).dst = Server
           /\ ClientHello(c, cl).kind = "ClientHello"
           /\ ClientHello(c, cl).cid = cl.cid /\ ClientHello(c, cl).cookie = cl.cookie
<1>0. c \in Address /\ Server \in Address
  BY DEF Address
<1>1. Fresh(c, Server, "ClientHello")
  BY <1>0, DatagramType
<1>2. cl.cid \in Nat /\ cl.seq \in Nat /\ cl.cookie \in Cookies
  BY DEF ClientState
<1>3. ClientHello(c, cl) \in Datagrams
  BY <1>1, <1>2 DEF ClientHello, Fresh, Datagrams
<1> QED
  BY <1>1, <1>2, <1>3 DEF ClientHello, Fresh, Datagrams

(* The server's flight names the accept and the client's randomness.         *)
LEMMA FlightType ==
    ASSUME server \in ServerState, NEW a \in Address, NEW i \in Nat
    PROVE  /\ ServerFlight(a, i) \in Datagrams
           /\ ServerFlight(a, i).kind = "ServerFlight"
           /\ ServerFlight(a, i).cid = i
<1>0. Server \in Address
  BY DEF Address
<1>1. Fresh(Server, a, "ServerFlight")
  BY <1>0, DatagramType
<1>2. server.sid \in Nat
  BY DEF ServerState
<1>3. ServerFlight(a, i) \in Datagrams
  BY <1>1, <1>2 DEF ServerFlight, Fresh, Datagrams
<1> QED
  BY <1>1, <1>2, <1>3 DEF ServerFlight, Fresh, Datagrams

(* A HelloVerifyRequest goes back to the sender and carries no randomness.   *)
LEMMA VerifyType ==
    ASSUME server \in ServerState, NEW h \in Datagrams
    PROVE  /\ HelloVerifyRequest(h) \in Datagrams
           /\ HelloVerifyRequest(h).kind = "HelloVerifyRequest"
           /\ HelloVerifyRequest(h).cid = 0
<1>0. Server \in Address /\ h.src \in Address /\ h.cid \in Nat /\ h.seq \in Nat
  BY DEF Datagrams, Address
<1>1. Fresh(Server, h.src, "HelloVerifyRequest")
  BY <1>0, DatagramType
<1>2. server.rec \in Nat /\ Cookie(server.sid, h.cid) \in Cookies
  BY <1>0 DEF Cookie, Cookies, ServerState
<1>3. HelloVerifyRequest(h) \in Datagrams
  BY <1>0, <1>1, <1>2 DEF HelloVerifyRequest, Fresh, Datagrams
<1> QED
  BY <1>0, <1>1, <1>2, <1>3 DEF HelloVerifyRequest, Fresh, Datagrams

(* The alert of a server has no use for randomness.                          *)
LEMMA AlertType ==
    ASSUME server \in ServerState
    PROVE  ServerAlert \in Datagrams /\ ServerAlert.kind = "Alert" /\ ServerAlert.cid = 0
<1>0. Server \in Address /\ server.peer \in Address /\ server.sid \in Nat
  BY DEF ServerState, Address
<1>1. Fresh(Server, server.peer, "Alert")
  BY <1>0, DatagramType
<1> QED
  BY <1>0, <1>1 DEF ServerAlert, Fresh, Datagrams

(* The messages of a transcript.                                             *)
LEMMA MessageTypes ==
    ASSUME NEW i \in Nat, NEW j \in Nat, NEW ck \in Cookies, NEW k \in Key
    PROVE  /\ Hello(i, ck) \in Message
           /\ Flight(i, j) \in Seq(Message)
           /\ KeyExchange(i, j) \in Message
           /\ FinishedMessage(k) \in Message
<1>1. Hello(i, ck) \in Message /\ KeyExchange(i, j) \in Message /\ FinishedMessage(k) \in Message
  BY DEF Message
<1>2. /\ <<"ServerHello", i>> \in Message
      /\ <<"ServerKeyExchange", i, j>> \in Message
      /\ <<"ServerHelloDone", i>> \in Message
  BY DEF Message
<1> QED
  BY <1>1, <1>2 DEF Flight

-----------------------------------------------------------------------------
(* Taking a datagram: what is on its way afterwards was there or was sent.   *)
LEMMA TakeShape ==
    ASSUME NEW m, NEW sent, Take(m, sent), faults \in 0..MaxFaults
    PROVE  net' \subseteq net \cup sent /\ faults' \in 0..MaxFaults
BY BoundAssumption DEF Take

(* A client that gives up keeps only its randomness.                         *)
LEMMA FailsShape ==
    ASSUME Types, NEW c \in Clients, ClientFails(c)
    PROVE  /\ client' \in [Clients -> ClientState]
           /\ client'[c].st = "failed" /\ client'[c].cid = client[c].cid
           /\ client'[c].seq = 0
           /\ \A d \in Clients \ {c} : client'[d] = client[d]
<1>1. client[c].cid \in Nat
  BY DEF Types, ClientState
<1>2. [NoClient EXCEPT !.st = "failed", !.cid = client[c].cid] \in ClientState
  BY <1>1, IdleClient
<1> QED
  BY <1>1, <1>2 DEF ClientFails, Types, NoClient

(* So does a server, of its accept.                                          *)
LEMMA ServerFailsShape ==
    ASSUME Types, ServerFails
    PROVE  /\ server' \in ServerState
           /\ server'.st = "failed" /\ server'.sid = server.sid /\ server'.cid = 0
<1>1. server.sid \in Nat \ {0} /\ server.rec \in Nat
  BY DEF Types, ServerState
<1>2. [Accepting(server.sid) EXCEPT !.st = "failed", !.rec = server.rec] \in ServerState
  BY <1>1, IdleServer
<1> QED
  BY <1>1, <1>2 DEF ServerFails, Accepting

(* The client after a HelloVerifyRequest it followed.                        *)
Answering(c, m) ==
    [client[c] EXCEPT !.st = "flight", !.seq = @ + 1, !.cookie = m.cookie,
                      !.transcript = <<Hello(client[c].cid, m.cookie)>>]

(* The key and the transcript a client derives from a server's flight.       *)
ClientKey(c, m) == [cid |-> client[c].cid, sid |-> m.sid, psk |-> psk[c]]

ClientTranscript(c, m) ==
    client[c].transcript \o Flight(m.sid, m.cid) \o <<KeyExchange(client[c].cid, m.sid)>>

ClientFlight(c, m) ==
    [Datagram(c, Server, "ClientFlight") EXCEPT
       !.cid = client[c].cid, !.sid = m.sid, !.key = ClientKey(c, m),
       !.transcript = ClientTranscript(c, m)]

(* Following a HelloVerifyRequest changes the state and sends a ClientHello. *)
LEMMA HelloVerifiedShape ==
    ASSUME Types, NEW c \in Clients, NEW m \in Datagrams, client[c].st = "hello",
           HelloVerified(c, m)
    PROVE  /\ Answering(c, m) \in ClientState
           /\ Answering(c, m).cid = client[c].cid
           /\ Answering(c, m).cookie = m.cookie
           /\ Answering(c, m).st = "flight" /\ Answering(c, m).seq = 1
           /\ client' = [client EXCEPT ![c] = Answering(c, m)]
           /\ net' \subseteq net \cup {ClientHello(c, Answering(c, m))}
           /\ faults' \in 0..MaxFaults
           /\ m.cookie \in Cookies
<1>1. m.cookie \in Cookies
  BY DEF Datagrams
<1>2. client[c] \in ClientState /\ client[c].seq = 0 /\ faults \in 0..MaxFaults
  BY DEF Types
<1>3. <<Hello(client[c].cid, m.cookie)>> \in Seq(Message)
  <2>1. client[c].cid \in Nat
    BY <1>2 DEF ClientState
  <2>2. Hello(client[c].cid, m.cookie) \in Message
    BY <1>1, <2>1 DEF Message
  <2> QED
    BY <2>2
<1>4. Answering(c, m) \in ClientState
  <2> DEFINE t == <<Hello(client[c].cid, m.cookie)>>
  <2>1. Answering(c, m) = [client[c] EXCEPT !.st = "flight", !.seq = 1,
                                            !.cookie = m.cookie, !.transcript = t]
    BY <1>2 DEF Answering
  <2>2. t \in Seq(Message)
    BY <1>3
  <2> HIDE DEF t
  <2>3. ASSUME NEW cl \in ClientState
        PROVE  [cl EXCEPT !.st = "flight", !.seq = 1, !.cookie = m.cookie,
                          !.transcript = t] \in ClientState
    BY <1>1, <2>2 DEF ClientState
  <2> QED
    BY <1>2, <2>1, <2>3
<1>5. Answering(c, m).cid = client[c].cid /\ Answering(c, m).cookie = m.cookie
      /\ Answering(c, m).st = "flight" /\ Answering(c, m).seq = 1
  BY <1>2 DEF Answering, ClientState
<1>6. client' = [client EXCEPT ![c] = Answering(c, m)]
      /\ Take(m, {ClientHello(c, Answering(c, m))})
  BY DEF HelloVerified, Answering
<1> QED
  BY <1>1, <1>2, <1>4, <1>5, <1>6, TakeShape

(* What a client makes of a server's flight is well formed.                  *)
LEMMA ClientFlightType ==
    ASSUME Types, NEW c \in Clients, NEW m \in Datagrams
    PROVE  /\ ClientKey(c, m) \in Key
           /\ ClientTranscript(c, m) \in Seq(Message)
           /\ ClientFlight(c, m) \in Datagrams
           /\ ClientFlight(c, m).src = c /\ ClientFlight(c, m).kind = "ClientFlight"
           /\ ClientFlight(c, m).cid = client[c].cid
           /\ ClientFlight(c, m).key = ClientKey(c, m)
           /\ ClientFlight(c, m).transcript = ClientTranscript(c, m)
<1>1. /\ client[c].cid \in Nat /\ client[c].transcript \in Seq(Message)
      /\ psk[c] \in Psk /\ m.sid \in Nat /\ m.cid \in Nat
  BY DEF Types, ClientState, Datagrams
<1>2. ClientKey(c, m) \in Key
  BY <1>1 DEF ClientKey, Key
<1>3. ClientTranscript(c, m) \in Seq(Message)
  <2>1. Flight(m.sid, m.cid) \in Seq(Message)
    BY <1>1, Absent, MessageTypes
  <2>2. <<KeyExchange(client[c].cid, m.sid)>> \in Seq(Message)
    <3>1. KeyExchange(client[c].cid, m.sid) \in Message
      BY <1>1, Absent, MessageTypes
    <3> QED
      BY <3>1
  <2>3. client[c].transcript \o Flight(m.sid, m.cid) \in Seq(Message)
    BY <1>1, <2>1
  <2> QED
    BY <2>2, <2>3 DEF ClientTranscript
<1>4. Fresh(c, Server, "ClientFlight")
  BY DatagramType DEF Address
<1>5. ClientFlight(c, m) \in Datagrams
  BY <1>1, <1>2, <1>3, <1>4 DEF ClientFlight, Fresh, Datagrams
<1>6. /\ ClientFlight(c, m).src = c /\ ClientFlight(c, m).kind = "ClientFlight"
      /\ ClientFlight(c, m).cid = client[c].cid
  BY <1>1, <1>4 DEF ClientFlight, Fresh, Datagrams
<1>7. /\ ClientFlight(c, m).key = ClientKey(c, m)
      /\ ClientFlight(c, m).transcript = ClientTranscript(c, m)
  BY <1>1, <1>4 DEF ClientFlight, Fresh, Datagrams
<1> QED
  BY <1>2, <1>3, <1>5, <1>6, <1>7

(* The Finished a server answers with.                                       *)
FinishedTranscript == Append(ServerTranscript, FinishedMessage(ServerKey))

ServerFinished ==
    [Datagram(Server, server.peer, "ServerFinished") EXCEPT
       !.sid = server.sid, !.key = ServerKey, !.transcript = FinishedTranscript]

(* It is well formed, and names the peer and the key.                        *)
LEMMA ServerFinishedType ==
    ASSUME Types
    PROVE  /\ ServerKey \in Key /\ FinishedTranscript \in Seq(Message)
           /\ ServerFinished \in Datagrams
           /\ ServerFinished.dst = server.peer /\ ServerFinished.kind = "ServerFinished"
           /\ ServerFinished.cid = 0 /\ ServerFinished.key = ServerKey
<1>1. /\ server.cid \in Nat /\ server.sid \in Nat /\ server.peer \in Address
      /\ server.transcript \in Seq(Message)
  BY DEF Types, ServerState
<1>2. ServerKey \in Key
  BY <1>1, PskAssumption DEF ServerKey, Key
<1>3. FinishedTranscript \in Seq(Message)
  <2>1. KeyExchange(server.cid, server.sid) \in Message /\ FinishedMessage(ServerKey) \in Message
    BY <1>1, <1>2, Absent, MessageTypes
  <2>2. ServerTranscript \in Seq(Message)
    BY <1>1, <2>1 DEF ServerTranscript
  <2> QED
    BY <2>1, <2>2 DEF FinishedTranscript
<1>4. Fresh(Server, server.peer, "ServerFinished")
  BY <1>1, DatagramType DEF Address
<1>5. ServerFinished \in Datagrams
  BY <1>1, <1>2, <1>3, <1>4 DEF ServerFinished, Fresh, Datagrams
<1>6. /\ ServerFinished.dst = server.peer /\ ServerFinished.kind = "ServerFinished"
      /\ ServerFinished.cid = 0 /\ ServerFinished.key = ServerKey
  BY <1>1, <1>4 DEF ServerFinished, Fresh, Datagrams
<1> QED
  BY <1>2, <1>3, <1>5, <1>6

(* The server once it has committed to the sender of a ClientHello.          *)
Committed(m) ==
    [server EXCEPT !.st = "flight", !.peer = m.src, !.cid = m.cid,
       !.transcript = <<Hello(m.cid, m.cookie)>> \o Flight(server.sid, m.cid)]

(* It is well formed and holds the sender and its randomness.                *)
LEMMA CommittedType ==
    ASSUME Types, NEW m \in Datagrams
    PROVE  /\ Committed(m) \in ServerState
           /\ Committed(m).st = "flight" /\ Committed(m).peer = m.src
           /\ Committed(m).cid = m.cid /\ Committed(m).sid = server.sid
<1>1. /\ m.cid \in Nat /\ m.src \in Address /\ m.cookie \in Cookies
      /\ server \in ServerState /\ server.sid \in Nat
  BY DEF Types, ServerState, Datagrams
<1> DEFINE t == <<Hello(m.cid, m.cookie)>> \o Flight(server.sid, m.cid)
<1>2. t \in Seq(Message)
  <2>1. Hello(m.cid, m.cookie) \in Message /\ Flight(server.sid, m.cid) \in Seq(Message)
    BY <1>1, Absent, MessageTypes
  <2>2. <<Hello(m.cid, m.cookie)>> \in Seq(Message)
    BY <2>1
  <2> QED
    BY <2>1, <2>2
<1>3. Committed(m) = [server EXCEPT !.st = "flight", !.peer = m.src, !.cid = m.cid,
                                    !.transcript = t]
  BY DEF Committed
<1> HIDE DEF t
<1>4. Committed(m) \in ServerState
  BY <1>1, <1>2, <1>3 DEF ServerState
<1> QED
  BY <1>1, <1>3, <1>4 DEF ServerState

-----------------------------------------------------------------------------
(* Types holds initially.                                                    *)
LEMMA TypesStart == Init => Types
<1> SUFFICES ASSUME Init PROVE Types
  OBVIOUS
<1>1. psk \in [Clients -> Psk] /\ faults \in 0..MaxFaults /\ connects \in Nat
  BY PskAssumption, BoundAssumption DEF Init
<1>2. NoClient \in ClientState /\ NoClient.st = "idle" /\ NoClient.seq = 0
  BY IdleClient DEF NoClient
<1>3. server \in ServerState
  <2>1. 1 \in Nat \ {0} /\ 0 \in Nat /\ server = Accepting(1)
    BY DEF Init
  <2> QED
    BY <2>1, IdleServer
<1>4. \A c \in Clients : client[c] = NoClient
  BY DEF Init
<1> QED
  BY <1>1, <1>2, <1>3, <1>4 DEF Init, Types

(* Every step of a client keeps the types.                                   *)
LEMMA ClientTypes ==
    ASSUME Types, NEW c \in Clients,
           Connect(c) \/ ClientReceives(c) \/ ClientTimeout(c)
    PROVE  Types'
<1>0. faults \in 0..MaxFaults /\ net \subseteq Datagrams /\ client \in [Clients -> ClientState]
  BY DEF Types
<1>1. CASE Connect(c)
  <2> DEFINE cl == [NoClient EXCEPT !.st = "hello", !.cid = connects + 1]
  <2>1. connects \in Nat /\ connects + 1 \in Nat
    BY DEF Types
  <2>2. cl \in ClientState
    BY <2>1, IdleClient
  <2>3. cl.st = "hello" /\ cl.seq = 0
    BY DEF NoClient
  <2>4. client' = [client EXCEPT ![c] = cl] /\ net' = net \cup {ClientHello(c, cl)}
    BY <1>1 DEF Connect
  <2> HIDE DEF cl
  <2>5. net' \subseteq Datagrams
    BY <1>0, <2>2, <2>4, HelloType
  <2>6. client' \in [Clients -> ClientState]
    BY <1>0, <2>2, <2>4
  <2>7. \A d \in Clients : client'[d] = IF d = c THEN cl ELSE client[d]
    BY <1>0, <2>4
  <2>8. \A d \in Clients : client'[d].seq <= 1 /\ (client'[d].st = "hello" => client'[d].seq = 0)
    BY <2>3, <2>7 DEF Types
  <2>9. connects' \in Nat /\ UNCHANGED <<psk, server, faults, accepted, verified>>
    BY <1>1, <2>1 DEF Connect
  <2> QED
    BY <2>5, <2>6, <2>8, <2>9 DEF Types
<1>2. CASE ClientTimeout(c)
  <2>1. ClientFails(c) /\ faults' \in 0..MaxFaults
    BY <1>0, <1>2, BoundAssumption DEF ClientTimeout, Impatient
  <2> QED
    BY <1>2, <2>1, FailsShape DEF ClientTimeout, Types
<1>3. ASSUME NEW m \in net, NEW sent, sent \subseteq Datagrams, Take(m, sent),
             ClientFails(c) \/ UNCHANGED client,
             UNCHANGED <<psk, server, connects, accepted, verified>>
      PROVE  Types'
  <2>1. net' \subseteq net \cup sent /\ faults' \in 0..MaxFaults
    BY <1>0, <1>3, TakeShape
  <2>2. net' \subseteq Datagrams
    BY <1>0, <1>3, <2>1
  <2>3. CASE ClientFails(c)
    BY <1>3, <2>1, <2>2, <2>3, FailsShape DEF Types
  <2> QED
    BY <1>3, <2>1, <2>2, <2>3 DEF Types
<1>4. ASSUME NEW m \in net, ClientGetsHelloVerify(c, m)
      PROVE  Types'
  <2>0. m \in Datagrams
    BY <1>0
  <2>1. CASE client[c].st = "hello" /\ HelloVerified(c, m)
    <3>1. /\ Answering(c, m) \in ClientState
          /\ Answering(c, m).st = "flight" /\ Answering(c, m).seq = 1
          /\ client' = [client EXCEPT ![c] = Answering(c, m)]
          /\ net' \subseteq net \cup {ClientHello(c, Answering(c, m))}
          /\ faults' \in 0..MaxFaults
          /\ m.cookie \in Cookies
      BY <2>0, <2>1, HelloVerifiedShape
    <3>2. net' \subseteq Datagrams
      BY <1>0, <3>1, HelloType
    <3>3. verified' \subseteq Cookies /\ UNCHANGED <<psk, server, connects, accepted>>
      BY <2>1, <3>1 DEF HelloVerified, Types
    <3> QED
      BY <1>0, <3>1, <3>2, <3>3 DEF Types
  <2>2. CASE ~(client[c].st = "hello" /\ HelloVerified(c, m))
    <3>1. /\ Take(m, {}) /\ (ClientFails(c) \/ UNCHANGED client)
          /\ UNCHANGED <<psk, server, connects, accepted, verified>>
      BY <1>4, <2>2 DEF ClientGetsHelloVerify, ClientStays
    <3> QED
      BY <1>3, <3>1
  <2> QED
    BY <2>1, <2>2
<1>5. ASSUME NEW m \in net, ClientGetsServerFlight(c, m)
      PROVE  Types'
  <2>0. m \in Datagrams
    BY <1>0
  <2>1. CASE ClientFlightFrom(c, m)
    <3> DEFINE t == Append(ClientTranscript(c, m), FinishedMessage(ClientKey(c, m)))
               cl == [client[c] EXCEPT !.st = "finished", !.key = ClientKey(c, m),
                                       !.transcript = t]
    <3>1. ClientKey(c, m) \in Key /\ ClientTranscript(c, m) \in Seq(Message)
          /\ ClientFlight(c, m) \in Datagrams
      BY <2>0, ClientFlightType
    <3>2. t \in Seq(Message)
      <4>1. FinishedMessage(ClientKey(c, m)) \in Message
        BY <3>1 DEF Message
      <4> QED
        BY <3>1, <4>1
    <3>3. client' = [client EXCEPT ![c] = cl] /\ Take(m, {ClientFlight(c, m)})
      BY <2>1 DEF ClientFlightFrom, ClientKey, ClientTranscript, ClientFlight
    <3> HIDE DEF t
    <3>4. cl \in ClientState /\ cl.st = "finished" /\ cl.seq = client[c].seq
      BY <1>0, <3>1, <3>2 DEF ClientState
    <3> HIDE DEF cl
    <3>5. net' \subseteq Datagrams /\ faults' \in 0..MaxFaults
      BY <1>0, <3>1, <3>3, TakeShape
    <3> QED
      BY <1>0, <1>5, <3>3, <3>4, <3>5 DEF ClientGetsServerFlight, Types
  <2>2. CASE ~ClientFlightFrom(c, m)
    <3>1. /\ Take(m, {}) /\ (ClientFails(c) \/ UNCHANGED client)
          /\ UNCHANGED <<psk, server, connects, accepted, verified>>
      BY <1>5, <2>2 DEF ClientGetsServerFlight, ClientStays
    <3> QED
      BY <1>3, <3>1
  <2> QED
    BY <2>1, <2>2
<1>6. ASSUME NEW m \in net, ClientGetsFinished(c, m)
      PROVE  Types'
  <2>1. Take(m, {}) /\ UNCHANGED <<psk, server, connects, accepted, verified>>
    BY <1>6 DEF ClientGetsFinished
  <2>2. CASE client' = [client EXCEPT ![c].st = "established"]
    <3>1. client' \in [Clients -> ClientState]
      BY <1>0, <2>2 DEF ClientState
    <3>2. \A d \in Clients : client'[d].seq = client[d].seq
      BY <1>0, <2>2 DEF ClientState
    <3>3. client'[c].st = "established" /\ \A d \in Clients \ {c} : client'[d] = client[d]
      BY <1>0, <2>2 DEF ClientState
    <3>4. net' \subseteq net /\ faults' \in 0..MaxFaults
      BY <1>0, <2>1, TakeShape
    <3> QED
      BY <1>0, <2>1, <3>1, <3>2, <3>3, <3>4 DEF Types
  <2> QED
    BY <1>3, <1>6, <2>1, <2>2 DEF ClientGetsFinished
<1>7. ASSUME NEW m \in net, ClientGetsError(c, m)
      PROVE  Types'
  BY <1>3, <1>7 DEF ClientGetsError
<1> QED
  BY <1>1, <1>2, <1>4, <1>5, <1>6, <1>7 DEF ClientReceives

(* So does every step of the server.                                         *)
LEMMA ServerTypes ==
    ASSUME Types, Accept \/ ServerReceives \/ ServerTimeout
    PROVE  Types'
<1>0. faults \in 0..MaxFaults /\ net \subseteq Datagrams /\ server \in ServerState
  BY DEF Types
<1>1. CASE Accept
  <2>1. server.sid + 1 \in Nat \ {0} /\ 0 \in Nat
    BY <1>0 DEF ServerState
  <2>2. server' \in ServerState
    BY <1>1, <2>1, IdleServer DEF Accept
  <2> QED
    BY <1>1, <2>2 DEF Accept, Types
<1>2. CASE ServerTimeout
  <2>1. ServerFails /\ faults' \in 0..MaxFaults
    BY <1>0, <1>2, BoundAssumption DEF ServerTimeout, Impatient
  <2>2. server' \in ServerState
    BY <2>1, ServerFailsShape
  <2> QED
    BY <1>2, <2>1, <2>2 DEF ServerTimeout, Types
<1>3. ASSUME NEW m \in net, NEW sent, sent \subseteq Datagrams, Take(m, sent),
             server' \in ServerState, accepted' \subseteq [peer : Address, key : Key],
             UNCHANGED <<psk, client, connects, verified>>
      PROVE  Types'
  <2>1. net' \subseteq net \cup sent /\ faults' \in 0..MaxFaults
    BY <1>0, <1>3, TakeShape
  <2>2. net' \subseteq Datagrams
    BY <1>0, <1>3, <2>1
  <2> QED
    BY <1>3, <2>1, <2>2 DEF Types
<1>4. accepted \subseteq [peer : Address, key : Key]
  BY DEF Types
<1>5. ServerFails => server' \in ServerState
  BY ServerFailsShape
<1>6. ASSUME NEW m \in net, ServerGetsHello(m)
      PROVE  Types'
  <2>0. m \in Datagrams /\ m.src \in Address /\ m.cid \in Nat
    BY <1>0 DEF Datagrams
  <2>1. CASE m.cookie = Cookie(server.sid, m.cid)
    <3>1. server' = Committed(m) /\ Take(m, {ServerFlight(m.src, m.cid)})
          /\ UNCHANGED <<psk, client, connects, accepted, verified>>
      BY <1>6, <2>1 DEF ServerGetsHello, Committed
    <3>2. server' \in ServerState
      BY <2>0, <3>1, CommittedType
    <3>3. {ServerFlight(m.src, m.cid)} \subseteq Datagrams
      BY <1>0, <2>0, FlightType
    <3> QED
      BY <1>3, <1>4, <3>1, <3>2, <3>3
  <2>2. CASE m.cookie # Cookie(server.sid, m.cid)
    <3>1. server' = [server EXCEPT !.rec = @ + 1] /\ Take(m, {HelloVerifyRequest(m)})
          /\ UNCHANGED <<psk, client, connects, accepted, verified>>
      BY <1>6, <2>2 DEF ServerGetsHello
    <3>2. server' \in ServerState
      BY <1>0, <3>1 DEF ServerState
    <3>3. {HelloVerifyRequest(m)} \subseteq Datagrams
      BY <1>0, <2>0, VerifyType
    <3> QED
      BY <1>3, <1>4, <3>1, <3>2, <3>3
  <2> QED
    BY <2>1, <2>2
<1>7. ASSUME NEW m \in net, ServerGetsLateHello(m)
      PROVE  Types'
  <2>1. server' \in ServerState
    BY <1>0, <1>5, <1>7 DEF ServerGetsLateHello
  <2>2. Take(m, {}) /\ UNCHANGED <<psk, client, connects, accepted, verified>>
    BY <1>7 DEF ServerGetsLateHello
  <2> QED
    BY <1>3, <1>4, <2>1, <2>2
<1>8. ASSUME NEW m \in net, ServerSkips(m) \/ ServerGetsError(m)
      PROVE  Types'
  <2>1. server' \in ServerState
    BY <1>0, <1>5, <1>8 DEF ServerSkips, ServerGetsError
  <2>2. Take(m, {}) /\ UNCHANGED <<psk, client, connects, accepted, verified>>
    BY <1>8 DEF ServerSkips, ServerGetsError
  <2> QED
    BY <1>3, <1>4, <2>1, <2>2
<1>9. ASSUME NEW m \in net, ServerGetsClientFlight(m)
      PROVE  Types'
  <2>0. UNCHANGED <<psk, client, connects, verified>>
    BY <1>9 DEF ServerGetsClientFlight
  <2>1. CASE Finishes(m) /\ m.src = server.peer
    <3> DEFINE t == FinishedTranscript
               k == ServerKey
    <3>1. k \in Key /\ t \in Seq(Message) /\ ServerFinished \in Datagrams
      BY ServerFinishedType
    <3>2. server' = [server EXCEPT !.st = "accepted", !.key = k, !.transcript = t]
      BY <2>1 DEF Finishes, FinishedTranscript
    <3>3. accepted' = accepted \cup {[peer |-> server.peer, key |-> k]}
          /\ Take(m, {ServerFinished})
      BY <2>1 DEF Finishes, FinishedTranscript, ServerFinished
    <3> HIDE DEF t, k
    <3>4. server' \in ServerState
      BY <1>0, <3>1, <3>2 DEF ServerState
    <3>5. accepted' \subseteq [peer : Address, key : Key]
      <4>1. server.peer \in Address
        BY <1>0 DEF ServerState
      <4> QED
        BY <1>4, <3>1, <3>3, <4>1
    <3>6. {ServerFinished} \subseteq Datagrams
      BY <3>1
    <3> QED
      BY <1>3, <2>0, <3>3, <3>4, <3>5, <3>6
  <2>2. CASE ServerFails /\ UNCHANGED accepted /\ (Take(m, {ServerAlert}) \/ Take(m, {}))
    <3>1. {ServerAlert} \subseteq Datagrams /\ {} \subseteq Datagrams
      BY <1>0, AlertType
    <3> QED
      BY <1>3, <1>4, <1>5, <2>0, <2>2, <3>1
  <2>3. CASE UNCHANGED <<server, accepted>> /\ Take(m, {})
    BY <1>0, <1>3, <1>4, <2>0, <2>3
  <2> QED
    BY <1>9, <2>1, <2>2, <2>3 DEF ServerGetsClientFlight
<1> QED
  BY <1>1, <1>2, <1>6, <1>7, <1>8, <1>9 DEF ServerReceives

(* Types is an invariant of every step.                                      *)
LEMMA TypesStep == Types /\ [Next]_vars => Types'
<1> SUFFICES ASSUME Types, [Next]_vars PROVE Types'
  OBVIOUS
<1>0. faults \in 0..MaxFaults /\ net \subseteq Datagrams
  BY DEF Types
<1>1. CASE Lose
  <2>1. net' \subseteq Datagrams /\ faults' \in 0..MaxFaults
    BY <1>0, <1>1, BoundAssumption DEF Lose
  <2> QED
    BY <1>1, <2>1 DEF Lose, Types
<1>2. CASE Damage
  <2>1. PICK m \in net : net' = (net \ {m}) \cup {Datagram(m.src, m.dst, "Garbled")}
    BY <1>2 DEF Damage
  <2>2. m.src \in Address /\ m.dst \in Address
    BY <1>0 DEF Datagrams
  <2>3. Datagram(m.src, m.dst, "Garbled") \in Datagrams
    BY <2>2, DatagramType DEF Fresh
  <2>4. net' \subseteq Datagrams /\ faults' \in 0..MaxFaults
    BY <1>0, <1>2, <2>1, <2>3, BoundAssumption DEF Damage
  <2> QED
    BY <1>2, <2>4 DEF Damage, Types
<1>3. CASE UNCHANGED vars
  BY <1>3 DEF vars, Types
<1> QED
  BY <1>1, <1>2, <1>3, ClientTypes, ServerTypes DEF Next

-----------------------------------------------------------------------------
(* The steps, reduced to what the agreement of the two ends depends on.      *)

Silent ==
    \A m \in net' : m \in net \/ m.kind \notin {"ClientHello", "ClientFlight", "ServerFinished"}

Adds(x) == net' \subseteq net \cup {x}

Begins(c) ==
    \E cl \in ClientState, x \in Datagrams :
      /\ cl.st = "hello" /\ cl.cid = connects + 1
      /\ x.kind = "ClientHello" /\ x.src = c /\ x.cid = connects + 1 /\ x.cookie = NoCookie
      /\ client' = [client EXCEPT ![c] = cl] /\ Adds(x) /\ connects' = connects + 1
      /\ UNCHANGED <<psk, server, accepted, verified>>

GivesUp(c) ==
    /\ client'[c].st = "failed" /\ client'[c].cid = client[c].cid
    /\ \A d \in Clients \ {c} : client'[d] = client[d]
    /\ Silent
    /\ UNCHANGED <<psk, server, connects, accepted, verified>>

Follows(c) ==
    \E cl \in ClientState, x \in Datagrams :
      /\ client[c].st = "hello" /\ cl.st = "flight" /\ cl.cid = client[c].cid
      /\ x.kind = "ClientHello" /\ x.src = c /\ x.cid = cl.cid
      /\ client' = [client EXCEPT ![c] = cl] /\ Adds(x) /\ verified' = verified \cup {x.cookie}
      /\ UNCHANGED <<psk, server, connects, accepted>>

Flies(c) ==
    \E cl \in ClientState, x \in Datagrams :
      /\ client[c].st = "flight" /\ cl.st = "finished" /\ cl.cid = client[c].cid
      /\ x.kind = "ClientFlight" /\ x.src = c /\ x.cid = cl.cid
      /\ x.key = cl.key /\ cl.key.psk = psk[c]
      /\ cl.transcript = Append(x.transcript, FinishedMessage(x.key))
      /\ client' = [client EXCEPT ![c] = cl] /\ Adds(x)
      /\ UNCHANGED <<psk, server, connects, accepted, verified>>

Establishes(c) ==
    \E m \in net :
      /\ m.dst = c /\ m.kind = "ServerFinished"
      /\ client[c].st = "finished" /\ m.key = client[c].key
      /\ client' = [client EXCEPT ![c].st = "established"] /\ Silent
      /\ UNCHANGED <<psk, server, connects, accepted, verified>>

Waits ==
    /\ server'.st \in {"cookie", "failed"}
    /\ server'.st = "cookie" =>
         \/ server'.peer = Server /\ server'.transcript = <<>> /\ server'.cid = 0
         \/ /\ server.st = "cookie" /\ server'.peer = server.peer
            /\ server'.transcript = server.transcript /\ server'.cid = server.cid
    /\ server'.st = "failed" => server'.cid = 0
    /\ Silent
    /\ UNCHANGED <<psk, client, connects, accepted, verified>>

Commits ==
    \E m \in net :
      /\ m.kind = "ClientHello" /\ m.cookie = Cookie(server.sid, m.cid)
      /\ server'.st = "flight" /\ server'.peer = m.src /\ server'.cid = m.cid
      /\ server'.sid = server.sid /\ Silent
      /\ UNCHANGED <<psk, client, connects, accepted, verified>>

Accepts ==
    \E m \in net, x \in Datagrams :
      /\ server.st = "flight" /\ m.kind = "ClientFlight"
      /\ m.src = server.peer /\ m.cid = server.cid
      /\ m.key = ServerKey /\ m.transcript = ServerTranscript
      /\ server'.st = "accepted" /\ server'.peer = server.peer /\ server'.cid = server.cid
      /\ server'.sid = server.sid /\ server'.key = ServerKey
      /\ server'.transcript = FinishedTranscript
      /\ accepted' = accepted \cup {[peer |-> server.peer, key |-> ServerKey]}
      /\ x.kind = "ServerFinished" /\ x.dst = server.peer /\ x.key = ServerKey /\ Adds(x)
      /\ UNCHANGED <<psk, client, connects, verified>>

Rests == Silent /\ UNCHANGED <<psk, client, server, connects, accepted, verified>>

ClientShape(c) == Begins(c) \/ GivesUp(c) \/ Follows(c) \/ Flies(c) \/ Establishes(c) \/ Rests

ServerShape == Waits \/ Commits \/ Accepts \/ Rests

(* Giving up on a datagram, or ignoring it.                                  *)
LEMMA GivesUpShape ==
    ASSUME Types, NEW c \in Clients, ClientFails(c) \/ UNCHANGED client, net' \subseteq net,
           UNCHANGED <<psk, server, connects, accepted, verified>>
    PROVE  ClientShape(c)
<1>1. Silent
  BY DEF Silent
<1>2. CASE ClientFails(c)
  <2>1. /\ client'[c].st = "failed" /\ client'[c].cid = client[c].cid
        /\ \A d \in Clients \ {c} : client'[d] = client[d]
    BY <1>2, FailsShape
  <2>2. GivesUp(c)
    BY <1>1, <2>1 DEF GivesUp
  <2> QED
    BY <2>2 DEF ClientShape
<1>3. CASE UNCHANGED client
  BY <1>1, <1>3 DEF ClientShape, Rests
<1> QED
  BY <1>2, <1>3

(* Every step of a client has one of these forms.                            *)
LEMMA ClientShapes ==
    ASSUME Types, NEW c \in Clients,
           Connect(c) \/ ClientReceives(c) \/ ClientTimeout(c)
    PROVE  ClientShape(c)
<1>0. faults \in 0..MaxFaults /\ net \subseteq Datagrams /\ client \in [Clients -> ClientState]
  BY DEF Types
<1>1. CASE Connect(c)
  <2> DEFINE cl == [NoClient EXCEPT !.st = "hello", !.cid = connects + 1]
             x == ClientHello(c, cl)
  <2>1. connects + 1 \in Nat
    BY DEF Types
  <2>2. cl \in ClientState
    BY <2>1, IdleClient
  <2>3. cl.st = "hello" /\ cl.cid = connects + 1 /\ cl.cookie = NoCookie
    BY DEF NoClient
  <2>4. client' = [client EXCEPT ![c] = cl] /\ net' = net \cup {x}
        /\ connects' = connects + 1 /\ UNCHANGED <<psk, server, accepted, verified>>
    BY <1>1 DEF Connect
  <2> HIDE DEF cl
  <2>5. /\ x \in Datagrams /\ x.kind = "ClientHello" /\ x.src = c
        /\ x.cid = cl.cid /\ x.cookie = cl.cookie
    BY <2>2, HelloType
  <2> HIDE DEF x
  <2>6. Adds(x)
    BY <2>4 DEF Adds
  <2>7. Begins(c)
    BY <2>2, <2>3, <2>4, <2>5, <2>6 DEF Begins
  <2> QED
    BY <2>7 DEF ClientShape
<1>2. CASE ClientTimeout(c)
  BY <1>2, GivesUpShape DEF ClientTimeout
<1>3. ASSUME NEW m \in net, Take(m, {}), ClientFails(c) \/ UNCHANGED client,
             UNCHANGED <<psk, server, connects, accepted, verified>>
      PROVE  ClientShape(c)
  <2>1. net' \subseteq net
    BY <1>0, <1>3, TakeShape
  <2> QED
    BY <1>3, <2>1, GivesUpShape
<1>4. ASSUME NEW m \in net, ClientGetsHelloVerify(c, m)
      PROVE  ClientShape(c)
  <2>0. m \in Datagrams
    BY <1>0
  <2>1. CASE client[c].st = "hello" /\ HelloVerified(c, m)
    <3> DEFINE cl == Answering(c, m)
               x == ClientHello(c, cl)
    <3>1. /\ cl \in ClientState /\ cl.st = "flight" /\ cl.cid = client[c].cid
          /\ cl.cookie = m.cookie
          /\ client' = [client EXCEPT ![c] = cl] /\ net' \subseteq net \cup {x}
      BY <2>0, <2>1, HelloVerifiedShape
    <3>2. verified' = verified \cup {m.cookie} /\ UNCHANGED <<psk, server, connects, accepted>>
      BY <2>1 DEF HelloVerified
    <3> HIDE DEF cl
    <3>3. /\ x \in Datagrams /\ x.kind = "ClientHello" /\ x.src = c
          /\ x.cid = cl.cid /\ x.cookie = cl.cookie
      BY <3>1, HelloType
    <3> HIDE DEF x
    <3>4. Adds(x)
      BY <3>1 DEF Adds
    <3>5. Follows(c)
      BY <2>1, <3>1, <3>2, <3>3, <3>4 DEF Follows
    <3> QED
      BY <3>5 DEF ClientShape
  <2>2. CASE ~(client[c].st = "hello" /\ HelloVerified(c, m))
    <3>1. /\ Take(m, {}) /\ (ClientFails(c) \/ UNCHANGED client)
          /\ UNCHANGED <<psk, server, connects, accepted, verified>>
      BY <1>4, <2>2 DEF ClientGetsHelloVerify, ClientStays
    <3> QED
      BY <1>3, <3>1
  <2> QED
    BY <2>1, <2>2
<1>5. ASSUME NEW m \in net, ClientGetsServerFlight(c, m)
      PROVE  ClientShape(c)
  <2>0. m \in Datagrams /\ UNCHANGED <<psk, server, connects, accepted, verified>>
    BY <1>0, <1>5 DEF ClientGetsServerFlight
  <2>1. CASE client[c].st = "flight" /\ ClientFlightFrom(c, m)
    <3> DEFINE k == ClientKey(c, m)
               u == ClientTranscript(c, m)
               t == Append(u, FinishedMessage(k))
               cl == [client[c] EXCEPT !.st = "finished", !.key = k, !.transcript = t]
               x == ClientFlight(c, m)
    <3>1. k \in Key /\ u \in Seq(Message) /\ x \in Datagrams
      BY <2>0, ClientFlightType
    <3>2. /\ x.src = c /\ x.kind = "ClientFlight" /\ x.cid = client[c].cid
          /\ x.key = k /\ x.transcript = u
      BY <2>0, ClientFlightType
    <3>3. t \in Seq(Message)
      <4>1. FinishedMessage(k) \in Message
        BY <3>1 DEF Message
      <4> QED
        BY <3>1, <4>1
    <3>4. client' = [client EXCEPT ![c] = cl] /\ Take(m, {x})
      BY <2>1 DEF ClientFlightFrom, ClientKey, ClientTranscript, ClientFlight
    <3>5. k.psk = psk[c] /\ t = Append(x.transcript, FinishedMessage(x.key))
      BY <3>2 DEF ClientKey
    <3>6. Adds(x)
      BY <1>0, <3>4, TakeShape DEF Adds
    <3> HIDE DEF t, k, u, x
    <3>7. /\ cl \in ClientState /\ cl.st = "finished" /\ cl.cid = client[c].cid
          /\ cl.key = k /\ cl.transcript = t
      BY <1>0, <3>1, <3>3 DEF ClientState
    <3> HIDE DEF cl
    <3>8. Flies(c)
      BY <2>0, <2>1, <3>1, <3>2, <3>4, <3>5, <3>6, <3>7 DEF Flies
    <3> QED
      BY <3>8 DEF ClientShape
  <2>2. CASE ~(client[c].st = "flight" /\ ClientFlightFrom(c, m))
    <3>1. Take(m, {}) /\ (ClientFails(c) \/ UNCHANGED client)
      BY <1>5, <2>2 DEF ClientGetsServerFlight, ClientStays
    <3> QED
      BY <1>3, <2>0, <3>1
  <2> QED
    BY <2>1, <2>2
<1>6. ASSUME NEW m \in net, ClientGetsFinished(c, m)
      PROVE  ClientShape(c)
  <2>1. Take(m, {}) /\ UNCHANGED <<psk, server, connects, accepted, verified>>
        /\ m.dst = c /\ m.kind = "ServerFinished"
    BY <1>6 DEF ClientGetsFinished
  <2>2. CASE client[c].st = "finished" /\ m.key = client[c].key
             /\ client' = [client EXCEPT ![c].st = "established"]
    <3>1. Silent
      BY <1>0, <2>1, TakeShape DEF Silent
    <3>2. Establishes(c)
      BY <2>1, <2>2, <3>1 DEF Establishes
    <3> QED
      BY <3>2 DEF ClientShape
  <2>3. CASE ClientFails(c)
    BY <1>3, <2>1, <2>3
  <2> QED
    BY <1>6, <2>2, <2>3 DEF ClientGetsFinished
<1>7. ASSUME NEW m \in net, ClientGetsError(c, m)
      PROVE  ClientShape(c)
  BY <1>3, <1>7 DEF ClientGetsError
<1> QED
  BY <1>1, <1>2, <1>4, <1>5, <1>6, <1>7 DEF ClientReceives

(* Every step of the server has one of these forms.                          *)
LEMMA ServerShapes ==
    ASSUME Types, Accept \/ ServerReceives \/ ServerTimeout
    PROVE  ServerShape
<1>0. faults \in 0..MaxFaults /\ net \subseteq Datagrams /\ server \in ServerState
  BY DEF Types
<1>1. CASE Accept
  <2>1. /\ server'.st = "cookie" /\ server'.peer = Server /\ server'.transcript = <<>>
        /\ server'.cid = 0
    BY <1>1 DEF Accept, Accepting
  <2>2. Silent /\ UNCHANGED <<psk, client, connects, accepted, verified>>
    BY <1>1 DEF Accept, Silent
  <2> QED
    BY <2>1, <2>2 DEF ServerShape, Waits
<1>2. ASSUME ServerFails, Silent, UNCHANGED <<psk, client, connects, accepted, verified>>
      PROVE  ServerShape
  <2>1. server'.st = "failed" /\ server'.cid = 0
    BY <1>2, ServerFailsShape
  <2> QED
    BY <1>2, <2>1 DEF ServerShape, Waits
<1>3. CASE ServerTimeout
  <2>1. Silent
    BY <1>3 DEF ServerTimeout, Silent
  <2> QED
    BY <1>2, <1>3, <2>1 DEF ServerTimeout
<1>4. ASSUME NEW m, Take(m, {})
      PROVE  Silent
  BY <1>0, <1>4, TakeShape DEF Silent
<1>5. ASSUME NEW m, NEW x \in Datagrams, Take(m, {x}),
             x.kind \notin {"ClientHello", "ClientFlight", "ServerFinished"}
      PROVE  Silent
  BY <1>0, <1>5, TakeShape DEF Silent
<1>6. ASSUME NEW m \in net, ServerGetsHello(m)
      PROVE  ServerShape
  <2>0. /\ m \in Datagrams /\ m.src \in Address /\ m.cid \in Nat /\ m.kind = "ClientHello"
        /\ server.st = "cookie" /\ UNCHANGED <<psk, client, connects, accepted, verified>>
    BY <1>0, <1>6 DEF Datagrams, ServerGetsHello
  <2>1. CASE m.cookie = Cookie(server.sid, m.cid)
    <3>1. server' = Committed(m) /\ Take(m, {ServerFlight(m.src, m.cid)})
      BY <1>6, <2>1 DEF ServerGetsHello, Committed
    <3>2. /\ server'.st = "flight" /\ server'.peer = m.src
          /\ server'.cid = m.cid /\ server'.sid = server.sid
      BY <2>0, <3>1, CommittedType
    <3>3. Silent
      <4>1. ServerFlight(m.src, m.cid) \in Datagrams
            /\ ServerFlight(m.src, m.cid).kind = "ServerFlight"
        BY <1>0, <2>0, FlightType
      <4> QED
        BY <1>5, <3>1, <4>1
    <3> QED
      BY <2>0, <2>1, <3>2, <3>3 DEF ServerShape, Commits
  <2>2. CASE m.cookie # Cookie(server.sid, m.cid)
    <3>1. server' = [server EXCEPT !.rec = @ + 1] /\ Take(m, {HelloVerifyRequest(m)})
      BY <1>6, <2>2 DEF ServerGetsHello
    <3>2. /\ server'.st = "cookie" /\ server'.peer = server.peer
          /\ server'.transcript = server.transcript /\ server'.cid = server.cid
      BY <1>0, <2>0, <3>1 DEF ServerState
    <3>3. Silent
      <4>1. HelloVerifyRequest(m) \in Datagrams
            /\ HelloVerifyRequest(m).kind = "HelloVerifyRequest"
        BY <1>0, <2>0, VerifyType
      <4> QED
        BY <1>5, <3>1, <4>1
    <3> QED
      BY <2>0, <3>2, <3>3 DEF ServerShape, Waits
  <2> QED
    BY <2>1, <2>2
<1>7. ASSUME NEW m \in net,
             ServerGetsLateHello(m) \/ ServerSkips(m) \/ ServerGetsError(m)
      PROVE  ServerShape
  <2>1. /\ Take(m, {}) /\ UNCHANGED <<psk, client, connects, accepted, verified>>
        /\ ServerFails \/ UNCHANGED server
    BY <1>7 DEF ServerGetsLateHello, ServerSkips, ServerGetsError
  <2>2. Silent
    BY <1>4, <2>1
  <2> QED
    BY <1>2, <2>1, <2>2 DEF ServerShape, Rests
<1>8. ASSUME NEW m \in net, ServerGetsClientFlight(m)
      PROVE  ServerShape
  <2>0. UNCHANGED <<psk, client, connects, verified>>
        /\ server.st = "flight" /\ m.kind = "ClientFlight"
    BY <1>8 DEF ServerGetsClientFlight
  <2>1. CASE /\ m.src = server.peer /\ m.cid = server.cid
             /\ m.key = ServerKey /\ m.transcript = ServerTranscript /\ Finishes(m)
    <3> DEFINE t == FinishedTranscript
               k == ServerKey
               x == ServerFinished
    <3>1. /\ k \in Key /\ t \in Seq(Message) /\ x \in Datagrams
          /\ x.dst = server.peer /\ x.kind = "ServerFinished" /\ x.key = k
      BY ServerFinishedType
    <3>2. server' = [server EXCEPT !.st = "accepted", !.key = k, !.transcript = t]
      BY <2>1 DEF Finishes, FinishedTranscript
    <3>3. accepted' = accepted \cup {[peer |-> server.peer, key |-> k]} /\ Take(m, {x})
      BY <2>1 DEF Finishes, FinishedTranscript, ServerFinished
    <3>4. m.key = k /\ k = ServerKey /\ t = FinishedTranscript
      BY <2>1
    <3>5. Adds(x)
      BY <1>0, <3>3, TakeShape DEF Adds
    <3> HIDE DEF t, k, x
    <3>6. /\ server'.st = "accepted" /\ server'.peer = server.peer
          /\ server'.cid = server.cid /\ server'.sid = server.sid
          /\ server'.key = k /\ server'.transcript = t
      BY <1>0, <3>2 DEF ServerState
    <3>7. Accepts
      BY <2>0, <2>1, <3>1, <3>3, <3>4, <3>5, <3>6 DEF Accepts
    <3> QED
      BY <3>7 DEF ServerShape
  <2>2. CASE ServerFails /\ UNCHANGED accepted /\ (Take(m, {ServerAlert}) \/ Take(m, {}))
    <3>1. Silent
      BY <1>0, <1>4, <1>5, <2>2, AlertType
    <3> QED
      BY <1>2, <2>0, <2>2, <3>1
  <2>3. CASE UNCHANGED <<server, accepted>> /\ Take(m, {})
    BY <1>4, <2>0, <2>3 DEF ServerShape, Rests
  <2> QED
    BY <1>8, <2>1, <2>2, <2>3 DEF ServerGetsClientFlight
<1> QED
  BY <1>1, <1>3, <1>6, <1>7, <1>8 DEF ServerReceives

(* So every step has a form of a client's or of the server's.                *)
LEMMA Shapes ==
    ASSUME Types, [Next]_vars
    PROVE  (\E c \in Clients : ClientShape(c)) \/ ServerShape
<1>0. net \subseteq Datagrams
  BY DEF Types
<1>1. CASE Lose
  BY <1>1 DEF Lose, ServerShape, Rests, Silent
<1>2. CASE Damage
  <2>1. PICK m \in net : net' = (net \ {m}) \cup {Datagram(m.src, m.dst, "Garbled")}
    BY <1>2 DEF Damage
  <2>2. m.src \in Address /\ m.dst \in Address
    BY <1>0 DEF Datagrams
  <2>3. Datagram(m.src, m.dst, "Garbled").kind = "Garbled"
    BY <2>2, DatagramType DEF Fresh
  <2>4. Silent
    BY <2>1, <2>3 DEF Silent
  <2> QED
    BY <1>2, <2>4 DEF Damage, ServerShape, Rests
<1>3. CASE UNCHANGED vars
  BY <1>3 DEF vars, ServerShape, Rests, Silent
<1> QED
  BY <1>1, <1>2, <1>3, ClientShapes, ServerShapes DEF Next

-----------------------------------------------------------------------------
(* A ClientHello or a client's flight names a connect that took place, and   *)
(* the number of a connect is never given out twice.                         *)
NumberInv ==
    /\ \A c \in Clients :
         /\ client[c].cid <= connects
         /\ client[c].st \in {"hello", "flight"} => client[c].cid >= 1
    /\ \A m \in net : m.kind \in {"ClientHello", "ClientFlight"} =>
         m.src \in Clients /\ m.cid >= 1 /\ m.cid <= connects
    /\ server.cid <= connects
    /\ server.st \in {"flight", "accepted"} => server.peer \in Clients

(* The steps of a client keep the numbers in order.                          *)
LEMMA NumberClient ==
    ASSUME Types, NumberInv, NEW c \in Clients, ClientShape(c)
    PROVE  NumberInv'
<1>0. /\ connects \in Nat /\ client \in [Clients -> ClientState] /\ server.cid \in Nat
      /\ \A d \in Clients : client[d].cid \in Nat
      /\ \A m \in net : m.cid \in Nat
  BY DEF Types, ClientState, ServerState, Datagrams
<1>1. CASE Begins(c)
  <2>1. PICK cl \in ClientState, x \in Datagrams :
          /\ cl.st = "hello" /\ cl.cid = connects + 1
          /\ x.kind = "ClientHello" /\ x.src = c /\ x.cid = connects + 1
          /\ client' = [client EXCEPT ![c] = cl] /\ net' \subseteq net \cup {x}
          /\ connects' = connects + 1 /\ server' = server
    BY <1>1 DEF Begins, Adds
  <2>2. \A d \in Clients : client'[d] = IF d = c THEN cl ELSE client[d]
    BY <1>0, <2>1
  <2>3. \A d \in Clients :
          /\ client'[d].cid <= connects'
          /\ client'[d].st \in {"hello", "flight"} => client'[d].cid >= 1
    BY <1>0, <2>1, <2>2 DEF NumberInv
  <2>4. \A m \in net' : m.kind \in {"ClientHello", "ClientFlight"} =>
          m.src \in Clients /\ m.cid >= 1 /\ m.cid <= connects'
    BY <1>0, <2>1 DEF NumberInv
  <2> QED
    BY <1>0, <2>1, <2>3, <2>4 DEF NumberInv
<1>2. CASE GivesUp(c)
  <2>1. \A d \in Clients : client'[d].cid = client[d].cid
                           /\ (client'[d].st = client[d].st \/ client'[d].st = "failed")
    BY <1>2 DEF GivesUp
  <2>2. connects' = connects /\ server' = server /\ Silent
    BY <1>2 DEF GivesUp
  <2> QED
    BY <2>1, <2>2 DEF NumberInv, Silent
<1>3. CASE Follows(c) \/ Flies(c)
  <2>1. PICK cl \in ClientState, x \in Datagrams :
          /\ client[c].st \in {"hello", "flight"} /\ cl.cid = client[c].cid
          /\ x.src = c /\ x.cid = cl.cid
          /\ client' = [client EXCEPT ![c] = cl] /\ net' \subseteq net \cup {x}
          /\ connects' = connects /\ server' = server
    BY <1>3 DEF Follows, Flies, Adds
  <2>2. \A d \in Clients : client'[d] = IF d = c THEN cl ELSE client[d]
    BY <1>0, <2>1
  <2>3. client[c].cid >= 1 /\ client[c].cid <= connects
    BY <2>1 DEF NumberInv
  <2>4. \A d \in Clients :
          /\ client'[d].cid <= connects'
          /\ client'[d].st \in {"hello", "flight"} => client'[d].cid >= 1
    BY <2>1, <2>2, <2>3 DEF NumberInv
  <2>5. \A m \in net' : m.kind \in {"ClientHello", "ClientFlight"} =>
          m.src \in Clients /\ m.cid >= 1 /\ m.cid <= connects'
    BY <2>1, <2>3 DEF NumberInv
  <2> QED
    BY <2>1, <2>4, <2>5 DEF NumberInv
<1>4. CASE Establishes(c)
  <2>1. client' = [client EXCEPT ![c].st = "established"] /\ Silent
        /\ connects' = connects /\ server' = server
    BY <1>4 DEF Establishes
  <2>2. \A d \in Clients : client'[d].cid = client[d].cid
                           /\ (client'[d].st = client[d].st \/ client'[d].st = "established")
    BY <1>0, <2>1 DEF ClientState
  <2> QED
    BY <2>1, <2>2 DEF NumberInv, Silent
<1>5. CASE Rests
  BY <1>5 DEF Rests, Silent, NumberInv
<1> QED
  BY <1>1, <1>2, <1>3, <1>4, <1>5 DEF ClientShape

(* So do those of the server.                                                *)
LEMMA NumberServer ==
    ASSUME Types, NumberInv, ServerShape
    PROVE  NumberInv'
<1>0. /\ connects \in Nat /\ net \subseteq Datagrams
      /\ \A m \in net : m.cid \in Nat
  BY DEF Types, Datagrams
<1>1. CASE Waits
  <2>1. server'.cid = 0 \/ server'.cid = server.cid
    BY <1>1 DEF Waits
  <2>2. server'.st \notin {"flight", "accepted"}
    BY <1>1 DEF Waits
  <2>3. server'.cid <= connects
    BY <1>0, <2>1 DEF NumberInv
  <2> QED
    BY <1>1, <2>2, <2>3 DEF Waits, Silent, NumberInv
<1>2. CASE Commits
  <2>1. PICK m \in net : m.kind = "ClientHello" /\ server'.peer = m.src /\ server'.cid = m.cid
    BY <1>2 DEF Commits
  <2>2. m.src \in Clients /\ m.cid <= connects
    BY <2>1 DEF NumberInv
  <2> QED
    BY <1>2, <2>1, <2>2 DEF Commits, Silent, NumberInv
<1>3. CASE Accepts
  <2>1. PICK x \in Datagrams : x.kind = "ServerFinished" /\ net' \subseteq net \cup {x}
    BY <1>3 DEF Accepts, Adds
  <2>2. /\ server.st = "flight" /\ server'.peer = server.peer /\ server'.cid = server.cid
        /\ connects' = connects /\ client' = client
    BY <1>3 DEF Accepts
  <2> QED
    BY <2>1, <2>2 DEF NumberInv
<1>4. CASE Rests
  BY <1>4 DEF Rests, Silent, NumberInv
<1> QED
  BY <1>1, <1>2, <1>3, <1>4 DEF ServerShape

(* The cookie of a ClientHello is absent, or was received by its client.     *)
CookieInv ==
    /\ \A m \in net : m.kind = "ClientHello" => m.cookie = NoCookie \/ m.cookie \in verified
    /\ CommitsAfterCookie

(* The cookie invariant survives every step: the cookie a server checks is   *)
(* never the absent one, since accepts are numbered from one.                *)
LEMMA CookieStep ==
    ASSUME Types, CookieInv, (\E c \in Clients : ClientShape(c)) \/ ServerShape
    PROVE  CookieInv'
<1>1. ASSUME NEW c \in Clients, Begins(c) \/ Follows(c)
      PROVE  CookieInv'
  <2>1. PICK x \in Datagrams :
          /\ x.cookie = NoCookie \/ x.cookie \in verified'
          /\ net' \subseteq net \cup {x} /\ verified \subseteq verified' /\ server' = server
    BY <1>1 DEF Begins, Follows, Adds
  <2> QED
    BY <2>1 DEF CookieInv, CommitsAfterCookie
<1>2. ASSUME NEW c \in Clients, GivesUp(c) \/ Establishes(c)
      PROVE  CookieInv'
  BY <1>2 DEF GivesUp, Establishes, Silent, CookieInv, CommitsAfterCookie
<1>3. ASSUME NEW c \in Clients, Flies(c)
      PROVE  CookieInv'
  <2>1. PICK x \in Datagrams : x.kind = "ClientFlight" /\ net' \subseteq net \cup {x}
    BY <1>3 DEF Flies, Adds
  <2>2. verified' = verified /\ server' = server
    BY <1>3 DEF Flies
  <2> QED
    BY <2>1, <2>2 DEF CookieInv, CommitsAfterCookie
<1>4. CASE Rests
  BY <1>4 DEF Rests, Silent, CookieInv, CommitsAfterCookie
<1>5. CASE Waits
  BY <1>5 DEF Waits, Silent, CookieInv, CommitsAfterCookie
<1>6. CASE Commits
  <2>1. PICK m \in net : /\ m.kind = "ClientHello" /\ m.cookie = Cookie(server.sid, m.cid)
                         /\ server'.st = "flight" /\ server'.cid = m.cid
                         /\ server'.sid = server.sid
    BY <1>6 DEF Commits
  <2>2. Cookie(server.sid, m.cid) # NoCookie
    BY DEF Cookie, NoCookie, Types, ServerState
  <2>3. <<server'.sid, server'.cid>> \in verified
    BY <2>1, <2>2 DEF CookieInv, Cookie
  <2> QED
    BY <1>6, <2>1, <2>3 DEF Commits, Silent, CookieInv, CommitsAfterCookie
<1>7. CASE Accepts
  <2>1. PICK x \in Datagrams : x.kind = "ServerFinished" /\ net' \subseteq net \cup {x}
    BY <1>7 DEF Accepts, Adds
  <2>2. /\ server.st = "flight" /\ server'.st = "accepted" /\ server'.sid = server.sid
        /\ server'.cid = server.cid /\ verified' = verified
    BY <1>7 DEF Accepts
  <2> QED
    BY <2>1, <2>2 DEF CookieInv, CommitsAfterCookie
<1> QED
  BY <1>1, <1>2, <1>3, <1>4, <1>5, <1>6, <1>7 DEF ClientShape, ServerShape

-----------------------------------------------------------------------------
(* Whose secret is in a key: a client's own in what it sends and holds, the  *)
(* server's in what it sends; and a Finished on its way belongs to an accept *)
(* that returned a session to the client it is addressed to.                 *)
KeyInv ==
    /\ \A c \in Clients :
         client[c].st \in {"finished", "established"} => client[c].key.psk = psk[c]
    /\ \A m \in net : m.kind = "ServerFinished" =>
         [peer |-> m.dst, key |-> m.key] \in accepted /\ m.key.psk = ServerPsk
    /\ \A m \in net : m.kind = "ClientFlight" => m.key.psk = psk[m.src]
    /\ server.st = "accepted" => psk[server.peer] = ServerPsk
    /\ ClientSessionAgrees

(* The steps of a client keep it.                                            *)
LEMMA KeyClient ==
    ASSUME Types, KeyInv, NEW c \in Clients, ClientShape(c)
    PROVE  KeyInv'
<1>0. client \in [Clients -> ClientState]
  BY DEF Types
<1>1. CASE Begins(c) \/ Follows(c)
  <2>1. PICK cl \in ClientState, x \in Datagrams :
          /\ cl.st \in {"hello", "flight"} /\ x.kind = "ClientHello"
          /\ client' = [client EXCEPT ![c] = cl] /\ net' \subseteq net \cup {x}
          /\ psk' = psk /\ server' = server /\ accepted' = accepted
    BY <1>1 DEF Begins, Follows, Adds
  <2>2. \A d \in Clients : client'[d] = IF d = c THEN cl ELSE client[d]
    BY <1>0, <2>1
  <2> QED
    BY <2>1, <2>2 DEF KeyInv, ClientSessionAgrees
<1>2. CASE GivesUp(c)
  <2>1. \A d \in Clients : client'[d] = client[d] \/ client'[d].st = "failed"
    BY <1>2 DEF GivesUp
  <2>2. psk' = psk /\ server' = server /\ accepted' = accepted /\ Silent
    BY <1>2 DEF GivesUp
  <2> QED
    BY <2>1, <2>2 DEF KeyInv, ClientSessionAgrees, Silent
<1>3. CASE Flies(c)
  <2>1. PICK cl \in ClientState, x \in Datagrams :
          /\ cl.st = "finished" /\ x.kind = "ClientFlight" /\ x.src = c
          /\ x.key = cl.key /\ cl.key.psk = psk[c]
          /\ client' = [client EXCEPT ![c] = cl] /\ net' \subseteq net \cup {x}
          /\ psk' = psk /\ server' = server /\ accepted' = accepted
    BY <1>3 DEF Flies, Adds
  <2>2. \A d \in Clients : client'[d] = IF d = c THEN cl ELSE client[d]
    BY <1>0, <2>1
  <2> QED
    BY <2>1, <2>2 DEF KeyInv, ClientSessionAgrees
<1>4. CASE Establishes(c)
  <2>1. PICK m \in net :
          /\ m.dst = c /\ m.kind = "ServerFinished"
          /\ client[c].st = "finished" /\ m.key = client[c].key
          /\ client' = [client EXCEPT ![c].st = "established"] /\ Silent
          /\ psk' = psk /\ server' = server /\ accepted' = accepted
    BY <1>4 DEF Establishes
  <2>2. [peer |-> c, key |-> client[c].key] \in accepted /\ psk[c] = ServerPsk
    BY <2>1 DEF KeyInv
  <2>3. \A d \in Clients :
          /\ client'[d].key = client[d].key
          /\ client'[d].st = IF d = c THEN "established" ELSE client[d].st
    BY <1>0, <2>1 DEF ClientState
  <2>4. \A d \in Clients :
          client'[d].st \in {"finished", "established"} => client'[d].key.psk = psk'[d]
    BY <2>1, <2>3 DEF KeyInv
  <2>5. ClientSessionAgrees'
    BY <2>1, <2>2, <2>3 DEF KeyInv, ClientSessionAgrees
  <2> QED
    BY <2>1, <2>4, <2>5 DEF KeyInv, Silent
<1>5. CASE Rests
  BY <1>5 DEF Rests, Silent, KeyInv, ClientSessionAgrees
<1> QED
  BY <1>1, <1>2, <1>3, <1>4, <1>5 DEF ClientShape

(* So do those of the server: the key it accepts is its peer's.              *)
LEMMA KeyServer ==
    ASSUME Types, KeyInv, ServerShape
    PROVE  KeyInv'
<1>1. CASE Waits \/ Commits
  <2>1. /\ server'.st # "accepted" /\ Silent
        /\ psk' = psk /\ client' = client /\ accepted' = accepted
    BY <1>1 DEF Waits, Commits
  <2> QED
    BY <2>1 DEF KeyInv, ClientSessionAgrees, Silent
<1>2. CASE Accepts
  <2>1. PICK m \in net, x \in Datagrams :
          /\ m.kind = "ClientFlight" /\ m.src = server.peer /\ m.key = ServerKey
          /\ server'.peer = server.peer
          /\ accepted' = accepted \cup {[peer |-> server.peer, key |-> ServerKey]}
          /\ x.kind = "ServerFinished" /\ x.dst = server.peer /\ x.key = ServerKey
          /\ net' \subseteq net \cup {x} /\ psk' = psk /\ client' = client
    BY <1>2 DEF Accepts, Adds
  <2>2. ServerKey.psk = ServerPsk
    BY DEF ServerKey
  <2>3. psk'[server'.peer] = ServerPsk
    BY <2>1, <2>2 DEF KeyInv
  <2>4. \A n \in net' : n.kind = "ServerFinished" =>
          [peer |-> n.dst, key |-> n.key] \in accepted' /\ n.key.psk = ServerPsk
    BY <2>1, <2>2 DEF KeyInv
  <2> QED
    BY <2>1, <2>3, <2>4 DEF KeyInv, ClientSessionAgrees
<1>3. CASE Rests
  BY <1>3 DEF Rests, Silent, KeyInv, ClientSessionAgrees
<1> QED
  BY <1>1, <1>2, <1>3 DEF ServerShape

-----------------------------------------------------------------------------
(* A client's flight tells the state of its sender, as long as the sender is *)
(* in the same connect and has not failed.                                   *)
FlightInv ==
    \A m \in net : m.kind = "ClientFlight" =>
      LET cl == client[m.src]
      IN  cl.cid = m.cid /\ cl.st # "failed" =>
            /\ cl.st \in {"finished", "established"}
            /\ cl.key = m.key
            /\ cl.transcript = Append(m.transcript, FinishedMessage(m.key))

TranscriptInv == FlightInv /\ ServerSessionAgrees

(* The steps of a client keep it: a new connect has a new number, and in one *)
(* connect a client sends its flight once.                                   *)
LEMMA TranscriptClient ==
    ASSUME Types, NumberInv, TranscriptInv, NEW c \in Clients, ClientShape(c)
    PROVE  TranscriptInv'
<1>0. /\ client \in [Clients -> ClientState] /\ connects \in Nat /\ server.cid \in Nat
      /\ \A m \in net : m.cid \in Nat
  BY DEF Types, ServerState, Datagrams
<1>1. CASE Begins(c)
  <2>1. PICK cl \in ClientState, x \in Datagrams :
          /\ cl.cid = connects + 1 /\ x.kind = "ClientHello"
          /\ client' = [client EXCEPT ![c] = cl] /\ net' \subseteq net \cup {x}
          /\ psk' = psk /\ server' = server
    BY <1>1 DEF Begins, Adds
  <2>2. \A d \in Clients : client'[d] = IF d = c THEN cl ELSE client[d]
    BY <1>0, <2>1
  <2>3. FlightInv'
    <3> SUFFICES ASSUME NEW m \in net, m.kind = "ClientFlight",
                        client'[m.src].cid = m.cid, client'[m.src].st # "failed"
                 PROVE  /\ client'[m.src].st \in {"finished", "established"}
                        /\ client'[m.src].key = m.key
                        /\ client'[m.src].transcript
                             = Append(m.transcript, FinishedMessage(m.key))
      BY <2>1 DEF FlightInv
    <3>1. m.src \in Clients /\ m.cid <= connects
      BY DEF NumberInv
    <3>2. m.src # c
      BY <1>0, <2>1, <2>2, <3>1
    <3> QED
      BY <2>2, <3>1, <3>2 DEF TranscriptInv, FlightInv
  <2>4. server.st = "accepted" => server.peer \in Clients /\ server.cid <= connects
    BY DEF NumberInv
  <2>5. ServerSessionAgrees'
    BY <1>0, <2>1, <2>2, <2>4 DEF TranscriptInv, ServerSessionAgrees
  <2> QED
    BY <2>3, <2>5 DEF TranscriptInv
<1>2. CASE Follows(c) \/ Flies(c)
  <2>1. PICK cl \in ClientState, x \in Datagrams :
          /\ client[c].st \in {"hello", "flight"} /\ cl.cid = client[c].cid
          /\ x.kind = "ClientHello" \/
               /\ x.kind = "ClientFlight" /\ x.src = c /\ cl.st = "finished" /\ x.key = cl.key
               /\ cl.transcript = Append(x.transcript, FinishedMessage(x.key))
          /\ client' = [client EXCEPT ![c] = cl] /\ net' \subseteq net \cup {x}
          /\ psk' = psk /\ server' = server
    BY <1>2 DEF Follows, Flies, Adds
  <2>2. \A d \in Clients : client'[d] = IF d = c THEN cl ELSE client[d]
    BY <1>0, <2>1
  <2>3. ASSUME NEW m \in net, m.kind = "ClientFlight", m.src = c
        PROVE  m.cid # cl.cid
    BY <2>1, <2>3 DEF TranscriptInv, FlightInv
  <2>4. FlightInv'
    <3> SUFFICES ASSUME NEW m \in net', m.kind = "ClientFlight",
                        client'[m.src].cid = m.cid, client'[m.src].st # "failed"
                 PROVE  /\ client'[m.src].st \in {"finished", "established"}
                        /\ client'[m.src].key = m.key
                        /\ client'[m.src].transcript
                             = Append(m.transcript, FinishedMessage(m.key))
      BY DEF FlightInv
    <3>1. CASE m \in net
      <4>1. m.src \in Clients
        BY <3>1 DEF NumberInv
      <4>2. m.src # c
        BY <2>2, <2>3, <3>1
      <4> QED
        BY <2>2, <3>1, <4>1, <4>2 DEF TranscriptInv, FlightInv
    <3>2. CASE m = x
      BY <2>1, <2>2, <3>2
    <3> QED
      BY <2>1, <3>1, <3>2
  <2>5. server.st = "accepted" => server.peer \in Clients
    BY DEF NumberInv
  <2>6. ServerSessionAgrees'
    BY <2>1, <2>2, <2>5 DEF TranscriptInv, ServerSessionAgrees
  <2> QED
    BY <2>4, <2>6 DEF TranscriptInv
<1>3. CASE GivesUp(c) \/ Establishes(c)
  <2>1. Silent /\ psk' = psk /\ server' = server
    BY <1>3 DEF GivesUp, Establishes
  <2>2. \A d \in Clients :
          \/ client'[d].st = "failed"
          \/ client'[d] = client[d]
          \/ /\ client[d].st = "finished" /\ client'[d].st = "established"
             /\ client'[d].cid = client[d].cid /\ client'[d].key = client[d].key
             /\ client'[d].transcript = client[d].transcript
    BY <1>0, <1>3 DEF GivesUp, Establishes, ClientState
  <2>3. /\ \A m \in net : m.kind = "ClientFlight" => m.src \in Clients
        /\ server.st = "accepted" => server.peer \in Clients
    BY DEF NumberInv
  <2>4. FlightInv'
    BY <2>1, <2>2, <2>3 DEF TranscriptInv, FlightInv, Silent
  <2>5. ServerSessionAgrees'
    BY <2>1, <2>2, <2>3 DEF TranscriptInv, ServerSessionAgrees
  <2> QED
    BY <2>4, <2>5 DEF TranscriptInv
<1>4. CASE Rests
  BY <1>4 DEF Rests, Silent, TranscriptInv, FlightInv, ServerSessionAgrees
<1> QED
  BY <1>1, <1>2, <1>3, <1>4 DEF ClientShape

(* So do those of the server: it accepts the flight of the attempt it        *)
(* committed to, which is where its sender's state is told.                  *)
LEMMA TranscriptServer ==
    ASSUME Types, NumberInv, KeyInv', TranscriptInv, ServerShape
    PROVE  TranscriptInv'
<1>1. CASE Waits \/ Commits
  <2>1. server'.st # "accepted" /\ Silent /\ client' = client
    BY <1>1 DEF Waits, Commits
  <2> QED
    BY <2>1 DEF TranscriptInv, FlightInv, ServerSessionAgrees, Silent
<1>2. CASE Accepts
  <2>1. PICK m \in net, x \in Datagrams :
          /\ m.kind = "ClientFlight" /\ m.src = server.peer /\ m.cid = server.cid
          /\ m.key = ServerKey /\ m.transcript = ServerTranscript
          /\ server'.peer = server.peer /\ server'.cid = server.cid /\ server'.key = ServerKey
          /\ server'.transcript = FinishedTranscript
          /\ server'.st = "accepted"
          /\ x.kind = "ServerFinished"
          /\ net' \subseteq net \cup {x} /\ client' = client
    BY <1>2 DEF Accepts, Adds
  <2>2. FlightInv'
    BY <2>1 DEF TranscriptInv, FlightInv
  <2>3. FinishedTranscript = Append(m.transcript, FinishedMessage(m.key))
    BY <2>1 DEF FinishedTranscript
  <2>4. psk'[server'.peer] = ServerPsk
    BY <2>1 DEF KeyInv
  <2>5. client[m.src].cid = m.cid /\ client[m.src].st # "failed" =>
          /\ client[m.src].st \in {"finished", "established"}
          /\ client[m.src].key = m.key
          /\ client[m.src].transcript = Append(m.transcript, FinishedMessage(m.key))
    BY <2>1 DEF TranscriptInv, FlightInv
  <2>6. ServerSessionAgrees'
    BY <2>1, <2>3, <2>4, <2>5 DEF ServerSessionAgrees
  <2> QED
    BY <2>2, <2>6 DEF TranscriptInv
<1>3. CASE Rests
  BY <1>3 DEF Rests, Silent, TranscriptInv, FlightInv, ServerSessionAgrees
<1> QED
  BY <1>1, <1>2, <1>3 DEF ServerShape

-----------------------------------------------------------------------------
(* The inductive invariant.                                                  *)
HandshakeInv == Types /\ NumberInv /\ CookieInv /\ KeyInv /\ TranscriptInv

(* It holds before the first connect and the first accept.                   *)
LEMMA HandshakeStart == Init => HandshakeInv
<1> SUFFICES ASSUME Init PROVE HandshakeInv
  OBVIOUS
<1>0. /\ net = {} /\ accepted = {} /\ connects = 0 /\ psk \in [Clients -> Psk]
      /\ server.st = "cookie" /\ server.cid = 0 /\ server.peer = Server
      /\ server.transcript = <<>>
      /\ \A c \in Clients : client[c].st = "idle" /\ client[c].cid = 0
  BY PskAssumption DEF Init, Accepting, NoClient
<1>1. Types
  BY TypesStart
<1>2. NumberInv
  BY <1>0 DEF NumberInv
<1>3. CookieInv
  BY <1>0 DEF CookieInv, CommitsAfterCookie
<1>4. KeyInv
  BY <1>0 DEF KeyInv, ClientSessionAgrees
<1>5. TranscriptInv
  BY <1>0 DEF TranscriptInv, FlightInv, ServerSessionAgrees
<1> QED
  BY <1>1, <1>2, <1>3, <1>4, <1>5 DEF HandshakeInv

(* Every step preserves it, layer by layer.                                  *)
LEMMA HandshakeStep == HandshakeInv /\ [Next]_vars => HandshakeInv'
<1> SUFFICES ASSUME HandshakeInv, [Next]_vars PROVE HandshakeInv'
  OBVIOUS
<1>0. Types /\ NumberInv /\ CookieInv /\ KeyInv /\ TranscriptInv
  BY DEF HandshakeInv
<1>1. Types'
  BY <1>0, TypesStep
<1>2. (\E c \in Clients : ClientShape(c)) \/ ServerShape
  BY <1>0, Shapes
<1>3. CookieInv'
  BY <1>0, <1>2, CookieStep
<1>4. CASE \E c \in Clients : ClientShape(c)
  <2>1. PICK c \in Clients : ClientShape(c)
    BY <1>4
  <2>2. NumberInv'
    BY <1>0, <2>1, NumberClient
  <2>3. KeyInv'
    BY <1>0, <2>1, KeyClient
  <2>4. TranscriptInv'
    BY <1>0, <2>1, TranscriptClient
  <2> QED
    BY <1>1, <1>3, <2>2, <2>3, <2>4 DEF HandshakeInv
<1>5. CASE ServerShape
  <2>1. NumberInv'
    BY <1>0, <1>5, NumberServer
  <2>2. KeyInv'
    BY <1>0, <1>5, KeyServer
  <2>3. TranscriptInv'
    BY <1>0, <1>5, <2>2, TranscriptServer
  <2> QED
    BY <1>1, <1>3, <2>1, <2>2, <2>3 DEF HandshakeInv
<1> QED
  BY <1>2, <1>4, <1>5

(* What it says of one state.                                                *)
LEMMA HandshakeConsequences ==
    HandshakeInv => TypeOK /\ CommitsAfterCookie /\ ClientSessionAgrees /\ ServerSessionAgrees
<1> SUFFICES ASSUME HandshakeInv
             PROVE  TypeOK /\ CommitsAfterCookie /\ ClientSessionAgrees /\ ServerSessionAgrees
  OBVIOUS
<1>1. CommitsAfterCookie /\ ClientSessionAgrees /\ ServerSessionAgrees
  BY DEF HandshakeInv, CookieInv, KeyInv, TranscriptInv
<1>2. Types /\ NumberInv
  BY DEF HandshakeInv
<1>3. ASSUME NEW c \in Clients
      PROVE  /\ client[c].st
                  \in {"idle", "hello", "flight", "finished", "established", "failed"}
             /\ client[c].cid \in 0..connects /\ client[c].seq \in 0..1
  <2>1. /\ client[c] \in ClientState /\ connects \in Nat /\ client[c].seq <= 1
        /\ client[c].cid <= connects
    BY <1>2 DEF Types, NumberInv
  <2> QED
    BY <2>1 DEF ClientState
<1>4. /\ server.st \in {"cookie", "flight", "accepted", "failed"}
      /\ server.sid \in Nat \ {0} /\ server.peer \in Clients \cup {Server}
      /\ connects \in Nat /\ faults \in 0..MaxFaults
  BY <1>2 DEF Types, ServerState, Address
<1> QED
  BY <1>1, <1>3, <1>4 DEF TypeOK

(* The handshake's variables keep their types, for any number of clients,    *)
(* connects, accepts and network faults.                                     *)
THEOREM HandshakeTypes == Spec => []TypeOK
BY HandshakeStart, HandshakeStep, HandshakeConsequences, PTL DEF Spec

(* The server holds nothing of a client before that client returned this     *)
(* accept's cookie (server_driver.rs:25).                                    *)
THEOREM ServerCommitsAfterCookie == Spec => []CommitsAfterCookie
BY HandshakeStart, HandshakeStep, HandshakeConsequences, PTL DEF Spec

(* A connect that returns a session has an accept that returned one with the *)
(* same key to that client, who knows the server's secret, whatever was      *)
(* lost, repeated or left over from another attempt (client_driver.rs:388).  *)
THEOREM ConnectImpliesAccept == Spec => []ClientSessionAgrees
BY HandshakeStart, HandshakeStep, HandshakeConsequences, PTL DEF Spec

(* An accept that returns a session has a client that knows the secret and,  *)
(* in the same attempt, waits or goes on with the same key and transcript    *)
(* (server_driver.rs:285-290).                                               *)
THEOREM AcceptImpliesConnect == Spec => []ServerSessionAgrees
BY HandshakeStart, HandshakeStep, HandshakeConsequences, PTL DEF Spec

================================================================================
