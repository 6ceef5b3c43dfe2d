----------------------------- MODULE DtlsHandshake -----------------------------
(***************************************************************************)
(* The DTLS handshake between thread-dtls's two drivers: clients that run  *)
(* connect_with_rng (client_driver.rs) against one server that runs        *)
(* accept_with_rng (server_driver.rs), with the handshake state they keep  *)
(* (thread_handshake.rs, thread_server_handshake.rs, the cookie retry of   *)
(* hello.rs), over a network that loses, repeats, delays and damages       *)
(* datagrams.  Neither driver retransmits; a wait ends with a datagram, an *)
(* error or its timeout.                                                   *)
(*                                                                         *)
(* A flight travels in one datagram, so a datagram is a flight:            *)
(*   ClientHello, HelloVerifyRequest,                                      *)
(*   ServerFlight  = ServerHello, ServerKeyExchange, ServerHelloDone,      *)
(*   ClientFlight  = ClientKeyExchange, ChangeCipherSpec, Finished,        *)
(*   ServerFinished = ChangeCipherSpec, Finished,                          *)
(*   Alert, and Garbled for one that does not parse.                       *)
(*                                                                         *)
(* Cryptography is symbolic.  `cid' is the randomness of one connect (the  *)
(* client random and its EC J-PAKE scalars), `sid' that of one accept (the *)
(* cookie key, the server random and its scalars).  A round-two payload is *)
(* valid only between the two round-one payloads it was made for; the two  *)
(* ends derive the same key exactly from the same cid, sid and secret; a   *)
(* Finished verifies under its key for its transcript only.                *)
(***************************************************************************)
EXTENDS Naturals, Sequences, FiniteSets

CONSTANTS
    Clients,      \* the client addresses
    Server,       \* the server's address
    Psk,          \* the secrets (PSKc or PSKd)
    ServerPsk,    \* the server's
    ClientPsks,   \* the assignments of secrets to clients to consider
    MaxConnects,  \* bound on connects
    MaxAccepts,   \* bound on accepts
    MaxFaults     \* bound on network faults and impatient timeouts

ASSUME ServerAssumption == Server \notin Clients
ASSUME BoundAssumption == {MaxConnects, MaxAccepts, MaxFaults} \subseteq Nat
ASSUME PskAssumption == ServerPsk \in Psk /\ ClientPsks \subseteq [Clients -> Psk]

VARIABLES
    psk,       \* psk[c]: the secret client c was given
    client,    \* client[c]: one client driver
    server,    \* the server driver
    net,       \* the datagrams in flight
    connects,  \* the number of connects so far: the last cid in use
    faults,    \* the number of faults so far
    accepted,  \* history: what each successful accept returned, and to whom
    verified   \* history: the <<sid, cid>> whose cookie its client received

vars == <<psk, client, server, net, connects, faults, accepted, verified>>

-----------------------------------------------------------------------------
NoKey == [cid |-> 0, sid |-> 0, psk |-> ServerPsk]

NoCookie == <<0, 0>>

(* DtlsCookieGenerator::cookie: bound to the accept and the client random.   *)
Cookie(sid, cid) == <<sid, cid>>

Datagram(src, dst, kind) ==
    [src |-> src, dst |-> dst, kind |-> kind, cid |-> 0, sid |-> 0, seq |-> 0, rec |-> 0,
     cookie |-> NoCookie, key |-> NoKey, transcript |-> <<>>]

ClientHello(c, cl) ==
    [Datagram(c, Server, "ClientHello") EXCEPT
       !.cid = cl.cid, !.seq = cl.seq, !.cookie = cl.cookie]

HelloVerifyRequest(m) ==
    [Datagram(Server, m.src, "HelloVerifyRequest") EXCEPT
       !.seq = m.seq, !.rec = server.rec, !.cookie = Cookie(server.sid, m.cid)]

(* The handshake messages the transcript hash covers.                        *)
Hello(cid, cookie) == <<"ClientHello", cid, cookie>>

Flight(sid, cid) ==
    <<<<"ServerHello", sid>>, <<"ServerKeyExchange", sid, cid>>, <<"ServerHelloDone", sid>>>>

KeyExchange(cid, sid) == <<"ClientKeyExchange", cid, sid>>

FinishedMessage(key) == <<"Finished", key>>

ServerFlight(peer, cid) ==
    [Datagram(Server, peer, "ServerFlight") EXCEPT !.sid = server.sid, !.cid = cid]

-----------------------------------------------------------------------------
NoClient == [st |-> "idle", cid |-> 0, seq |-> 0, cookie |-> NoCookie,
             key |-> NoKey, transcript |-> <<>>]

Waiting(c) == client[c].st \in {"hello", "flight", "finished"}

Accepting(sid) == [st |-> "cookie", sid |-> sid, rec |-> 0, peer |-> Server, cid |-> 0,
                   key |-> NoKey, transcript |-> <<>>]

ServerWaiting == server.st \in {"cookie", "flight"}

Init ==
    /\ psk \in ClientPsks
    /\ client = [c \in Clients |-> NoClient]
    /\ server = Accepting(1)
    /\ net = {}
    /\ connects = 0
    /\ faults = 0
    /\ accepted = {}
    /\ verified = {}

-----------------------------------------------------------------------------
(* The network.  A datagram that is taken may be repeated: it stays.         *)

Take(m, sent) ==
    \/ net' = (net \ {m}) \cup sent /\ UNCHANGED faults
    \/ faults < MaxFaults /\ net' = net \cup sent /\ faults' = faults + 1

Lose ==
    /\ faults < MaxFaults
    /\ \E m \in net : net' = net \ {m}
    /\ faults' = faults + 1
    /\ UNCHANGED <<psk, client, server, connects, accepted, verified>>

Damage ==
    /\ faults < MaxFaults
    /\ \E m \in net : m.kind # "Garbled"
         /\ net' = (net \ {m}) \cup {Datagram(m.src, m.dst, "Garbled")}
    /\ faults' = faults + 1
    /\ UNCHANGED <<psk, client, server, connects, accepted, verified>>

-----------------------------------------------------------------------------
(* The client: connect_with_rng up to its first wait.                        *)

Connect(c) ==
    /\ client[c].st \in {"idle", "failed"}
    /\ connects < MaxConnects
    /\ connects' = connects + 1
    /\ LET cl == [NoClient EXCEPT !.st = "hello", !.cid = connects + 1]
       IN  /\ client' = [client EXCEPT ![c] = cl]
           /\ net' = net \cup {ClientHello(c, cl)}
    /\ UNCHANGED <<psk, server, faults, accepted, verified>>

ClientFails(c) == client' = [client EXCEPT ![c] = [NoClient EXCEPT !.st = "failed", !.cid = client[c].cid]]

ClientStays == UNCHANGED client

(* wait_for_hello_verify: the cookie answers the ClientHello last sent; the  *)
(* second ClientHello starts the transcript.                                 *)
HelloVerified(c, m) ==
    LET cl == [client[c] EXCEPT !.st = "flight", !.seq = @ + 1, !.cookie = m.cookie,
                                !.transcript = <<Hello(client[c].cid, m.cookie)>>]
    IN  /\ client' = [client EXCEPT ![c] = cl]
        /\ Take(m, {ClientHello(c, cl)})
        /\ verified' = verified \cup {m.cookie}
        /\ UNCHANGED <<psk, server, connects, accepted>>

ClientGetsHelloVerify(c, m) ==
    /\ m.dst = c /\ m.kind = "HelloVerifyRequest"
    /\ \/ client[c].st = "hello" /\ m.seq = client[c].seq /\ HelloVerified(c, m)
       \/ /\ \/ client[c].st = "hello" /\ m.seq # client[c].seq
             \/ client[c].st = "flight"
          /\ ClientFails(c)
          /\ Take(m, {})
          /\ UNCHANGED <<psk, server, connects, accepted, verified>>
       \/ /\ client[c].st = "finished"
          /\ ClientStays
          /\ Take(m, {})
          /\ UNCHANGED <<psk, server, connects, accepted, verified>>

(* build_client_key_exchange, derive_key_material and build_client_finished: *)
(* round two of another pair of handshakes does not verify.                  *)
ClientFlightFrom(c, m) ==
    LET cl == client[c]
        t  == cl.transcript \o Flight(m.sid, m.cid) \o <<KeyExchange(cl.cid, m.sid)>>
        k  == [cid |-> cl.cid, sid |-> m.sid, psk |-> psk[c]]
    IN  /\ client' = [client EXCEPT ![c] = [cl EXCEPT !.st = "finished", !.key = k,
                                             !.transcript = Append(t, FinishedMessage(k))]]
        /\ Take(m, {[Datagram(c, Server, "ClientFlight") EXCEPT
                       !.cid = cl.cid, !.sid = m.sid, !.key = k, !.transcript = t]})

ClientGetsServerFlight(c, m) ==
    /\ m.dst = c /\ m.kind = "ServerFlight"
    /\ \/ client[c].st = "flight" /\ m.cid = client[c].cid /\ ClientFlightFrom(c, m)
       \/ client[c].st = "flight" /\ m.cid # client[c].cid /\ ClientFails(c) /\ Take(m, {})
       \/ client[c].st \in {"hello", "finished"} /\ ClientStays /\ Take(m, {})
    /\ UNCHANGED <<psk, server, connects, accepted, verified>>

(* Fault: an encrypted Finished is taken without being verified. *)
ClientGetsFinishedUnchecked(c, m) ==
    /\ m.dst = c /\ m.kind = "ServerFinished"
    /\ Waiting(c)
    /\ client[c].st = "finished"
    /\ client' = [client EXCEPT ![c].st = "established"]
    /\ Take(m, {})
    /\ UNCHANGED <<psk, server, connects, accepted, verified>>

(* wait_for_server_finished.  The earlier waits parse every handshake record *)
(* as plain text, and an encrypted one is an error to them.                  *)
ClientGetsFinished(c, m) ==
    /\ m.dst = c /\ m.kind = "ServerFinished"
    /\ Waiting(c)
    /\ IF client[c].st = "finished" /\ m.key = client[c].key
          /\ m.transcript = client[c].transcript
       THEN client' = [client EXCEPT ![c].st = "established"]
       ELSE ClientFails(c)
    /\ Take(m, {})
    /\ UNCHANGED <<psk, server, connects, accepted, verified>>

ClientGetsError(c, m) ==
    /\ m.dst = c /\ m.kind \in {"Alert", "Garbled"}
    /\ Waiting(c)
    /\ ClientFails(c)
    /\ Take(m, {})
    /\ UNCHANGED <<psk, server, connects, accepted, verified>>

ClientReceives(c) ==
    \E m \in net : \/ ClientGetsHelloVerify(c, m)
                   \/ ClientGetsServerFlight(c, m)
                   \/ ClientGetsFinished(c, m)
                   \/ ClientGetsError(c, m)

-----------------------------------------------------------------------------
(* The server: accept_with_rng.  Its caller may accept again with the        *)
(* transport of a failed accept, or of a session it gives up.                *)

Accept ==
    /\ server.st \in {"failed", "accepted"}
    /\ server.sid < MaxAccepts
    /\ server' = Accepting(server.sid + 1)
    /\ UNCHANGED <<psk, client, net, connects, faults, accepted, verified>>

ServerFails == server' = [Accepting(server.sid) EXCEPT !.st = "failed", !.rec = server.rec]

ServerAlert == [Datagram(Server, server.peer, "Alert") EXCEPT !.sid = server.sid]

(* Fault: any cookie will do. *)
ServerGetsHelloUnchecked(m) ==
    /\ server.st = "cookie" /\ m.dst = Server /\ m.kind = "ClientHello"
    /\ server' = [server EXCEPT !.st = "flight", !.peer = m.src, !.cid = m.cid,
                                !.transcript = <<Hello(m.cid, m.cookie)>> \o Flight(server.sid, m.cid)]
    /\ Take(m, {ServerFlight(m.src, m.cid)})
    /\ UNCHANGED <<psk, client, connects, accepted, verified>>

(* Fault: the cookie key changes with every datagram. *)
ServerGetsHelloNewKey(m) ==
    /\ server.st = "cookie" /\ m.dst = Server /\ m.kind = "ClientHello"
    /\ server' = [server EXCEPT !.rec = @ + 1]
    /\ Take(m, {HelloVerifyRequest(m)})
    /\ UNCHANGED <<psk, client, connects, accepted, verified>>

(* The cookie loop: without the cookie a ClientHello is answered and         *)
(* forgotten, with it the server commits to its sender.                      *)
ServerGetsHello(m) ==
    /\ server.st = "cookie" /\ m.dst = Server /\ m.kind = "ClientHello"
    /\ IF m.cookie = Cookie(server.sid, m.cid)
       THEN /\ server' = [server EXCEPT !.st = "flight", !.peer = m.src, !.cid = m.cid,
                            !.transcript = <<Hello(m.cid, m.cookie)>> \o Flight(server.sid, m.cid)]
            /\ Take(m, {ServerFlight(m.src, m.cid)})
       ELSE /\ server' = [server EXCEPT !.rec = @ + 1]
            /\ Take(m, {HelloVerifyRequest(m)})
    /\ UNCHANGED <<psk, client, connects, accepted, verified>>

(* Once committed the server ignores other sources, and anything but a       *)
(* ClientKeyExchange in a handshake record of its peer is an error.          *)
ServerGetsLateHello(m) ==
    /\ server.st = "flight" /\ m.dst = Server /\ m.kind = "ClientHello"
    /\ IF m.src = server.peer THEN ServerFails ELSE UNCHANGED server
    /\ Take(m, {})
    /\ UNCHANGED <<psk, client, connects, accepted, verified>>

(* handle_client_key_exchange and derive_key_material, then the Finished:    *)
(* it must open under the derived key and match the transcript, otherwise    *)
(* the server sends a fatal alert.                                           *)
ServerKey == [cid |-> server.cid, sid |-> server.sid, psk |-> ServerPsk]

ServerTranscript == Append(server.transcript, KeyExchange(server.cid, server.sid))

Finishes(m) ==
    LET t == Append(ServerTranscript, FinishedMessage(ServerKey))
    IN  /\ server' = [server EXCEPT !.st = "accepted", !.key = ServerKey, !.transcript = t]
        /\ accepted' = accepted \cup {[peer |-> server.peer, key |-> ServerKey]}
        /\ Take(m, {[Datagram(Server, server.peer, "ServerFinished") EXCEPT
                       !.sid = server.sid, !.key = ServerKey, !.transcript = t]})

(* Fault: a Finished that opens is not compared with the transcript or key. *)
ServerGetsClientFlightUnchecked(m) ==
    /\ server.st = "flight" /\ m.dst = Server /\ m.kind = "ClientFlight"
    /\ m.src = server.peer
    /\ Finishes(m)
    /\ UNCHANGED <<psk, client, connects, verified>>

ServerGetsClientFlight(m) ==
    /\ server.st = "flight" /\ m.dst = Server /\ m.kind = "ClientFlight"
    /\ \/ /\ m.src = server.peer /\ m.sid = server.sid /\ m.cid = server.cid
          /\ m.key = ServerKey /\ m.transcript = ServerTranscript
          /\ Finishes(m)
       \/ /\ m.src = server.peer /\ m.sid = server.sid /\ m.cid = server.cid
          /\ ~(m.key = ServerKey /\ m.transcript = ServerTranscript)
          /\ ServerFails /\ Take(m, {ServerAlert}) /\ UNCHANGED accepted
       \/ /\ m.src = server.peer /\ ~(m.sid = server.sid /\ m.cid = server.cid)
          /\ ServerFails /\ Take(m, {}) /\ UNCHANGED accepted
       \/ m.src # server.peer /\ UNCHANGED <<psk, server, accepted>> /\ Take(m, {})
    /\ UNCHANGED <<psk, client, connects, verified>>

(* In the cookie loop everything but a ClientHello is skipped.               *)
ServerSkips(m) ==
    /\ server.st = "cookie" /\ m.dst = Server /\ m.kind = "ClientFlight"
    /\ Take(m, {})
    /\ UNCHANGED <<psk, client, server, connects, accepted, verified>>

(* recv_records fails on a datagram that does not parse, whoever sent it.    *)
ServerGetsError(m) ==
    /\ ServerWaiting /\ m.dst = Server /\ m.kind = "Garbled"
    /\ ServerFails
    /\ Take(m, {})
    /\ UNCHANGED <<psk, client, connects, accepted, verified>>

ServerReceives ==
    \E m \in net : \/ ServerGetsHello(m)
                   \/ ServerGetsLateHello(m)
                   \/ ServerGetsClientFlight(m)
                   \/ ServerSkips(m)
                   \/ ServerGetsError(m)

-----------------------------------------------------------------------------
(* Timeouts.  With nothing left to wait for a timeout is the only way on;    *)
(* while a datagram is still on its way it is the network that was too slow, *)
(* which counts as a fault, as does a server nobody came to.                 *)

Quiet == \A m \in net : /\ m.dst = Server => ~ServerWaiting
                        /\ \A c \in Clients : m.dst = c => ~Waiting(c)

Impatient(natural) ==
    IF natural THEN UNCHANGED faults ELSE faults < MaxFaults /\ faults' = faults + 1

(* Fault: the wait for the server's Finished has no timeout. *)
ClientTimeoutNotLast(c) ==
    /\ client[c].st \in {"hello", "flight"}
    /\ Impatient(Quiet)
    /\ ClientFails(c)
    /\ UNCHANGED <<psk, server, net, connects, accepted, verified>>

ClientTimeout(c) ==
    /\ Waiting(c)
    /\ Impatient(Quiet)
    /\ ClientFails(c)
    /\ UNCHANGED <<psk, server, net, connects, accepted, verified>>

ServerTimeout ==
    /\ ServerWaiting
    /\ Impatient(Quiet /\ server.st = "flight")
    /\ ServerFails
    /\ UNCHANGED <<psk, client, net, connects, accepted, verified>>

Next ==
    \/ \E c \in Clients : Connect(c) \/ ClientReceives(c) \/ ClientTimeout(c)
    \/ Accept \/ ServerReceives \/ ServerTimeout
    \/ Lose \/ Damage

Spec == Init /\ [][Next]_vars

(* What is on its way arrives unless it is lost, a driver that has a         *)
(* datagram takes it, and the timer of a wait that nothing will answer runs  *)
(* out.  A server that nobody came to, or a timer too short for the network, *)
(* need not.                                                                 *)
FairSpec ==
    /\ Spec
    /\ WF_vars(ServerReceives)
    /\ WF_vars(ServerTimeout /\ UNCHANGED faults)
    /\ \A c \in Clients : /\ WF_vars(ClientReceives(c))
                          /\ WF_vars(ClientTimeout(c) /\ UNCHANGED faults)

-----------------------------------------------------------------------------
(* Properties.                                                               *)

(* Every variable has its type.                                              *)
TypeOK ==
    /\ \A c \in Clients :
         /\ client[c].st \in {"idle", "hello", "flight", "finished", "established", "failed"}
         /\ client[c].cid \in 0..connects
         /\ client[c].seq \in 0..1
    /\ server.st \in {"cookie", "flight", "accepted", "failed"}
    /\ server.sid \in Nat \ {0}
    /\ server.peer \in Clients \cup {Server}
    /\ connects \in Nat
    /\ faults \in 0..MaxFaults

(* A client whose connect returned a session shares its key with an accept   *)
(* that returned one to that very client, and the two hold the same secret:  *)
(* no mixture of datagrams of several attempts makes a session               *)
(* (client_driver.rs:388, server_driver.rs:289).                             *)
ClientSessionAgrees ==
    \A c \in Clients :
      client[c].st = "established" =>
        /\ [peer |-> c, key |-> client[c].key] \in accepted
        /\ psk[c] = ServerPsk

(* A server whose accept returned a session got the Finished of the client   *)
(* it committed to, which knows the secret; while that client is still in    *)
(* the same attempt, it waits with the same key and transcript               *)
(* (server_driver.rs:285-290).                                               *)
ServerSessionAgrees ==
    server.st = "accepted" =>
      LET cl == client[server.peer]
      IN  /\ psk[server.peer] = ServerPsk
          /\ cl.cid = server.cid /\ cl.st # "failed" =>
               /\ cl.st \in {"finished", "established"}
               /\ cl.key = server.key
               /\ cl.transcript = server.transcript

(* server_driver.rs:25 "remains stateless while answering initial            *)
(* ClientHello messages and commits to the first peer that returns a valid   *)
(* cookie": before the commitment the server holds nothing of any client,    *)
(* and it commits only to an attempt whose client received this accept's     *)
(* cookie.                                                                   *)
CommitsAfterCookie ==
    /\ server.st = "cookie" => server.peer = Server /\ server.transcript = <<>>
    /\ server.st \in {"flight", "accepted"} => <<server.sid, server.cid>> \in verified

(* No wait is forever: a client that has sent a flight, and a server that    *)
(* has committed, ends in a session or an error.                             *)
HandshakeEnds ==
    /\ \A c \in Clients : Waiting(c) ~> ~Waiting(c)
    /\ (server.st = "flight") ~> (server.st # "flight")

(* A client that connects leads to a session, which ClientSessionAgrees says *)
(* is one at both ends, unless the network interferes or a client has        *)
(* another secret.                                                           *)
CleanHandshakeCompletes ==
    (\E c \in Clients : Waiting(c)) ~>
      \/ \E c \in Clients : client[c].st = "established"
      \/ faults > 0
      \/ \E c \in Clients : psk[c] # ServerPsk

===============================================================================
