------------------------------ MODULE TcpSetup ------------------------------
(***************************************************************************)
(* How the two ends of a TCP connection come by their sockets              *)
(* (src/transport/tcp_transport.cpp): the constructor of TcpServer tries   *)
(* every resolved address until one can be bound and listened on, accept() *)
(* takes one connection, and TcpClient::connect tries every resolved       *)
(* address with a non-blocking connect and a deadline.  Any system call    *)
(* may fail.  Each end lives in a process of its own, with its own         *)
(* descriptors; 0 stands for "none" (-1 in the code).                      *)
(***************************************************************************)
EXTENDS Integers, FiniteSets, FiniteSetsExt

CONSTANT MaxAddresses   \* bound: addresses getaddrinfo may return

ASSUME MaxAddressesAssumption == MaxAddresses \in Nat \ {0}

Server == "server"
Client == "client"
Ends == {Server, Client}

VARIABLES
    stage,          \* where each end is in its set-up
    addresses,      \* resolved addresses still to be tried
    candidate,      \* the descriptor being prepared
    listener,       \* socket_fd_ of the TcpServer
    socket_fd_,     \* socket_fd_ of the TcpConnection of each end
    open,           \* open descriptors of each process
    leaked          \* open descriptors of the client that nobody holds

setupVars == <<stage, addresses, candidate, listener, socket_fd_, open, leaked>>

SetupInit ==
    /\ stage = [e \in Ends |-> "resolve"]
    /\ addresses = [e \in Ends |-> 0]
    /\ candidate = [e \in Ends |-> 0]
    /\ listener = 0
    /\ socket_fd_ = [e \in Ends |-> 0]
    /\ open = [e \in Ends |-> {}]
    /\ leaked = {}

\* The kernel hands out the smallest free number.
LowestFree(e) == Min((1..Cardinality(open[e]) + 1) \ open[e])

At(e, here, there) == stage[e] = here /\ stage' = [stage EXCEPT ![e] = there]

\* getaddrinfo.
Resolve(e) ==
    /\ stage[e] = "resolve"
    /\ \E n \in 1..MaxAddresses : addresses' = [addresses EXCEPT ![e] = n]
    /\ stage' = [stage EXCEPT ![e] = "try"]
    /\ UNCHANGED <<candidate, listener, socket_fd_, open, leaked>>

\* No address is left: an exception; the caller may start over.
Exhausted(e) ==
    /\ addresses[e] = 0
    /\ At(e, "try", "resolve")
    /\ UNCHANGED <<addresses, candidate, listener, socket_fd_, open, leaked>>

\* socket() for the next address, or its failure.
OpenCandidate(e) ==
    /\ stage[e] = "try" /\ addresses[e] > 0
    /\ addresses' = [addresses EXCEPT ![e] = @ - 1]
    /\ \/ UNCHANGED <<stage, candidate, open>>
       \/ LET fd == LowestFree(e) IN
          /\ candidate' = [candidate EXCEPT ![e] = fd]
          /\ open' = [open EXCEPT ![e] = @ \cup {fd}]
          /\ stage' = [stage EXCEPT ![e] = IF e = Server THEN "bind" ELSE "nonblock"]
    /\ UNCHANGED <<listener, socket_fd_, leaked>>

CloseCandidate(e) ==
    /\ open' = [open EXCEPT ![e] = @ \ {candidate[e]}]
    /\ candidate' = [candidate EXCEPT ![e] = 0]

\* bind, listen, fcntl, connect or getsockopt fails, or the connection was
\* refused: on to the next address.
DropCandidate(e) ==
    /\ stage[e] \in {"bind", "listen", "nonblock", "connect", "so_error"}
    /\ CloseCandidate(e)
    /\ stage' = [stage EXCEPT ![e] = "try"]
    /\ UNCHANGED <<addresses, listener, socket_fd_, leaked>>

-----------------------------------------------------------------------------
(* TcpServer *)

Bind == At(Server, "bind", "listen")
        /\ UNCHANGED <<addresses, candidate, listener, socket_fd_, open, leaked>>

Listen ==
    /\ At(Server, "listen", "accept")
    /\ listener' = candidate[Server]
    /\ candidate' = [candidate EXCEPT ![Server] = 0]
    /\ addresses' = [addresses EXCEPT ![Server] = 0]
    /\ UNCHANGED <<socket_fd_, open, leaked>>

\* accept(): a connection is pending once the client's connect has succeeded.
\* A time-out, EAGAIN or an error of poll or accept leaves everything as it is.
Accept ==
    \/ /\ stage[Client] \in {"restore", "connected"}
       /\ At(Server, "accept", "cloexec")
       /\ LET fd == LowestFree(Server) IN
             /\ candidate' = [candidate EXCEPT ![Server] = fd]
             /\ open' = [open EXCEPT ![Server] = @ \cup {fd}]
       /\ UNCHANGED <<addresses, listener, socket_fd_, leaked>>
    \/ stage[Server] \in {"accept", "lost"} /\ UNCHANGED setupVars

\* The candidate becomes the socket of a TcpConnection.
Establish(e) ==
    /\ socket_fd_' = [socket_fd_ EXCEPT ![e] = candidate[e]]
    /\ candidate' = [candidate EXCEPT ![e] = 0]
    /\ addresses' = [addresses EXCEPT ![e] = 0]
    /\ UNCHANGED <<listener, open, leaked>>

\* accept() returns the connection, or closes it and throws ("lost").
SetCloseOnExec ==
    \/ At(Server, "cloexec", "connected") /\ Establish(Server)
    \/ /\ At(Server, "cloexec", "lost") /\ CloseCandidate(Server)
       /\ UNCHANGED <<addresses, listener, socket_fd_, leaked>>

\* ~TcpServer: its owners outlive the connections they accepted.
CloseServer ==
    /\ listener # 0 /\ stage[Server] \in {"connected", "lost"} /\ socket_fd_[Server] = 0
    /\ open' = [open EXCEPT ![Server] = @ \ {listener}]
    /\ listener' = 0
    /\ UNCHANGED <<stage, addresses, candidate, socket_fd_, leaked>>

-----------------------------------------------------------------------------
(* TcpClient::connect *)

Nonblock == At(Client, "nonblock", "connect")
            /\ UNCHANGED <<addresses, candidate, listener, socket_fd_, open, leaked>>

\* connect() succeeds at once, or is in progress.
Connect ==
    /\ \/ At(Client, "connect", "restore") /\ stage[Server] = "accept"
       \/ At(Client, "connect", "poll")
    /\ UNCHANGED <<addresses, candidate, listener, socket_fd_, open, leaked>>

\* poll: writable, or the deadline passes, or poll itself fails.  The last
\* throws past the candidate, which nobody closes; the model bounds such
\* failures to one by not starting over.
PollConnect ==
    \/ /\ At(Client, "poll", "so_error")
       /\ UNCHANGED <<addresses, candidate, listener, socket_fd_, open, leaked>>
    \/ /\ At(Client, "poll", "resolve") /\ CloseCandidate(Client)
       /\ UNCHANGED <<addresses, listener, socket_fd_, leaked>>
    \/ /\ At(Client, "poll", "failed")
       /\ leaked' = leaked \cup {candidate[Client]}
       /\ candidate' = [candidate EXCEPT ![Client] = 0]
       /\ UNCHANGED <<addresses, listener, socket_fd_, open>>

\* SO_ERROR: connected, or refused with the deadline passed as well (refused
\* before the deadline is DropCandidate).
SocketError ==
    \/ /\ At(Client, "so_error", "restore") /\ stage[Server] = "accept"
       /\ UNCHANGED <<addresses, candidate, listener, socket_fd_, open, leaked>>
    \/ /\ At(Client, "so_error", "resolve") /\ CloseCandidate(Client)
       /\ UNCHANGED <<addresses, listener, socket_fd_, leaked>>

\* Back to blocking mode, and the connection object; or fcntl fails and connect
\* throws.
Restore ==
    \/ At(Client, "restore", "connected") /\ Establish(Client)
    \/ /\ At(Client, "restore", "resolve") /\ CloseCandidate(Client)
       /\ UNCHANGED <<addresses, listener, socket_fd_, leaked>>

SetupNext ==
    \/ \E e \in Ends : Resolve(e) \/ Exhausted(e) \/ OpenCandidate(e) \/ DropCandidate(e)
    \/ Bind \/ Listen \/ Accept \/ SetCloseOnExec \/ CloseServer
    \/ Nonblock \/ Connect \/ PollConnect \/ SocketError \/ Restore

\* close_noexcept of a TcpConnection.
CloseSocket(e) ==
    /\ open' = [open EXCEPT ![e] = @ \ {socket_fd_[e]}]
    /\ socket_fd_' = [socket_fd_ EXCEPT ![e] = 0]
    /\ UNCHANGED <<stage, addresses, candidate, listener, leaked>>

-----------------------------------------------------------------------------
Holders(e) == {candidate[e], socket_fd_[e]} \cup (IF e = Server THEN {listener} ELSE {})

\* Every open descriptor has a holder, and every holder an open descriptor of
\* its own: no path through the address loops, accept() and connect() forgets
\* or shares one.  The exception is connect() when poll itself fails.
NoDescriptorLost ==
    /\ \A e \in Ends : open[e] = (Holders(e) \ {0}) \cup (IF e = Client THEN leaked ELSE {})
    /\ \A e \in Ends : candidate[e] # 0 => candidate[e] # socket_fd_[e]
    /\ listener # 0 => listener \notin {candidate[Server], socket_fd_[Server]}
=============================================================================
