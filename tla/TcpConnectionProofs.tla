------------------------ MODULE TcpConnectionProofs ------------------------
(***************************************************************************)
(* Proofs about TcpConnection and TcpSetup: descriptors are neither lost   *)
(* nor used after they are closed, and frames travel as FrameStream        *)
(* promises.                                                               *)
(***************************************************************************)
EXTENDS TcpConnection, FiniteSetTheorems, SequenceTheorems, WellFoundedInduction, TLAPS

\* The stages in which an end holds a candidate descriptor.
Preparing == {"bind", "listen", "cloexec", "nonblock", "connect", "poll", "so_error", "restore"}

\* The stages that are only reached by the server, and only by the client.
ServerStages == {"bind", "listen", "accept", "cloexec", "lost"}
ClientStages == {"nonblock", "connect", "poll", "so_error", "restore", "failed"}

SetupTypes ==
    /\ stage \in [Ends -> {"resolve", "try", "connected"} \cup ServerStages \cup ClientStages]
    /\ addresses \in [Ends -> Nat]
    /\ candidate \in [Ends -> Nat]
    /\ listener \in Nat
    /\ socket_fd_ \in [Ends -> Nat]
    /\ open \in [Ends -> SUBSET (Nat \ {0})]
    /\ \A e \in Ends : IsFiniteSet(open[e])
    /\ leaked \subseteq Nat \ {0}

\* A descriptor is held where the stage says so; nothing is leaked before the
\* client has failed.
HeldByStage ==
    /\ \A e \in Ends : candidate[e] # 0 <=> stage[e] \in Preparing
    /\ \A e \in Ends : socket_fd_[e] # 0 => stage[e] = "connected"
    /\ listener # 0 => stage[Server] \in {"accept", "cloexec", "connected", "lost"}
    /\ leaked # {} => stage[Client] = "failed"
    /\ stage[Server] \notin ClientStages
    /\ stage[Client] \notin ServerStages

SetupInv == SetupTypes /\ HeldByStage /\ NoDescriptorLost

\* A thread inside ::send holds send_mutex_, and only such a thread does.
MutexHeld ==
    /\ pc \in [Threads -> {"idle", "send", "threw"}]
    /\ send_mutex \in Threads \cup {NoThread}
    /\ reading \in BOOLEAN
    /\ closing \in [Ends -> BOOLEAN]
    /\ \A t \in Threads : pc[t] = "send" <=> send_mutex = t

DescriptorInv == SetupInv /\ MutexHeld /\ DescriptorsOwned

-----------------------------------------------------------------------------
(* Descriptors *)

\* A non-empty set of naturals has a least element.
LEMMA LeastElement ==
    ASSUME NEW S \in SUBSET Nat, S # {}
    PROVE  Min(S) \in S
<1> DEFINE R == {p \in Nat \X Nat : p[1] < p[2]}
<1>1. IsWellFoundedOn(R, Nat)
  BY NatLessThanWellFounded, Zenon DEF OpToRel
<1>2. PICK x \in S : \A y \in S : ~(<<y, x>> \in R)
  <2> HIDE DEF R
  <2> QED BY <1>1, WFMin
<1>3. ASSUME NEW y \in S, y < x PROVE FALSE
  <2>1. <<y, x>> \in Nat \X Nat /\ <<y, x>>[1] = y /\ <<y, x>>[2] = x
    OBVIOUS
  <2>2. <<y, x>> \in R
    BY <1>3, <2>1
  <2> QED BY <1>2, <2>2
<1>4. \A y \in S : x =< y
  BY <1>3
<1> QED BY <1>4 DEF Min

\* The kernel's number is a new one.
LEMMA LowestFreeIsFree ==
    ASSUME SetupTypes, NEW e \in Ends
    PROVE  LowestFree(e) \in Nat \ {0} /\ LowestFree(e) \notin open[e]
<1> DEFINE n == Cardinality(open[e])
           I == 1..n + 1
<1>1. IsFiniteSet(open[e])
  BY DEF SetupTypes
<1>2. n \in Nat
  BY <1>1, FS_CardinalityType
<1>3. IsFiniteSet(I) /\ Cardinality(I) = n + 1
  BY <1>2, FS_Interval
<1>4. ~(I \subseteq open[e])
  <2> SUFFICES ASSUME I \subseteq open[e] PROVE FALSE
    OBVIOUS
  <2>1. Cardinality(I) <= n
    BY <1>1, FS_Subset
  <2> QED BY <1>2, <1>3, <2>1
<1>5. I \ open[e] \in SUBSET Nat /\ I \ open[e] # {}
  BY <1>2, <1>4
<1>6. Min(I \ open[e]) \in I \ open[e]
  BY <1>5, LeastElement
<1> QED BY <1>2, <1>6 DEF LowestFree

\* Every step of the set-up keeps the open descriptors finite.
LEMMA OpenFinite ==
    ASSUME SetupTypes, NEW e \in Ends, NEW d,
           open' = [open EXCEPT ![e] = @ \cup {d}] \/ open' = [open EXCEPT ![e] = @ \ {d}]
    PROVE  \A x \in Ends : IsFiniteSet(open'[x])
<1> TAKE x \in Ends
<1>1. IsFiniteSet(open[x]) /\ open'[x] \in {open[x], open[x] \cup {d}, open[x] \ {d}}
  BY DEF SetupTypes
<1>2. IsFiniteSet(open[x] \cup {d}) /\ IsFiniteSet(open[x] \ {d})
  BY <1>1, FS_AddElement, FS_RemoveElement
<1> QED BY <1>1, <1>2

LEMMA SetupInitial == SetupInit => SetupInv
BY FS_EmptySet DEF SetupInit, SetupInv, SetupTypes, HeldByStage, NoDescriptorLost, Holders, Ends,
   Server, Client, Preparing, ServerStages, ClientStages

LEMMA SetupStep == SetupInv /\ SetupNext => SetupInv'
<1> SUFFICES ASSUME SetupInv, SetupNext PROVE SetupInv'
  OBVIOUS
<1> USE DEF SetupInv, SetupTypes, HeldByStage, NoDescriptorLost, Holders, Ends,
      Server, Client, Preparing, ServerStages, ClientStages
<1>1. ASSUME NEW e \in Ends, Resolve(e) PROVE SetupInv'
  BY <1>1, MaxAddressesAssumption DEF Resolve
<1>2. ASSUME NEW e \in Ends, Exhausted(e) PROVE SetupInv'
  BY <1>2 DEF Exhausted, At
<1>3. ASSUME NEW e \in Ends, OpenCandidate(e) PROVE SetupInv'
  <2>1. CASE UNCHANGED <<stage, candidate, open>>
    BY <1>3, <2>1 DEF OpenCandidate
  <2>2. CASE ~UNCHANGED <<stage, candidate, open>>
    <3> DEFINE fd == LowestFree(e)
    <3>1. fd \in Nat \ {0} /\ fd \notin open[e]
      BY LowestFreeIsFree
    <3>2. \A x \in Ends : IsFiniteSet(open'[x])
      BY <1>3, <2>2, OpenFinite DEF OpenCandidate
    <3> HIDE DEF fd
    <3>3. /\ candidate' = [candidate EXCEPT ![e] = fd]
          /\ open' = [open EXCEPT ![e] = @ \cup {fd}]
          /\ stage' = [stage EXCEPT ![e] = IF e = Server THEN "bind" ELSE "nonblock"]
          /\ UNCHANGED <<listener, socket_fd_, leaked>>
          /\ addresses' \in [Ends -> Nat]
          /\ stage[e] = "try"
      BY <1>3, <2>2 DEF OpenCandidate, fd
    <3> QED BY <3>1, <3>2, <3>3
  <2> QED BY <2>1, <2>2
<1>4. ASSUME NEW e \in Ends, CloseCandidate(e), stage[e] \in Preparing,
             UNCHANGED <<listener, socket_fd_, leaked>>, addresses' \in [Ends -> Nat],
             \/ stage' = [stage EXCEPT ![e] = "try"]
             \/ stage' = [stage EXCEPT ![e] = "resolve"]
             \/ stage' = [stage EXCEPT ![e] = "lost"] /\ e = Server,
             stage[e] = "cloexec" => stage' = [stage EXCEPT ![e] = "lost"]
      PROVE  SetupInv'
  <2>1. \A x \in Ends : IsFiniteSet(open'[x])
    BY <1>4, OpenFinite DEF CloseCandidate
  <2>2. CASE e = Server
    <3>1. SetupTypes'
      BY <1>4, <2>1, <2>2 DEF CloseCandidate
    <3>4. /\ stage'[Server] \in {"try", "resolve", "lost"} /\ stage'[Client] = stage[Client]
          /\ candidate'[Server] = 0 /\ candidate'[Client] = candidate[Client]
          /\ listener # 0 => stage'[Server] = "lost"
          /\ UNCHANGED <<listener, socket_fd_, leaked>>
          /\ socket_fd_[Server] = 0
      BY <1>4, <2>2 DEF CloseCandidate
    <3>2. HeldByStage'
      BY <3>4
    <3>3. NoDescriptorLost'
      BY <1>4, <2>2 DEF CloseCandidate
    <3> QED BY <3>1, <3>2, <3>3
  <2>3. CASE e = Client
    BY <1>4, <2>1, <2>3 DEF CloseCandidate
  <2> QED BY <2>2, <2>3
<1>5. ASSUME NEW e \in Ends, DropCandidate(e) PROVE SetupInv'
  BY <1>4, <1>5 DEF DropCandidate
<1>6. ASSUME Bind PROVE SetupInv'
  BY <1>6 DEF Bind, At
<1>7. ASSUME Listen PROVE SetupInv'
  BY <1>7 DEF Listen, At
<1>8. ASSUME Accept PROVE SetupInv'
  <2>1. CASE UNCHANGED setupVars
    BY <2>1 DEF setupVars
  <2>2. CASE ~UNCHANGED setupVars
    <3> DEFINE fd == LowestFree(Server)
    <3>1. fd \in Nat \ {0} /\ fd \notin open[Server]
      BY LowestFreeIsFree
    <3>2. \A x \in Ends : IsFiniteSet(open'[x])
      BY <1>8, <2>2, OpenFinite DEF Accept
    <3> HIDE DEF fd
    <3>3. /\ candidate' = [candidate EXCEPT ![Server] = fd]
          /\ open' = [open EXCEPT ![Server] = @ \cup {fd}]
          /\ stage' = [stage EXCEPT ![Server] = "cloexec"]
          /\ UNCHANGED <<addresses, listener, socket_fd_, leaked>>
          /\ stage[Server] = "accept"
      BY <1>8, <2>2 DEF Accept, At, fd
    <3> QED BY <3>1, <3>2, <3>3
  <2> QED BY <2>1, <2>2
<1>9. ASSUME SetCloseOnExec PROVE SetupInv'
  <2>1. CASE At(Server, "cloexec", "connected") /\ Establish(Server)
    BY <2>1 DEF At, Establish
  <2>2. CASE ~(At(Server, "cloexec", "connected") /\ Establish(Server))
    BY <1>4, <1>9, <2>2 DEF SetCloseOnExec, At
  <2> QED BY <2>1, <2>2
<1>10. ASSUME CloseServer PROVE SetupInv'
  <2>1. \A x \in Ends : IsFiniteSet(open'[x])
    BY <1>10, OpenFinite DEF CloseServer
  <2> QED BY <1>10, <2>1 DEF CloseServer
<1>11. ASSUME Nonblock \/ Connect PROVE SetupInv'
  BY <1>11 DEF Nonblock, Connect, At
<1>12. ASSUME PollConnect PROVE SetupInv'
  <2>1. CASE At(Client, "poll", "so_error") 
    BY <1>12, <2>1 DEF PollConnect, At
  <2>2. CASE At(Client, "poll", "resolve")
    BY <1>4, <1>12, <2>2 DEF PollConnect, At
  <2>3. CASE At(Client, "poll", "failed")
    BY <1>12, <2>3 DEF PollConnect, At
  <2> QED BY <1>12, <2>1, <2>2, <2>3 DEF PollConnect
<1>13. ASSUME SocketError PROVE SetupInv'
  <2>1. CASE At(Client, "so_error", "restore")
    BY <1>13, <2>1 DEF SocketError, At
  <2>2. CASE At(Client, "so_error", "resolve")
    BY <1>4, <1>13, <2>2 DEF SocketError, At
  <2> QED BY <1>13, <2>1, <2>2 DEF SocketError
<1>14. ASSUME Restore PROVE SetupInv'
  <2>1. CASE At(Client, "restore", "connected") /\ Establish(Client)
    BY <2>1 DEF At, Establish
  <2>2. CASE ~(At(Client, "restore", "connected") /\ Establish(Client))
    BY <1>4, <1>14, <2>2 DEF Restore, At
  <2> QED BY <2>1, <2>2
<1> HIDE DEF SetupInv
<1> QED BY <1>1, <1>2, <1>3, <1>5, <1>6, <1>7, <1>8, <1>9, <1>10, <1>11, <1>12, <1>13, <1>14
        DEF SetupNext

\* close() of a connection gives up one descriptor.
LEMMA SocketClosed ==
    ASSUME SetupInv, NEW e \in Ends, CloseSocket(e)
    PROVE  SetupInv'
<1> USE DEF SetupInv, SetupTypes, HeldByStage, NoDescriptorLost, Holders, Ends,
      Server, Client, Preparing, ServerStages, ClientStages
<1>1. \A x \in Ends : IsFiniteSet(open'[x])
  BY OpenFinite DEF CloseSocket
<1>2. SetupTypes' /\ HeldByStage'
  BY <1>1 DEF CloseSocket
<1>3. NoDescriptorLost'
  BY DEF CloseSocket
<1> QED BY <1>2, <1>3

\* No step of the set-up takes a socket away from its connection.
LEMMA SocketsKept ==
    ASSUME SetupInv, SetupNext, NEW e \in Ends, socket_fd_[e] # 0
    PROVE  socket_fd_'[e] # 0
<1>1. \A x \in Ends : candidate[x] # 0 <=> stage[x] \in Preparing
  BY DEF SetupInv, HeldByStage
<1>2. socket_fd_ \in [Ends -> Nat]
  BY DEF SetupInv, SetupTypes
<1>3. ASSUME NEW x \in Ends, Establish(x), stage[x] \in Preparing PROVE socket_fd_'[e] # 0
  BY <1>1, <1>2, <1>3 DEF Establish
<1>4. CASE UNCHANGED socket_fd_
  BY <1>4
<1>5. CASE SetCloseOnExec \/ Restore
  BY <1>3, <1>4, <1>5 DEF SetCloseOnExec, Restore, At, Preparing, Ends
<1> QED BY <1>4, <1>5 DEF SetupNext, Resolve, Exhausted, OpenCandidate, DropCandidate, Bind, Listen,
                          Accept, CloseServer, Nonblock, Connect, PollConnect, SocketError, setupVars

-----------------------------------------------------------------------------
\* Everything the sending and the receiving code touches, but no descriptor.
LEMMA DescriptorStep == DescriptorInv /\ [Next]_vars => DescriptorInv'
<1> SUFFICES ASSUME DescriptorInv, [Next]_vars PROVE DescriptorInv'
  OBVIOUS
<1>1. /\ SetupInv
      /\ pc \in [Threads -> {"idle", "send", "threw"}]
      /\ send_mutex \in Threads \cup {NoThread}
      /\ reading \in BOOLEAN
      /\ closing \in [Ends -> BOOLEAN]
      /\ \A t \in Threads : pc[t] = "send" <=> send_mutex = t
      /\ \A t \in Threads : pc[t] = "send" => socket_fd_[Server] # 0
      /\ reading => socket_fd_[Client] # 0
      /\ NoThread \notin Threads
      /\ Server \in Ends /\ Client \in Ends
  BY ThreadsAssumption DEF DescriptorInv, MutexHeld, DescriptorsOwned, Ends, Threads
<1>2. ASSUME UNCHANGED setupVars PROVE SetupInv' /\ UNCHANGED socket_fd_
  BY <1>1, <1>2 DEF setupVars, SetupInv, SetupTypes, HeldByStage, NoDescriptorLost, Holders
<1> DEFINE Owned == /\ \A t \in Threads : pc[t] = "send" => socket_fd_[Server] # 0
                    /\ reading => socket_fd_[Client] # 0
<1>3. ASSUME SetupInv', MutexHeld', Owned' PROVE DescriptorInv'
  BY <1>3 DEF DescriptorInv, DescriptorsOwned, SetupInv
<1>4. CASE UNCHANGED vars
  BY <1>1, <1>2, <1>3, <1>4 DEF vars, sendVars, receiveVars, MutexHeld
<1>5. CASE SetupNext /\ UNCHANGED connectionVars
  <2>1. SetupInv'
    BY <1>1, <1>5, SetupStep
  <2>2. MutexHeld' /\ UNCHANGED <<pc, reading>>
    BY <1>1, <1>5 DEF connectionVars, sendVars, receiveVars, MutexHeld
  <2>3. Owned'
    BY <1>1, <1>5, <2>2, SocketsKept
  <2> QED BY <1>3, <2>1, <2>2, <2>3
<1>6. ASSUME NEW t \in Threads, SendFrame(t) \/ SendClosed(t) \/ SendStep(t) PROVE DescriptorInv'
  <2>1. SetupInv' /\ UNCHANGED <<socket_fd_, reading, closing>>
    BY <1>2, <1>6 DEF SendFrame, SendClosed, SendStep, Send, SendFails, SendCaught, vars,
                      setupVars, receiveVars
  <2>2. \/ pc[t] = "idle" /\ send_mutex = NoThread /\ socket_fd_[Server] # 0
           /\ send_mutex' = t /\ pc' = [pc EXCEPT ![t] = "send"]
        \/ UNCHANGED <<send_mutex, pc>>
        \/ pc[t] = "send" /\ send_mutex' = NoThread /\ pc' = [pc EXCEPT ![t] = "idle"]
        \/ pc[t] = "send" /\ send_mutex' = NoThread /\ pc' = [pc EXCEPT ![t] = "threw"]
        \/ pc[t] = "threw" /\ UNCHANGED send_mutex /\ pc' = [pc EXCEPT ![t] = "idle"]
    BY <1>6 DEF SendFrame, SendClosed, SendStep, Send, SendFails, SendCaught, Goto, vars, sendVars
  <2>3. MutexHeld'
    BY <1>1, <2>1, <2>2 DEF MutexHeld
  <2>4. Owned'
    BY <1>1, <2>1, <2>2
  <2> QED BY <1>3, <2>1, <2>3, <2>4
<1>7. CASE ReceiveFrame \/ ReceiveStep
  <2>1. SetupInv' /\ UNCHANGED <<socket_fd_, pc, send_mutex, closing>>
    BY <1>2, <1>7 DEF ReceiveFrame, ReceiveStep, Recv, ReceiveTimeout, ReceiveDisconnected,
                      ReceiveHeader, ReceiveBody, setupVars, sendVars
  <2>2. reading' = FALSE \/ reading' = reading \/ reading' = (socket_fd_[Client] # 0)
    BY <1>7 DEF ReceiveFrame, ReceiveStep, Recv, ReceiveTimeout, ReceiveDisconnected,
                ReceiveHeader, ReceiveBody
  <2>3. reading' \in BOOLEAN /\ (reading' => socket_fd_[Client] # 0)
    <3>1. CASE reading' = FALSE
      BY <3>1
    <3>3. CASE reading' = reading
      BY <1>1, <3>3, Zenon
    <3>2. CASE reading' = (socket_fd_[Client] # 0)
      BY <3>2
    <3> QED BY <2>2, <3>1, <3>2, <3>3
  <2>4. MutexHeld' /\ Owned'
    BY <1>1, <2>1, <2>3, Zenon DEF MutexHeld
  <2> QED BY <1>3, <2>1, <2>4
<1>8. ASSUME NEW e \in Ends, Interrupt(e) \/ CallClose(e) PROVE DescriptorInv'
  <2>1. /\ SetupInv' /\ UNCHANGED <<socket_fd_, pc, send_mutex, reading>>
        /\ closing' = closing \/ closing' = [closing EXCEPT ![e] = TRUE]
    BY <1>2, <1>8 DEF Interrupt, CallClose, setupVars, sendVars, receiveVars
  <2>2. MutexHeld' /\ Owned'
    BY <1>1, <2>1 DEF MutexHeld
  <2> QED BY <1>3, <2>1, <2>2
<1>9. ASSUME NEW e \in Ends, Close(e) PROVE DescriptorInv'
  <2>1. SetupInv'
    BY <1>1, <1>9, SocketClosed DEF Close
  <2>2. /\ UNCHANGED <<pc, send_mutex, reading>>
        /\ closing' = [closing EXCEPT ![e] = FALSE]
        /\ socket_fd_' = [socket_fd_ EXCEPT ![e] = 0]
        /\ e = Server => send_mutex = NoThread
        /\ e # Server => ~reading
    BY <1>9 DEF Close, CloseSocket, sendVars, IoMutexesFree
  <2>3. closing' \in [Ends -> BOOLEAN]
    BY <1>1, <2>2, Zenon
  <2>4. MutexHeld'
    BY <1>1, <2>2, <2>3, Zenon DEF MutexHeld
  <2>5. Owned'
    BY <1>1, <2>2 DEF Ends, SetupInv, SetupTypes, Server, Client
  <2> QED BY <1>3, <2>1, <2>4, <2>5
<1>10. CASE Break \/ Corrupt
  <2>1. SetupInv' /\ UNCHANGED <<socket_fd_, pc, send_mutex, reading, closing>>
    BY <1>2, <1>10 DEF Break, Corrupt, setupVars, sendVars, receiveVars
  <2> QED BY <1>1, <1>3, <2>1 DEF MutexHeld
<1> QED BY <1>4, <1>5, <1>6, <1>7, <1>8, <1>9, <1>10 DEF Next

LEMMA DescriptorInvariant == Spec => []DescriptorInv
<1>1. ASSUME Init PROVE DescriptorInv
  <2>1. SetupInv /\ NoDescriptorLost
    BY <1>1, SetupInitial, Zenon DEF Init, SetupInv
  <2>2. /\ pc = [t \in Threads |-> "idle"] /\ send_mutex = NoThread /\ reading = FALSE
        /\ closing = [e \in Ends |-> FALSE]
    BY <1>1, Zenon DEF Init
  <2>3. MutexHeld
    <3>1. /\ pc \in [Threads -> {"idle", "send", "threw"}]
          /\ \A t \in Threads : pc[t] = "idle" /\ send_mutex # t
      BY <2>2, ThreadsAssumption DEF Threads
    <3>2. reading \in BOOLEAN /\ closing \in [Ends -> BOOLEAN]
      BY <2>2, Zenon
    <3> QED BY <2>2, <3>1, <3>2 DEF MutexHeld
  <2>4. DescriptorsOwned
    BY <2>1, <2>2 DEF DescriptorsOwned
  <2> QED BY <2>1, <2>3, <2>4 DEF DescriptorInv
<1> QED BY <1>1, DescriptorStep, PTL DEF Spec

(***************************************************************************)
(* Descriptors are neither lost nor shared, whatever system call fails,    *)
(* and no thread is inside ::send or ::recv on a descriptor that close()   *)
(* has given back.                                                         *)
(***************************************************************************)
THEOREM DescriptorsSafe == Spec => []DescriptorsOwned
<1>1. DescriptorInv => DescriptorsOwned
  BY DEF DescriptorInv
<1> QED BY <1>1, DescriptorInvariant, PTL

-----------------------------------------------------------------------------
(***************************************************************************)
(* Frames in flight.  The cells of receive_buffer_, of wire and of the     *)
(* frame being sent form one sequence of n cells, on which ::send and      *)
(* ::recv only move borders.  Cell i was written as cell ats[i] of frame   *)
(* number ids[i] and reads as seen[i] now: a changed cell has lost its     *)
(* place.  The first l cells will be received if the client goes on: all   *)
(* of them, or only receive_buffer_ once the connection is broken.         *)
(* newest is the last frame delivered, last the last one accepted, and     *)
(* sizes[k] the size of frame k.                                           *)
(***************************************************************************)
OutOfStep(k, lost) == \E x \in lost : x <= k

\* Every cell is in its place, or was changed and its frame is spoilt.
Placed(n, ids, ats, seen, newest, last, sizes, bad) ==
    \A i \in 1..n :
       /\ ids[i] \in newest + 1..last
       /\ ats[i] \in 1..sizes[ids[i]]
       /\ seen[i] = ats[i] \/ (seen[i] = 0 /\ ats[i] > 2 /\ ids[i] \in bad)

\* Frames are in the order of acceptance, the cells of each in their order.
Ascending(n, ids, ats) ==
    \A i, k \in 1..n : i < k =>
       /\ ids[i] <= ids[k]
       /\ ids[i] = ids[k] => ats[k] >= ats[i] + (k - i)

\* A second cell follows the first cell of the same frame, in step or not.
Paired(l, ids, ats) == \A i \in 2..l : ats[i] = 2 => ids[i - 1] = ids[i]

\* A frame that can still be read as it was written is neither spoilt nor torn.
Unharmed(l, ids, ats, seen, sizes, bad, lost) ==
    \A m \in 1..l :
       (/\ ats[m] = 1 /\ m + sizes[ids[m]] - 1 <= l
        /\ \A k \in 1..sizes[ids[m]] : ids[m + k - 1] = ids[m] /\ seen[m + k - 1] = k)
       => ids[m] \notin bad \cup lost

\* A cell whose frame is in step has the first cell of its frame before it...
Begun(l, ids, ats, lost) ==
    \A i \in 1..l : \/ OutOfStep(ids[i], lost)
                     \/ /\ ats[i] <= i
                        /\ ids[i - ats[i] + 1] = ids[i] /\ ats[i - ats[i] + 1] = 1

\* ... and its other cells where they belong, all of them while there is a
\* connection.
Whole(l, dead, ids, ats, sizes, lost) ==
    \A m \in 1..l : ats[m] = 1 /\ ~OutOfStep(ids[m], lost) =>
       /\ dead \/ m + sizes[ids[m]] - 1 <= l
       /\ \A k \in 1..sizes[ids[m]] :
             m + k - 1 <= l => ids[m + k - 1] = ids[m] /\ ats[m + k - 1] = k

\* A frame not yet delivered is on its way, unless there is an excuse, or the
\* connection broke and it would have come after everything received.
Complete(l, dead, ids, ats, newest, last, bad, lost) ==
    \A j \in newest + 1..last :
       \/ j \in bad \/ OutOfStep(j, lost)
       \/ \E m \in 1..l : ids[m] = j /\ ats[m] = 1
       \/ dead /\ \A i \in 1..l : ids[i] <= j

Flow(n, l, dead, ids, ats, seen, newest, last, sizes, bad, lost) ==
    /\ Placed(n, ids, ats, seen, newest, last, sizes, bad)
    /\ Ascending(n, ids, ats)
    /\ Paired(l, ids, ats)
    /\ Unharmed(l, ids, ats, seen, sizes, bad, lost)
    /\ Begun(l, ids, ats, lost)
    /\ Whole(l, dead, ids, ats, sizes, lost)
    /\ Complete(l, dead, ids, ats, newest, last, bad, lost)

\* The empty flow, before anything is accepted.
LEMMA FlowEmpty ==
    ASSUME NEW ids, NEW ats, NEW seen, NEW sizes
    PROVE  Flow(0, 0, FALSE, ids, ats, seen, 0, 0, sizes, {}, {})
BY DEF Flow, Placed, Ascending, Paired, Unharmed, Begun, Whole, Complete

\* A frame of z cells is accepted: its cells are the last ones.
Extended(n, l, dead, last, sizes, ids, ats, seen, n2, l2, sizes2, ids2, ats2, seen2) ==
    LET z == sizes2[last + 1]
    IN /\ z \in Nat \ {0} /\ \A j \in 1..last : sizes2[j] = sizes[j]
       /\ n2 = n + z /\ (dead => l2 = l) /\ (~dead => l2 = n2)
       /\ \A i \in 1..n : ids2[i] = ids[i] /\ ats2[i] = ats[i] /\ seen2[i] = seen[i]
       /\ \A i \in n + 1..n + z : ids2[i] = last + 1 /\ ats2[i] = i - n /\ seen2[i] = i - n

LEMMA FlowExtended ==
    ASSUME NEW n \in Nat, NEW l \in 0..n, NEW dead \in BOOLEAN, ~dead => l = n,
           NEW ids \in [Nat -> Nat], NEW ats \in [Nat -> Nat], NEW seen \in [Nat -> Nat],
           NEW last \in Nat, NEW newest \in 0..last, NEW sizes, \A j \in 1..last : sizes[j] \in Nat,
           NEW bad, NEW lost, \A x \in bad \cup lost : x \in 1..last,
           Flow(n, l, dead, ids, ats, seen, newest, last, sizes, bad, lost),
           NEW n2, NEW l2, NEW sizes2, NEW ids2, NEW ats2, NEW seen2, NEW last2, last2 = last + 1,
           Extended(n, l, dead, last, sizes, ids, ats, seen, n2, l2, sizes2, ids2, ats2, seen2)
    PROVE  Flow(n2, l2, dead, ids2, ats2, seen2, newest, last2, sizes2, bad, lost)
<1> DEFINE z == sizes2[last + 1]
<1>1. z \in Nat \ {0} /\ n2 = n + z /\ (dead => l2 = l) /\ (~dead => l2 = n + z)
  BY DEF Extended
<1>2. \A i \in 1..n : /\ ids2[i] = ids[i] /\ ats2[i] = ats[i] /\ seen2[i] = seen[i]
                      /\ ids[i] \in newest + 1..last /\ ats[i] \in 1..sizes[ids[i]]
                      /\ sizes2[ids[i]] = sizes[ids[i]] /\ sizes[ids[i]] \in Nat
  BY DEF Flow, Placed, Extended
<1>3. \A i \in n + 1..n + z : ids2[i] = last + 1 /\ ats2[i] = i - n /\ seen2[i] = i - n
  BY DEF Extended
<1>4. \A i \in 1..n + z : i \in 1..n \/ i \in n + 1..n + z
  BY <1>1
<1> HIDE DEF z
<1>5. Placed(n + z, ids2, ats2, seen2, newest, last + 1, sizes2, bad)
  <2>1. ASSUME NEW i \in 1..n PROVE ids2[i] \in newest + 1..last + 1
    BY <1>2
  <2>2. \A i \in 1..n : seen[i] = ats[i] \/ (seen[i] = 0 /\ ats[i] > 2 /\ ids[i] \in bad)
    BY DEF Flow, Placed
  <2>3. ASSUME NEW i \in n + 1..n + z
        PROVE  /\ ids2[i] \in newest + 1..last + 1
               /\ ats2[i] \in 1..sizes2[ids2[i]] /\ seen2[i] = ats2[i]
    <3>1. ids2[i] = last + 1 /\ ats2[i] = i - n /\ seen2[i] = i - n
      BY <1>3
    <3>2. last + 1 \in newest + 1..last + 1 /\ i - n \in 1..z
      BY <1>1
    <3> QED BY <3>1, <3>2 DEF z
  <2>4. ASSUME NEW i \in 1..n
        PROVE  /\ ids2[i] \in newest + 1..last + 1
               /\ ats2[i] \in 1..sizes2[ids2[i]]
               /\ seen2[i] = ats2[i] \/ (seen2[i] = 0 /\ ats2[i] > 2 /\ ids2[i] \in bad)
    BY <1>2, <2>1, <2>2
  <2> QED BY <1>4, <2>3, <2>4 DEF Placed
<1>6. Ascending(n + z, ids2, ats2)
  <2> SUFFICES ASSUME NEW i \in 1..n + z, NEW k \in 1..n + z, i < k
               PROVE /\ ids2[i] <= ids2[k]
                     /\ ids2[i] = ids2[k] => ats2[k] >= ats2[i] + (k - i)
    BY DEF Ascending
  <2>1. CASE k \in 1..n
    BY <1>1, <1>2, <2>1 DEF Flow, Ascending
  <2>2. CASE i \in 1..n /\ k \in n + 1..n + z
    BY <1>1, <1>2, <1>3, <2>2
  <2>3. CASE i \in n + 1..n + z /\ k \in n + 1..n + z
    BY <1>1, <1>3, <2>3
  <2> QED BY <1>1, <1>4, <2>1, <2>2, <2>3
<1>7. /\ l2 \in Nat /\ l <= l2
      /\ \A i \in 1..l2 : i \in 1..l \/ (~dead /\ l = n /\ i \in n + 1..n + z)
      /\ \A i \in 1..l : i \in 1..n
  BY <1>1
<1>8. Unharmed(l2, ids2, ats2, seen2, sizes2, bad, lost)
  <2> SUFFICES ASSUME NEW m \in 1..l2, ats2[m] = 1, m + sizes2[ids2[m]] - 1 <= l2,
                      \A k \in 1..sizes2[ids2[m]] :
                         ids2[m + k - 1] = ids2[m] /\ seen2[m + k - 1] = k
               PROVE  ids2[m] \notin bad \cup lost
    BY DEF Unharmed
  <2>1. CASE m \in n + 1..n + z
    BY <1>3, <2>1
  <2>2. CASE m \in 1..l
    <3>1. /\ m \in 1..n /\ ids2[m] = ids[m] /\ sizes2[ids[m]] = sizes[ids[m]]
          /\ sizes[ids[m]] \in Nat /\ ids[m] <= last
      BY <1>2, <1>7, <2>2
    <3>2. ASSUME NEW k \in 1..sizes[ids[m]]
          PROVE  /\ m + k - 1 \in 1..n
                 /\ ids[m + k - 1] = ids[m] /\ seen[m + k - 1] = k
      <4>1. m + k - 1 \in 1..l2 /\ ids2[m + k - 1] = ids[m] /\ seen2[m + k - 1] = k
        BY <1>7, <3>1, <3>2
      <4>2. m + k - 1 \notin n + 1..n + z
        BY <1>3, <3>1, <4>1
      <4>3. m + k - 1 \in 1..n
        BY <1>7, <4>1, <4>2
      <4> QED BY <1>2, <4>1, <4>3
    <3>3. m + sizes[ids[m]] - 1 <= l
      <4>1. sizes[ids[m]] \in 1..sizes[ids[m]]
        BY <1>2, <3>1
      <4> QED BY <1>7, <3>1, <3>2, <4>1
    <3> QED BY <1>2, <2>2, <3>1, <3>2, <3>3 DEF Flow, Unharmed
  <2> QED BY <1>7, <2>1, <2>2
<1>9. Begun(l2, ids2, ats2, lost)
  <2> SUFFICES ASSUME NEW i \in 1..l2, ~OutOfStep(ids2[i], lost)
               PROVE  /\ ats2[i] <= i
                      /\ ids2[i - ats2[i] + 1] = ids2[i] /\ ats2[i - ats2[i] + 1] = 1
    BY DEF Begun
  <2>1. CASE i \in 1..l
    <3>1. i \in 1..n /\ ids2[i] = ids[i] /\ ats2[i] = ats[i] /\ ats[i] \in Nat \ {0}
      BY <1>2, <1>7, <2>1
    <3>2. PICK a \in Nat : a = ats[i]
      BY <3>1
    <3>3. /\ a \in 1..i
          /\ ids[i - a + 1] = ids[i] /\ ats[i - a + 1] = 1
      BY <2>1, <3>1, <3>2 DEF Flow, Begun
    <3>4. i - a + 1 \in 1..n
      BY <3>1, <3>3
    <3> QED BY <1>2, <3>1, <3>2, <3>3, <3>4
  <2>2. CASE i \in n + 1..n + z
    <3>1. n + 1 \in n + 1..n + z /\ i - (i - n) + 1 = n + 1
      BY <1>1, <2>2
    <3>2. ats2[i] = i - n /\ ids2[i] = last + 1 /\ ats2[n + 1] = 1 /\ ids2[n + 1] = last + 1
      BY <1>3, <2>2, <3>1
    <3> QED BY <2>2, <3>1, <3>2
  <2> QED BY <1>7, <2>1, <2>2
<1>10. Whole(l2, dead, ids2, ats2, sizes2, lost)
  <2> SUFFICES ASSUME NEW m \in 1..l2, ats2[m] = 1, ~OutOfStep(ids2[m], lost)
               PROVE  /\ dead \/ m + sizes2[ids2[m]] - 1 <= l2
                      /\ \A k \in 1..sizes2[ids2[m]] :
                            m + k - 1 <= l2 => ids2[m + k - 1] = ids2[m] /\ ats2[m + k - 1] = k
    BY DEF Whole
  <2>1. CASE m \in n + 1..n + z
    <3>1. m = n + 1 /\ ids2[m] = last + 1
      BY <1>1, <1>3, <2>1
    <3>2. \A k \in 1..z : m + k - 1 \in n + 1..n + z
      BY <1>1, <3>1
    <3>3. dead \/ m + z - 1 <= l2
      BY <1>1, <3>1 DEF z
    <3> QED BY <1>1, <1>3, <3>1, <3>2, <3>3 DEF z
  <2>2. CASE m \in 1..l
    <3>1. /\ m \in 1..n /\ ids2[m] = ids[m] /\ ats[m] = 1
          /\ sizes2[ids[m]] = sizes[ids[m]] /\ sizes[ids[m]] \in Nat
      BY <1>2, <1>7, <2>2
    <3>2. /\ dead \/ m + sizes[ids[m]] - 1 <= l
          /\ \A k \in 1..sizes[ids[m]] :
                m + k - 1 <= l => ids[m + k - 1] = ids[m] /\ ats[m + k - 1] = k
      BY <2>2, <3>1 DEF Flow, Whole
    <3>3. ASSUME NEW k \in 1..sizes[ids[m]], m + k - 1 <= l2 PROVE m + k - 1 \in 1..l
      BY <1>1, <1>7, <3>1, <3>2, <3>3
    <3>4. \A k \in 1..sizes[ids[m]] :
             m + k - 1 <= l2 => ids2[m + k - 1] = ids[m] /\ ats2[m + k - 1] = k
      <4> TAKE k \in 1..sizes[ids[m]]
      <4> HAVE m + k - 1 <= l2
      <4>1. m + k - 1 \in 1..n /\ m + k - 1 <= l
        BY <1>7, <3>3
      <4> QED BY <1>2, <3>2, <4>1
    <3> QED BY <1>7, <3>1, <3>2, <3>4
  <2> QED BY <1>7, <2>1, <2>2
<1>11. Complete(l2, dead, ids2, ats2, newest, last + 1, bad, lost)
  <2> SUFFICES ASSUME NEW j \in newest + 1..last + 1, j \notin bad, ~OutOfStep(j, lost)
               PROVE  \/ \E m \in 1..l2 : ids2[m] = j /\ ats2[m] = 1
                      \/ dead /\ \A i \in 1..l2 : ids2[i] <= j
    BY DEF Complete
  <2>1. CASE j \in newest + 1..last
    <3>1. CASE \E m \in 1..l : ids[m] = j /\ ats[m] = 1
      <4>1. PICK m \in 1..l : ids[m] = j /\ ats[m] = 1
        BY <3>1
      <4>2. m \in 1..l2 /\ m \in 1..n
        BY <1>7
      <4> QED BY <1>2, <4>1, <4>2
    <3>2. CASE dead /\ \A i \in 1..l : ids[i] <= j
      BY <1>2, <1>7, <3>2
    <3> QED BY <2>1, <3>1, <3>2 DEF Flow, Complete
  <2>2. CASE j = last + 1
    <3>1. CASE dead
      <4>1. \A i \in 1..l2 : i \in 1..n /\ ids2[i] = ids[i] /\ ids[i] \in newest + 1..last
        BY <1>2, <1>7, <3>1
      <4> QED BY <2>2, <3>1, <4>1
    <3>2. CASE ~dead
      <4>1. n + 1 \in 1..l2 /\ n + 1 \in n + 1..n + z
        BY <1>1, <3>2 DEF z
      <4>2. ids2[n + 1] = last + 1 /\ ats2[n + 1] = 1
        BY <1>3, <4>1
      <4> QED BY <2>2, <4>1, <4>2
    <3> QED BY <3>1, <3>2
  <2> QED BY <2>1, <2>2
<1>12. Paired(l2, ids2, ats2)
  <2> SUFFICES ASSUME NEW i \in 2..l2, ats2[i] = 2 PROVE ids2[i - 1] = ids2[i]
    BY DEF Paired
  <2>1. CASE i \in 1..l
    <3>1. i \in 2..l /\ i \in 1..n /\ i - 1 \in 1..n
      BY <1>7, <2>1
    <3> QED BY <1>2, <3>1 DEF Flow, Paired
  <2>2. CASE i \in n + 1..n + z
    <3>1. i = n + 2
      BY <1>1, <1>3, <2>2
    <3>2. i - 1 \in n + 1..n + z
      BY <1>1, <2>2, <3>1
    <3> QED BY <1>3, <2>2, <3>2
  <2> QED BY <1>7, <2>1, <2>2
<1> QED BY <1>1, <1>5, <1>6, <1>8, <1>9, <1>10, <1>11, <1>12 DEF Flow

\* A send fails: the cells from c on, all of the last frame, never leave.  The
\* frame is spoilt if its first cell is among them and torn if not.
Cut(n, l, dead, ids, ats, last, bad, lost, c, n2, l2, bad2, lost2) ==
    /\ n2 = c - 1 /\ \A i \in c..n : ids[i] = last
    /\ dead => l < c /\ l2 = l
    /\ ~dead => l2 = c - 1
    /\ ats[c] = 1 => bad2 = bad \cup {last} /\ lost2 = lost
    /\ ats[c] # 1 => bad2 = bad /\ lost2 = lost \cup {last}

LEMMA FlowCut ==
    ASSUME NEW n \in Nat, NEW l \in 0..n, NEW dead \in BOOLEAN, ~dead => l = n,
           NEW ids \in [Nat -> Nat], NEW ats \in [Nat -> Nat], NEW seen \in [Nat -> Nat],
           NEW last \in Nat, NEW newest \in 0..last, NEW sizes, \A j \in 1..last : sizes[j] \in Nat,
           NEW bad, NEW lost, \A x \in bad \cup lost : x \in 1..last,
           Flow(n, l, dead, ids, ats, seen, newest, last, sizes, bad, lost),
           NEW c \in 1..n, NEW n2, NEW l2, NEW bad2, NEW lost2,
           Cut(n, l, dead, ids, ats, last, bad, lost, c, n2, l2, bad2, lost2)
    PROVE  Flow(n2, l2, dead, ids, ats, seen, newest, last, sizes, bad2, lost2)
<1>0. /\ n2 = c - 1 /\ \A i \in c..n : ids[i] = last
      /\ dead => l < c /\ l2 = l
      /\ ~dead => l2 = c - 1
      /\ ats[c] = 1 => bad2 = bad \cup {last} /\ lost2 = lost
      /\ ats[c] # 1 => bad2 = bad /\ lost2 = lost \cup {last}
  BY DEF Cut
<1>1. /\ l2 \in 0..l /\ l2 < c /\ bad \subseteq bad2 /\ lost \subseteq lost2
      /\ bad2 \cup lost2 \subseteq bad \cup lost \cup {last} /\ ids[c] = last
  <2>1. ids[c] = last /\ l2 \in 0..l /\ l2 < c
    BY <1>0
  <2>2. CASE ats[c] = 1
    BY <1>0, <2>1, <2>2
  <2>3. CASE ats[c] # 1
    BY <1>0, <2>1, <2>3
  <2> QED BY <2>2, <2>3
<1>2. \A i \in 1..n : /\ ids[i] \in newest + 1..last /\ ats[i] \in 1..sizes[ids[i]]
                      /\ sizes[ids[i]] \in Nat
  BY DEF Flow, Placed
<1>3. Placed(c - 1, ids, ats, seen, newest, last, sizes, bad2)
  BY <1>1 DEF Flow, Placed
<1>4. Ascending(c - 1, ids, ats)
  <2>1. \A i \in 1..c - 1 : i \in 1..n
    OBVIOUS
  <2> QED BY <2>1 DEF Flow, Ascending
<1>5. \A i \in 1..c - 1 : ids[i] = last => ats[c] >= ats[i] + (c - i)
  BY <1>1 DEF Flow, Ascending
<1>6. Unharmed(l2, ids, ats, seen, sizes, bad2, lost2)
  <2> SUFFICES ASSUME NEW m \in 1..l2, ats[m] = 1, m + sizes[ids[m]] - 1 <= l2,
                      \A k \in 1..sizes[ids[m]] : ids[m + k - 1] = ids[m] /\ seen[m + k - 1] = k
               PROVE  ids[m] \notin bad2 \cup lost2
    BY DEF Unharmed
  <2>1. ids[m] \notin bad \cup lost
    <3>1. m \in 1..l /\ m \in 1..n /\ sizes[ids[m]] \in Nat
      BY <1>1, <1>2
    <3>2. m + sizes[ids[m]] - 1 <= l
      BY <1>1, <3>1
    <3> QED BY <3>1, <3>2 DEF Flow, Unharmed
  <2>2. ids[m] # last
    <3> SUFFICES ASSUME ids[m] = last PROVE FALSE
      OBVIOUS
    <3> DEFINE e == m + sizes[last] - 1
    <3>1. e \in 1..c - 1 /\ sizes[last] \in 1..sizes[last] /\ e \in 1..n
      BY <1>1, <1>2
    <3>2. ids[e] = last /\ seen[e] = sizes[last]
      BY <3>1
    <3>3. ats[e] = sizes[last]
      <4>1. seen[e] = ats[e] \/ seen[e] = 0
        BY <3>1 DEF Flow, Placed
      <4>2. sizes[last] # 0
        BY <3>1
      <4> QED BY <3>2, <4>1, <4>2
    <3> QED BY <1>1, <1>2, <1>5, <3>1, <3>2, <3>3
  <2> QED BY <1>1, <2>1, <2>2
<1>7. \A k \in Nat : OutOfStep(k, lost) => OutOfStep(k, lost2)
  BY <1>1 DEF OutOfStep
<1>8. Begun(l2, ids, ats, lost2)
  <2>1. \A i \in 1..l2 : i \in 1..l /\ ids[i] \in Nat
    BY <1>1, <1>2
  <2> QED BY <1>7, <2>1 DEF Flow, Begun
<1>9. \A i \in 1..l2 : ids[i] = last => OutOfStep(ids[i], lost2)
  <2> SUFFICES ASSUME NEW i \in 1..l2, ids[i] = last PROVE OutOfStep(last, lost2)
    OBVIOUS
  <2>1. i \in 1..c - 1 /\ i \in 1..n
    BY <1>1
  <2>2. ats[c] >= ats[i] + (c - i) /\ ats[i] \in Nat \ {0} /\ c - i >= 1
    BY <1>2, <1>5, <2>1
  <2>3. ats[c] # 1
    BY <2>1, <2>2
  <2> QED BY <1>0, <2>3 DEF OutOfStep
<1>10. Whole(l2, dead, ids, ats, sizes, lost2)
  <2> SUFFICES ASSUME NEW m \in 1..l2, ats[m] = 1, ~OutOfStep(ids[m], lost2)
               PROVE  /\ dead \/ m + sizes[ids[m]] - 1 <= l2
                      /\ \A k \in 1..sizes[ids[m]] :
                            m + k - 1 <= l2 => ids[m + k - 1] = ids[m] /\ ats[m + k - 1] = k
    BY DEF Whole
  <2>1. m \in 1..n /\ m \in 1..l /\ ids[m] # last /\ ~OutOfStep(ids[m], lost)
    <3>1. m \in 1..n /\ m \in 1..l
      BY <1>1
    <3>2. ids[m] \in Nat
      BY <3>1
    <3>3. ids[m] # last
      BY <1>9
    <3> QED BY <1>7, <3>1, <3>2, <3>3
  <2>2. /\ dead \/ m + sizes[ids[m]] - 1 <= l
        /\ \A k \in 1..sizes[ids[m]] :
              m + k - 1 <= l => ids[m + k - 1] = ids[m] /\ ats[m + k - 1] = k
    BY <2>1 DEF Flow, Whole
  <2>3. ASSUME ~dead PROVE m + sizes[ids[m]] - 1 <= l2
    <3> DEFINE e == m + sizes[ids[m]] - 1
    <3>1. e \in 1..l /\ sizes[ids[m]] \in 1..sizes[ids[m]] /\ l = n
      BY <1>2, <2>1, <2>2, <2>3
    <3>2. ids[e] = ids[m]
      BY <2>2, <3>1
    <3> QED BY <1>0, <2>1, <2>3, <3>1, <3>2
  <2> QED BY <1>1, <1>2, <2>1, <2>2, <2>3
<1>11. Complete(l2, dead, ids, ats, newest, last, bad2, lost2)
  <2> SUFFICES ASSUME NEW j \in newest + 1..last, j \notin bad2, ~OutOfStep(j, lost2)
               PROVE  \/ \E m \in 1..l2 : ids[m] = j /\ ats[m] = 1
                      \/ dead /\ \A i \in 1..l2 : ids[i] <= j
    BY DEF Complete
  <2>1. j \notin bad /\ ~OutOfStep(j, lost) /\ j # last
    BY <1>0, <1>1, <1>7 DEF OutOfStep
  <2>2. CASE dead
    BY <1>0, <2>1, <2>2 DEF Flow, Complete
  <2>3. CASE ~dead
    <3>1. PICK m \in 1..l : ids[m] = j /\ ats[m] = 1
      BY <2>1, <2>3 DEF Flow, Complete
    <3>2. m < c
      BY <1>0, <2>1, <2>3, <3>1
    <3> QED BY <1>0, <2>3, <3>1, <3>2
  <2> QED BY <2>2, <2>3
<1>12. Paired(l2, ids, ats)
  <2>1. \A i \in 2..l2 : i \in 2..l
    BY <1>1
  <2> QED BY <2>1 DEF Flow, Paired
<1> QED BY <1>0, <1>3, <1>4, <1>6, <1>8, <1>10, <1>11, <1>12 DEF Flow

\* receive_frame uses the first b cells.  It may not take the first cell of a
\* frame that has no excuse, nor leave a part of a frame that is in step.
Droppable(b, n, l, ids, ats, newest2, bad, lost2) ==
    /\ \A i \in b + 1..n : ids[i] > newest2
    /\ \A i \in 1..b : ats[i] = 1 /\ ids[i] > newest2
                       => ids[i] \in bad \/ OutOfStep(ids[i], lost2)
    /\ \A i \in b + 1..l : OutOfStep(ids[i], lost2) \/ ats[i] <= i - b

Dropped(d, n, l, ids, ats, seen, n2, l2, ids2, ats2, seen2) ==
    /\ n2 = n - d /\ l2 = l - d
    /\ \A i \in Nat : ids2[i] = ids[i + d] /\ ats2[i] = ats[i + d] /\ seen2[i] = seen[i + d]

LEMMA FlowDropped ==
    ASSUME NEW n \in Nat, NEW l \in 0..n, NEW dead \in BOOLEAN, ~dead => l = n,
           NEW ids \in [Nat -> Nat], NEW ats \in [Nat -> Nat], NEW seen \in [Nat -> Nat],
           NEW last \in Nat, NEW newest \in 0..last, NEW sizes, \A j \in 1..last : sizes[j] \in Nat,
           NEW bad, NEW lost, \A x \in bad \cup lost : x \in 1..last,
           Flow(n, l, dead, ids, ats, seen, newest, last, sizes, bad, lost),
           NEW d \in 0..l, NEW newest2 \in newest..last, NEW lost2, lost \subseteq lost2,
           Droppable(d, n, l, ids, ats, newest2, bad, lost2),
           \A i \in d + 1..l : ats[i] = 1 => ids[i] \in lost \/ ids[i] \notin lost2,
           NEW n2, NEW l2, NEW ids2, NEW ats2, NEW seen2,
           Dropped(d, n, l, ids, ats, seen, n2, l2, ids2, ats2, seen2)
    PROVE  Flow(n2, l2, dead, ids2, ats2, seen2, newest2, last, sizes, bad, lost2)
<1>1. \A i \in Nat : ids2[i] = ids[i + d] /\ ats2[i] = ats[i + d] /\ seen2[i] = seen[i + d]
  BY DEF Dropped
<1>0. /\ \A i \in d + 1..n : ids[i] > newest2
      /\ \A i \in 1..d : ats[i] = 1 /\ ids[i] > newest2
                         => ids[i] \in bad \/ OutOfStep(ids[i], lost2)
      /\ \A i \in d + 1..l : OutOfStep(ids[i], lost2) \/ ats[i] <= i - d
  BY DEF Droppable
<1>2. \A i \in 1..n : /\ ids[i] \in newest + 1..last /\ ats[i] \in 1..sizes[ids[i]]
                      /\ sizes[ids[i]] \in Nat
  BY DEF Flow, Placed
<1>3. \A i \in 1..n - d : i \in Nat /\ i + d \in 1..n /\ i + d \in d + 1..n
  OBVIOUS
<1>4. \A i \in 1..l - d : i \in Nat /\ i + d \in 1..l /\ i + d \in d + 1..l /\ i + d \in 1..n
  OBVIOUS
<1>5. \A k \in Nat : OutOfStep(k, lost) => OutOfStep(k, lost2)
  BY DEF OutOfStep
<1>6. Placed(n - d, ids2, ats2, seen2, newest2, last, sizes, bad)
  <2> SUFFICES ASSUME NEW i \in 1..n - d
               PROVE /\ ids[i + d] \in newest2 + 1..last /\ ats[i + d] \in 1..sizes[ids[i + d]]
                     /\ \/ seen[i + d] = ats[i + d]
                        \/ seen[i + d] = 0 /\ ats[i + d] > 2 /\ ids[i + d] \in bad
    BY <1>1, <1>3 DEF Placed
  <2>1. ids[i + d] > newest2 /\ ids[i + d] \in newest + 1..last
    BY <1>0, <1>2, <1>3
  <2>2. ids[i + d] \in newest2 + 1..last
    BY <2>1
  <2> QED BY <1>3, <2>2 DEF Flow, Placed
<1>7. Ascending(n - d, ids2, ats2)
  <2> SUFFICES ASSUME NEW i \in 1..n - d, NEW k \in 1..n - d, i < k
               PROVE /\ ids[i + d] <= ids[k + d]
                     /\ ids[i + d] = ids[k + d] => ats[k + d] >= ats[i + d] + (k - i)
    BY <1>1, <1>3 DEF Ascending
  <2>1. i + d \in 1..n /\ k + d \in 1..n /\ i + d < k + d /\ (k + d) - (i + d) = k - i
    BY <1>3
  <2> QED BY <2>1 DEF Flow, Ascending
<1>8. Unharmed(l - d, ids2, ats2, seen2, sizes, bad, lost2)
  <2> SUFFICES ASSUME NEW m \in 1..l - d, ats2[m] = 1, m + sizes[ids2[m]] - 1 <= l - d,
                      \A k \in 1..sizes[ids2[m]] :
                         ids2[m + k - 1] = ids2[m] /\ seen2[m + k - 1] = k
               PROVE  ids2[m] \notin bad \cup lost2
    BY DEF Unharmed
  <2>0. PICK x \in Nat : x = m + d
    OBVIOUS
  <2>1. /\ x \in 1..l /\ ats[x] = 1 /\ ids2[m] = ids[x] /\ sizes[ids[x]] \in Nat /\ x \in d + 1..l
        /\ x + sizes[ids[x]] - 1 <= l
    <3>1. /\ x \in 1..l /\ ats[x] = 1 /\ ids2[m] = ids[x] /\ sizes[ids[x]] \in Nat
          /\ x \in d + 1..l
      BY <1>1, <1>2, <1>4, <2>0
    <3> QED BY <2>0, <3>1
  <2>2. ASSUME NEW k \in 1..sizes[ids[x]] PROVE ids[x + k - 1] = ids[x] /\ seen[x + k - 1] = k
    <3>1. m + k - 1 \in Nat /\ (m + k - 1) + d = x + k - 1
      BY <2>0, <2>1
    <3> QED BY <1>1, <2>1, <3>1
  <2>3. ids[x] \notin bad \cup lost
    BY <2>1, <2>2 DEF Flow, Unharmed
  <2> QED BY <2>1, <2>3
<1>9. Begun(l - d, ids2, ats2, lost2)
  <2> SUFFICES ASSUME NEW i \in 1..l - d, ~OutOfStep(ids2[i], lost2)
               PROVE  /\ ats2[i] <= i
                      /\ ids2[i - ats2[i] + 1] = ids2[i] /\ ats2[i - ats2[i] + 1] = 1
    BY DEF Begun
  <2>1. /\ i + d \in 1..l /\ i + d \in d + 1..l /\ ids2[i] = ids[i + d] /\ ats2[i] = ats[i + d]
        /\ ids[i + d] \in Nat /\ ats[i + d] \in Nat \ {0}
    BY <1>1, <1>2, <1>4
  <2>2. PICK a \in Nat \ {0} : a = ats[i + d]
    BY <2>1
  <2>3. /\ ids[(i + d) - a + 1] = ids[i + d] /\ ats[(i + d) - a + 1] = 1
    BY <1>5, <2>1, <2>2 DEF Flow, Begun
  <2>4. a <= i
    BY <1>0, <2>1, <2>2
  <2>5. i - a + 1 \in Nat /\ (i - a + 1) + d = (i + d) - a + 1
    BY <2>2, <2>4
  <2> QED BY <1>1, <2>1, <2>2, <2>3, <2>4, <2>5
<1>10. Whole(l - d, dead, ids2, ats2, sizes, lost2)
  <2> SUFFICES ASSUME NEW m \in 1..l - d, ats2[m] = 1, ~OutOfStep(ids2[m], lost2)
               PROVE  /\ dead \/ m + sizes[ids2[m]] - 1 <= l - d
                      /\ \A k \in 1..sizes[ids2[m]] :
                            m + k - 1 <= l - d => ids2[m + k - 1] = ids2[m] /\ ats2[m + k - 1] = k
    BY DEF Whole
  <2>1. PICK x \in Nat : x = m + d
    OBVIOUS
  <2>2. /\ x \in 1..l /\ ats[x] = 1 /\ ids2[m] = ids[x] /\ ids[x] \in Nat /\ sizes[ids[x]] \in Nat
    BY <1>1, <1>2, <1>4, <2>1
  <2>3. /\ dead \/ x + sizes[ids[x]] - 1 <= l
        /\ \A k \in 1..sizes[ids[x]] :
              x + k - 1 <= l => ids[x + k - 1] = ids[x] /\ ats[x + k - 1] = k
    BY <1>5, <2>2 DEF Flow, Whole
  <2>4. dead \/ m + sizes[ids[x]] - 1 <= l - d
    BY <2>1, <2>2, <2>3
  <2>5. ASSUME NEW k \in 1..sizes[ids[x]], m + k - 1 <= l - d
        PROVE  ids2[m + k - 1] = ids[x] /\ ats2[m + k - 1] = k
    <3>1. m + k - 1 \in Nat /\ (m + k - 1) + d = x + k - 1 /\ x + k - 1 <= l
      BY <2>1, <2>2, <2>5
    <3> QED BY <1>1, <2>3, <3>1
  <2> QED BY <2>2, <2>4, <2>5
<1>11. Complete(l - d, dead, ids2, ats2, newest2, last, bad, lost2)
  <2> SUFFICES ASSUME NEW j \in newest2 + 1..last, j \notin bad, ~OutOfStep(j, lost2)
               PROVE  \/ \E m \in 1..l - d : ids2[m] = j /\ ats2[m] = 1
                      \/ dead /\ \A i \in 1..l - d : ids2[i] <= j
    BY DEF Complete
  <2>1. j \in newest + 1..last /\ ~OutOfStep(j, lost)
    BY <1>5
  <2>2. CASE \E m \in 1..l : ids[m] = j /\ ats[m] = 1
    <3>1. PICK m \in 1..l : ids[m] = j /\ ats[m] = 1
      BY <2>2
    <3>2. m \notin 1..d
      <4>1. j > newest2
        OBVIOUS
      <4> QED BY <1>0, <3>1, <4>1
    <3>3. m - d \in 1..l - d /\ m - d \in Nat /\ (m - d) + d = m
      BY <3>1, <3>2
    <3> QED BY <1>1, <3>1, <3>3
  <2>3. CASE dead /\ \A i \in 1..l : ids[i] <= j
    BY <1>1, <1>4, <2>3
  <2> QED BY <2>1, <2>2, <2>3 DEF Flow, Complete
<1>12. Paired(l - d, ids2, ats2)
  <2> SUFFICES ASSUME NEW i \in 2..l - d, ats2[i] = 2 PROVE ids2[i - 1] = ids2[i]
    BY DEF Paired
  <2>1. i + d \in 2..l /\ i \in Nat /\ i - 1 \in Nat /\ (i - 1) + d = (i + d) - 1
    OBVIOUS
  <2>2. ids[(i + d) - 1] = ids[i + d]
    BY <1>1, <2>1 DEF Flow, Paired
  <2> QED BY <1>1, <2>1, <2>2
<1> QED BY <1>6, <1>7, <1>8, <1>9, <1>10, <1>11, <1>12 DEF Flow, Dropped

\* A body cell is changed on the way.
Changed(n, ids, ats, seen, bad, c, seen2, bad2) ==
    /\ c \in 1..n /\ ats[c] > 2 /\ bad2 = bad \cup {ids[c]}
    /\ seen2[c] = 0 /\ \A i \in 1..n : i # c => seen2[i] = seen[i]

LEMMA FlowChanged ==
    ASSUME NEW n \in Nat,
           NEW ids \in [Nat -> Nat], NEW ats \in [Nat -> Nat], NEW seen \in [Nat -> Nat],
           NEW last \in Nat, NEW newest \in 0..last, NEW sizes, \A j \in 1..last : sizes[j] \in Nat,
           NEW bad, NEW lost,
           Flow(n, n, FALSE, ids, ats, seen, newest, last, sizes, bad, lost),
           NEW c, NEW seen2, NEW bad2, Changed(n, ids, ats, seen, bad, c, seen2, bad2)
    PROVE  Flow(n, n, FALSE, ids, ats, seen2, newest, last, sizes, bad2, lost)
<1>1. /\ c \in 1..n /\ ats[c] > 2
      /\ seen2[c] = 0 /\ \A i \in 1..n : i # c => seen2[i] = seen[i]
  BY DEF Changed
<1>2. ids[c] \in bad2 /\ bad \subseteq bad2 /\ bad2 = bad \cup {ids[c]}
  BY DEF Changed
<1>3. \A i \in 1..n : /\ ids[i] \in newest + 1..last /\ ats[i] \in 1..sizes[ids[i]]
                      /\ sizes[ids[i]] \in Nat
  BY DEF Flow, Placed
<1>4. Placed(n, ids, ats, seen2, newest, last, sizes, bad2)
  BY <1>1, <1>2 DEF Flow, Placed
<1>5. Unharmed(n, ids, ats, seen2, sizes, bad2, lost)
  <2> SUFFICES ASSUME NEW m \in 1..n, ats[m] = 1, m + sizes[ids[m]] - 1 <= n,
                      \A k \in 1..sizes[ids[m]] :
                         ids[m + k - 1] = ids[m] /\ seen2[m + k - 1] = k
               PROVE  ids[m] \notin bad2 \cup lost
    BY DEF Unharmed
  <2> DEFINE z == sizes[ids[m]]
  <2>1. z \in Nat \ {0} /\ z \in 1..z
    BY <1>3
  <2>2. \A k \in 1..z : m + k - 1 \in 1..n /\ m + k - 1 # c
    <3> TAKE k \in 1..z
    <3>1. seen2[m + k - 1] = k /\ k # 0
      OBVIOUS
    <3>2. m + k - 1 \in 1..n
      BY <2>1
    <3> QED BY <1>1, <3>1, <3>2
  <2>3. ids[m] \notin bad \cup lost
    <3>1. \A k \in 1..z : ids[m + k - 1] = ids[m] /\ seen[m + k - 1] = k
      BY <1>1, <2>2
    <3> QED BY <3>1 DEF Flow, Unharmed
  <2>4. ids[m] # ids[c]
    <3> SUFFICES ASSUME ids[m] = ids[c] PROVE FALSE
      OBVIOUS
    <3>1. CASE c < m
      BY <1>1, <1>3, <3>1 DEF Flow, Ascending
    <3>2. CASE c > m + z - 1
      <4>1. PICK e \in 1..n : e = m + z - 1
        BY <2>1
      <4>2. ids[e] = ids[c] /\ seen2[e] = z /\ e # c
        BY <2>1, <2>2, <4>1
      <4>3. ats[e] = z
        <5>1. seen[e] = z /\ z # 0
          BY <1>1, <2>1, <4>2
        <5>2. seen[e] = ats[e] \/ seen[e] = 0
          BY DEF Flow, Placed
        <5> QED BY <5>1, <5>2
      <4>4. ats[c] >= ats[e] + (c - e)
        BY <1>1, <3>2, <4>1, <4>2 DEF Flow, Ascending
      <4> QED BY <1>1, <1>3, <2>1, <3>2, <4>1, <4>3, <4>4
    <3>3. CASE c \in m..m + z - 1
      <4>1. c - m + 1 \in 1..z /\ m + (c - m + 1) - 1 = c
        BY <1>1, <2>1, <3>3
      <4> QED BY <2>2, <4>1
    <3> QED BY <1>1, <2>1, <3>1, <3>2, <3>3
  <2> QED BY <1>2, <2>3, <2>4
<1>6. Complete(n, FALSE, ids, ats, newest, last, bad2, lost)
  BY <1>2 DEF Flow, Complete
<1> QED BY <1>4, <1>5, <1>6 DEF Flow

\* The connection breaks: the w cells behind the first b are gone, and nothing
\* more will be received.
Spliced(b, w, n, ids, ats, seen, n2, ids2, ats2, seen2) ==
    /\ n2 = n - w
    /\ \A i \in Nat : i <= b => ids2[i] = ids[i] /\ ats2[i] = ats[i] /\ seen2[i] = seen[i]
    /\ \A i \in Nat : i > b => /\ ids2[i] = ids[i + w] /\ ats2[i] = ats[i + w]
                               /\ seen2[i] = seen[i + w]

LEMMA FlowBroken ==
    ASSUME NEW n \in Nat, NEW b \in 0..n, NEW w \in Nat, b + w <= n,
           NEW ids \in [Nat -> Nat], NEW ats \in [Nat -> Nat], NEW seen \in [Nat -> Nat],
           NEW last \in Nat, NEW newest \in 0..last, NEW sizes, \A j \in 1..last : sizes[j] \in Nat,
           NEW bad, NEW lost,
           Flow(n, n, FALSE, ids, ats, seen, newest, last, sizes, bad, lost),
           NEW n2, NEW ids2, NEW ats2, NEW seen2,
           Spliced(b, w, n, ids, ats, seen, n2, ids2, ats2, seen2)
    PROVE  Flow(n2, b, TRUE, ids2, ats2, seen2, newest, last, sizes, bad, lost)
<1> USE DEF Spliced
<1>1. \A i \in 1..b : i \in 1..n /\ ids2[i] = ids[i] /\ ats2[i] = ats[i] /\ seen2[i] = seen[i]
  OBVIOUS
<1>2. \A i \in 1..n - w :
         \E x \in 1..n : /\ ids2[i] = ids[x] /\ ats2[i] = ats[x] /\ seen2[i] = seen[x]
                         /\ (i <= b /\ x = i) \/ (i > b /\ x = i + w)
  <2> TAKE i \in 1..n - w
  <2>1. CASE i <= b
    BY <2>1
  <2>2. CASE i > b
    <3>1. i + w \in 1..n /\ i \in Nat
      BY <2>2
    <3> QED BY <2>2, <3>1
  <2>3. i <= b \/ i > b
    OBVIOUS
  <2> QED BY <2>1, <2>2, <2>3
<1>3. \A i \in 1..n : /\ ids[i] \in newest + 1..last /\ ats[i] \in 1..sizes[ids[i]]
                      /\ sizes[ids[i]] \in Nat
  BY DEF Flow, Placed
<1> HIDE DEF Spliced
<1>4. Placed(n - w, ids2, ats2, seen2, newest, last, sizes, bad)
  BY <1>2 DEF Flow, Placed
<1>5. Ascending(n - w, ids2, ats2)
  <2> SUFFICES ASSUME NEW i \in 1..n - w, NEW k \in 1..n - w, i < k
               PROVE /\ ids2[i] <= ids2[k]
                     /\ ids2[i] = ids2[k] => ats2[k] >= ats2[i] + (k - i)
    BY DEF Ascending
  <2>1. PICK x \in 1..n : /\ ids2[i] = ids[x] /\ ats2[i] = ats[x]
                          /\ (i <= b /\ x = i) \/ (i > b /\ x = i + w)
    BY <1>2
  <2>2. PICK y \in 1..n : /\ ids2[k] = ids[y] /\ ats2[k] = ats[y]
                          /\ (k <= b /\ y = k) \/ (k > b /\ y = k + w)
    BY <1>2
  <2>3. x < y /\ y - x >= k - i
    BY <2>1, <2>2
  <2>4. ids[x] <= ids[y] /\ (ids[x] = ids[y] => ats[y] >= ats[x] + (y - x))
    BY <2>3 DEF Flow, Ascending
  <2> QED BY <1>3, <2>1, <2>2, <2>3, <2>4
<1>6. Unharmed(b, ids2, ats2, seen2, sizes, bad, lost)
  <2> SUFFICES ASSUME NEW m \in 1..b, ats2[m] = 1, m + sizes[ids2[m]] - 1 <= b,
                      \A k \in 1..sizes[ids2[m]] :
                         ids2[m + k - 1] = ids2[m] /\ seen2[m + k - 1] = k
               PROVE  ids2[m] \notin bad \cup lost
    BY DEF Unharmed
  <2>1. /\ m \in 1..n /\ ids2[m] = ids[m] /\ ats[m] = 1 /\ sizes[ids[m]] \in Nat
        /\ m + sizes[ids[m]] - 1 <= n
    BY <1>1, <1>3
  <2>2. ASSUME NEW k \in 1..sizes[ids[m]] PROVE ids[m + k - 1] = ids[m] /\ seen[m + k - 1] = k
    <3>1. m + k - 1 \in 1..b
      BY <2>1
    <3> QED BY <1>1, <2>1, <3>1
  <2> QED BY <2>1, <2>2 DEF Flow, Unharmed
<1>7. Begun(b, ids2, ats2, lost)
  <2> SUFFICES ASSUME NEW i \in 1..b, ~OutOfStep(ids2[i], lost)
               PROVE  /\ ats2[i] <= i
                      /\ ids2[i - ats2[i] + 1] = ids2[i] /\ ats2[i - ats2[i] + 1] = 1
    BY DEF Begun
  <2>1. i \in 1..n /\ ids2[i] = ids[i] /\ ats2[i] = ats[i] /\ ats[i] \in Nat \ {0}
    BY <1>1, <1>3
  <2>2. PICK a \in Nat \ {0} : a = ats[i]
    BY <2>1
  <2>3. a <= i /\ ids[i - a + 1] = ids[i] /\ ats[i - a + 1] = 1
    BY <2>1, <2>2 DEF Flow, Begun
  <2>4. i - a + 1 \in 1..b
    BY <2>2, <2>3
  <2> QED BY <1>1, <2>1, <2>2, <2>3, <2>4
<1>8. Whole(b, TRUE, ids2, ats2, sizes, lost)
  <2> SUFFICES ASSUME NEW m \in 1..b, ats2[m] = 1, ~OutOfStep(ids2[m], lost),
                      NEW k \in 1..sizes[ids2[m]], m + k - 1 <= b
               PROVE  ids2[m + k - 1] = ids2[m] /\ ats2[m + k - 1] = k
    BY DEF Whole
  <2>1. m \in 1..n /\ ids2[m] = ids[m] /\ ats[m] = 1 /\ sizes[ids[m]] \in Nat
    BY <1>1, <1>3
  <2>2. m + k - 1 \in 1..b /\ m + k - 1 <= n
    BY <2>1
  <2>3. ids[m + k - 1] = ids[m] /\ ats[m + k - 1] = k
    BY <2>1, <2>2 DEF Flow, Whole
  <2> QED BY <1>1, <2>1, <2>2, <2>3
<1>9. Complete(b, TRUE, ids2, ats2, newest, last, bad, lost)
  <2> SUFFICES ASSUME NEW j \in newest + 1..last, j \notin bad, ~OutOfStep(j, lost)
               PROVE  \/ \E m \in 1..b : ids2[m] = j /\ ats2[m] = 1
                      \/ \A i \in 1..b : ids2[i] <= j
    BY DEF Complete
  <2>1. PICK m \in 1..n : ids[m] = j /\ ats[m] = 1
    BY DEF Flow, Complete
  <2>2. CASE m \in 1..b
    BY <1>1, <2>1, <2>2
  <2>3. CASE m > b
    <3>1. \A i \in 1..b : i < m /\ i \in 1..n
      BY <2>3
    <3>2. \A i \in 1..b : ids[i] <= ids[m]
      BY <3>1 DEF Flow, Ascending
    <3> QED BY <1>1, <2>1, <3>2
  <2> QED BY <2>2, <2>3
<1>10. Paired(b, ids2, ats2)
  <2>1. \A i \in 2..b : i \in 2..n /\ i \in 1..b /\ i - 1 \in 1..b
    OBVIOUS
  <2> QED BY <1>1, <2>1 DEF Flow, Paired
<1> QED BY <1>4, <1>5, <1>6, <1>7, <1>8, <1>9, <1>10 DEF Flow, Spliced

\* Out of step there is nothing to lose.
LEMMA FlowAstray ==
    ASSUME NEW n \in Nat, NEW l \in 1..n, NEW dead \in BOOLEAN,
           NEW ids \in [Nat -> Nat], NEW ats \in [Nat -> Nat], NEW seen \in [Nat -> Nat],
           NEW last \in Nat, NEW newest \in 0..last, NEW sizes, NEW bad,
           NEW lost, NEW lost2, \A x \in lost2 : x \in 1..last,
           Flow(n, l, dead, ids, ats, seen, newest, last, sizes, bad, lost),
           OutOfStep(ids[1], lost2), NEW b \in 1..l
    PROVE  Droppable(b, n, l, ids, ats, newest, bad, lost2)
<1>1. \A i \in 1..n : ids[i] \in newest + 1..last /\ ids[i] >= ids[1]
  BY DEF Flow, Placed, Ascending
<1>2. \A i \in 1..n : OutOfStep(ids[i], lost2)
  BY <1>1 DEF OutOfStep
<1>3. \A i \in b + 1..n : i \in 1..n /\ ids[i] > newest
  BY <1>1
<1> QED BY <1>2, <1>3 DEF Droppable

\* What the first two cells show: the stream is out of step, or they are the
\* header of one frame.
Headed(ids, ats, seen) ==
    ids[2] = ids[1] /\ ats[1] = 1 /\ ats[2] = 2 /\ seen[1] = 1 /\ seen[2] = 2

HeaderShows(ids, ats, seen, lost) ==
    \/ OutOfStep(ids[1], lost) /\ (seen[1] # 1 \/ seen[2] # 2)
    \/ Headed(ids, ats, seen)

LEMMA FlowHeader ==
    ASSUME NEW n \in Nat, NEW l \in 2..n, NEW dead \in BOOLEAN,
           NEW ids \in [Nat -> Nat], NEW ats \in [Nat -> Nat], NEW seen \in [Nat -> Nat],
           NEW last \in Nat, NEW newest \in 0..last,
           NEW sizes, \A j \in 1..last : sizes[j] \in Nat /\ sizes[j] >= 2, NEW bad, NEW lost,
           Flow(n, l, dead, ids, ats, seen, newest, last, sizes, bad, lost)
    PROVE  HeaderShows(ids, ats, seen, lost)
<1> SUFFICES \/ OutOfStep(ids[1], lost) /\ (seen[1] # 1 \/ seen[2] # 2)
             \/ ids[2] = ids[1] /\ ats[1] = 1 /\ ats[2] = 2 /\ seen[1] = 1 /\ seen[2] = 2
  BY DEF HeaderShows, Headed
<1>1. /\ 1 \in 1..n /\ 2 \in 1..n /\ 1 \in 1..l /\ 2 \in 1..l /\ 2 \in 2..l
  OBVIOUS
<1>2. /\ seen[1] = ats[1] \/ (seen[1] = 0 /\ ats[1] > 2)
      /\ seen[2] = ats[2] \/ (seen[2] = 0 /\ ats[2] > 2)
      /\ ids[1] \in 1..last /\ ats[1] \in Nat \ {0} /\ sizes[ids[1]] \in Nat /\ sizes[ids[1]] >= 2
  BY <1>1 DEF Flow, Placed
<1>3. CASE seen[1] = 1 /\ seen[2] = 2
  <2>1. ats[1] = 1 /\ ats[2] = 2
    BY <1>2, <1>3
  <2>2. ids[2 - 1] = ids[2]
    BY <1>1, <2>1 DEF Flow, Paired
  <2> QED BY <1>3, <2>1, <2>2
<1>4. CASE ~(seen[1] = 1 /\ seen[2] = 2)
  <2> SUFFICES ASSUME ~OutOfStep(ids[1], lost) PROVE FALSE
    BY <1>4
  <2>1. ats[1] = 1
    BY <1>1, <1>2 DEF Flow, Begun
  <2>2. 2 \in 1..sizes[ids[1]] /\ 1 + 2 - 1 = 2
    BY <1>2
  <2>3. ats[2] = 2
    BY <1>1, <2>1, <2>2 DEF Flow, Whole
  <2> QED BY <1>2, <1>4, <2>1, <2>3
<1> QED BY <1>3, <1>4

\* A frame read as it was written is the next one the receiver may have, and
\* one whose check sum fails has an excuse.
BodyShows(b, n, l, ids, ats, seen, newest, bad, lost) ==
    IF \A i \in 3..b : ids[i] = ids[1] /\ seen[i] = i
    THEN /\ ids[1] \notin bad \cup lost
         /\ \A j \in newest + 1..ids[1] - 1 : j \in bad \/ OutOfStep(j, lost)
         /\ Droppable(b, n, l, ids, ats, ids[1], bad, lost)
    ELSE Droppable(b, n, l, ids, ats, newest, bad, lost)

LEMMA FlowBody ==
    ASSUME NEW n \in Nat, NEW l \in 2..n, NEW dead \in BOOLEAN,
           NEW ids \in [Nat -> Nat], NEW ats \in [Nat -> Nat], NEW seen \in [Nat -> Nat],
           NEW last \in Nat, NEW newest \in 0..last,
           NEW sizes, \A j \in 1..last : sizes[j] \in Nat /\ sizes[j] >= 2,
           NEW bad, NEW lost, \A x \in bad \cup lost : x \in 1..last,
           Flow(n, l, dead, ids, ats, seen, newest, last, sizes, bad, lost),
           NEW b \in 2..l, b = sizes[ids[1]],
           Headed(ids, ats, seen)
    PROVE  BodyShows(b, n, l, ids, ats, seen, newest, bad, lost)
<1> SUFFICES IF \A i \in 3..b : ids[i] = ids[1] /\ seen[i] = i
             THEN /\ ids[1] \notin bad \cup lost
                  /\ \A j \in newest + 1..ids[1] - 1 : j \in bad \/ OutOfStep(j, lost)
                  /\ Droppable(b, n, l, ids, ats, ids[1], bad, lost)
             ELSE Droppable(b, n, l, ids, ats, newest, bad, lost)
  BY DEF BodyShows
<1> USE DEF Headed
<1>1. \A i \in 1..n : /\ ids[i] \in newest + 1..last /\ ats[i] \in 1..sizes[ids[i]]
                      /\ sizes[ids[i]] \in Nat
                      /\ seen[i] = ats[i] \/ (seen[i] = 0 /\ ats[i] > 2 /\ ids[i] \in bad)
  BY DEF Flow, Placed
<1>2. 1 \in 1..n /\ 1 \in 1..l /\ b \in 1..n /\ \A i \in 1..b : i \in {1, 2} \cup 3..b
  OBVIOUS
<1>3. \A i \in 1..n : ids[i] >= ids[1]
  BY <1>1, <1>2 DEF Flow, Ascending
<1>4. PICK k \in newest + 1..last : k = ids[1]
  BY <1>1, <1>2
<1>5. ASSUME \A i \in 3..b : ids[i] = ids[1] /\ seen[i] = i
      PROVE  /\ k \notin bad \cup lost
             /\ \A j \in newest + 1..k - 1 : j \in bad \/ OutOfStep(j, lost)
             /\ Droppable(b, n, l, ids, ats, k, bad, lost)
  <2>1. \A i \in 1..b : ids[i] = k /\ seen[i] = i
    BY <1>2, <1>4, <1>5
  <2>2. k \notin bad \cup lost
    <3>1. 1 + sizes[ids[1]] - 1 <= l
      OBVIOUS
    <3>2. \A i \in 1..sizes[ids[1]] : 1 + i - 1 = i
      OBVIOUS
    <3> QED BY <1>2, <1>4, <2>1, <3>1, <3>2 DEF Flow, Unharmed
  <2>3. \A j \in newest + 1..k - 1 : j \in bad \/ OutOfStep(j, lost)
    <3> SUFFICES ASSUME NEW j \in newest + 1..k - 1, j \notin bad, ~OutOfStep(j, lost)
                 PROVE FALSE
      OBVIOUS
    <3>1. \/ \E m \in 1..l : ids[m] = j
          \/ \A i \in 1..l : ids[i] <= j
      <4>1. j \in newest + 1..last
        BY <1>4
      <4> QED BY <4>1 DEF Flow, Complete
    <3>2. \A m \in 1..l : m \in 1..n /\ ids[m] \in Nat /\ ids[m] >= k
      BY <1>3, <1>4
    <3> QED BY <1>2, <3>1, <3>2
  <2>4. ats[b] = b
    <3>1. b \in 1..b /\ b # 0
      OBVIOUS
    <3>2. seen[b] = b /\ (seen[b] = ats[b] \/ seen[b] = 0)
      BY <1>1, <1>2, <2>1, <3>1
    <3> QED BY <3>1, <3>2
  <2>5. ASSUME NEW i \in b + 1..n PROVE ids[i] > k
    <3>1. i \in 1..n /\ b < i
      OBVIOUS
    <3>2. ids[b] <= ids[i] /\ (ids[b] = ids[i] => ats[i] >= ats[b] + (i - b))
      BY <1>2, <3>1 DEF Flow, Ascending
    <3>3. ids[i] \in Nat /\ ids[b] = k /\ (ids[i] = k => ats[i] \in 1..b)
      BY <1>1, <1>2, <1>4, <2>1, <3>1
    <3>4. ids[i] # k
      <4> SUFFICES ASSUME ids[i] = k PROVE FALSE
        OBVIOUS
      <4>1. ats[i] >= b + (i - b) /\ ats[i] \in 1..b
        BY <2>4, <3>2, <3>3
      <4> QED BY <3>1, <4>1
    <3>5. PICK x \in Nat : x = ids[i]
      BY <3>3
    <3>6. x >= k /\ x # k
      BY <3>2, <3>3, <3>4, <3>5
    <3>7. x > k
      BY <3>6
    <3> QED BY <3>5, <3>7
  <2>6. ASSUME NEW i \in b + 1..l, ~OutOfStep(ids[i], lost) PROVE ats[i] <= i - b
    <3>1. i \in 1..n /\ i \in 1..l /\ ids[i] > k
      BY <2>5
    <3>2. PICK a \in Nat \ {0} : a = ats[i]
      BY <1>1, <3>1
    <3>3. a <= i /\ ids[i - a + 1] = ids[i]
      BY <2>6, <3>1, <3>2 DEF Flow, Begun
    <3>4. i - a + 1 \notin 1..b
      BY <1>4, <2>1, <3>1, <3>3
    <3> QED BY <3>1, <3>2, <3>3, <3>4
  <2>7. \A i \in 1..b : ~(ids[i] > k)
    BY <2>1
  <2> QED BY <2>2, <2>3, <2>5, <2>6, <2>7 DEF Droppable
<1>6. ASSUME NEW c \in 3..b, ids[c] # ids[1] \/ seen[c] # c
      PROVE  Droppable(b, n, l, ids, ats, newest, bad, lost)
  <2>1. CASE OutOfStep(k, lost)
    <3>1. l \in 1..n /\ b \in 1..l /\ OutOfStep(ids[1], lost) /\ \A x \in lost : x \in 1..last
      BY <1>4, <2>1
    <3> QED BY <3>1, FlowAstray
  <2>2. CASE ~OutOfStep(k, lost)
    <3>1. \A i \in 1..b : ids[i] = k /\ ats[i] = i
      <4>1. \A i \in 1..b : i \in 1..sizes[ids[1]] /\ 1 + i - 1 = i /\ i <= l
        OBVIOUS
      <4> QED BY <1>2, <1>4, <2>2, <4>1 DEF Flow, Whole
    <3>2. k \in bad
      BY <1>1, <1>4, <1>6, <3>1
    <3>3. ASSUME NEW i \in b + 1..l, ~OutOfStep(ids[i], lost) PROVE ats[i] <= i - b
      <4>1. i \in 1..n /\ i \in 1..l
        OBVIOUS
      <4>2. PICK a \in Nat \ {0} : a = ats[i]
        BY <1>1, <4>1
      <4>3. a <= i /\ ids[i - a + 1] = ids[i] /\ ats[i - a + 1] = 1
        BY <3>3, <4>1, <4>2 DEF Flow, Begun
      <4>4. ASSUME i - a + 1 \in 1..b PROVE FALSE
        <5>1. i - a + 1 = 1 /\ ids[i] = k
          BY <3>1, <4>3, <4>4
        <5>2. ats[i] <= b
          BY <1>1, <1>4, <4>1, <5>1
        <5> QED BY <4>2, <5>1, <5>2
      <4> QED BY <4>1, <4>2, <4>3, <4>4
    <3>4. \A i \in b + 1..n : i \in 1..n /\ ids[i] > newest
      BY <1>1
    <3> QED BY <3>1, <3>2, <3>3, <3>4 DEF Droppable
  <2> QED BY <2>1, <2>2
<1> QED BY <1>4, <1>5, <1>6

-----------------------------------------------------------------------------
(* The cells themselves. *)

Cells == [frame : Frames, at : Nat]

Sizes(frames) == [j \in 1..Len(frames) |-> size(frames[j])]

\* The b cells of the buffer, the w cells of the wire and the r cells of the
\* frame being sent, which is the last one accepted and not changed, are the
\* flow's.
CarriedBy(buffer, b, cells, w, tail, r, ids, ats, seen, frames, last) ==
    /\ \A i \in 1..b : buffer[i].frame = frames[ids[i]] /\ buffer[i].at = seen[i]
    /\ \A i \in 1..w : cells[i].frame = frames[ids[b + i]] /\ cells[i].at = seen[b + i]
    /\ \A i \in 1..r : /\ tail[i].frame = frames[last]
                       /\ tail[i].at = seen[b + w + i]
                       /\ ids[b + w + i] = last
                       /\ seen[b + w + i] = ats[b + w + i]

UnderWayBy(buffer, b, cells, w, tail, r, n, l, dead, newest, frames, last, sizes, bad, lost) ==
    \E ids, ats, seen \in [Nat -> Nat] :
       /\ CarriedBy(buffer, b, cells, w, tail, r, ids, ats, seen, frames, last)
       /\ Flow(n, l, dead, ids, ats, seen, newest, last, sizes, bad, lost)

UnderWay(buffer, cells, tail, dead, newest, frames, bad, lost) ==
    UnderWayBy(buffer, Len(buffer), cells, Len(cells), tail, Len(tail),
               Len(buffer) + Len(cells) + Len(tail),
               IF dead THEN Len(buffer) ELSE Len(buffer) + Len(cells) + Len(tail),
               dead, newest, frames, Len(frames), Sizes(frames), bad, lost)

LEMMA FrameFields ==
    ASSUME NEW f \in Frames
    PROVE  /\ f.id \in 1..MaxFrames /\ f.topic \in Nat /\ f.payload \in Nat
           /\ size(f) \in Nat /\ size(f) >= 2
           /\ [f EXCEPT !.flags = f.flags] = f
<1>1. PICK id \in 1..MaxFrames, kind \in {data(b) : b \in bodies} \cup {heartbeat} :
         f = Frame(id, kind)
  BY DEF Frames
<1>2. kind.topic \in Nat /\ kind.payload \in Nat
  BY BodiesAssumption DEF data, heartbeat
<1>3. f = [id |-> id, flags |-> kind.flags, topic |-> kind.topic, payload |-> kind.payload]
  BY <1>1 DEF Frame
<1>4. f.id = id /\ f.topic = kind.topic /\ f.payload = kind.payload
  BY <1>3
<1>5. [f EXCEPT !.flags = f.flags] = f
  BY <1>3
<1> QED BY <1>2, <1>4, <1>5 DEF size, HeaderSize

LEMMA EncodedCells ==
    ASSUME NEW f \in Frames
    PROVE  /\ encode_frame(f) \in Seq(Cells) /\ Len(encode_frame(f)) = size(f)
           /\ \A i \in 1..size(f) : encode_frame(f)[i].frame = f /\ encode_frame(f)[i].at = i
<1>1. size(f) \in Nat
  BY FrameFields
<1>2. \A i \in 1..size(f) : [frame |-> f, at |-> i] \in Cells
  BY <1>1 DEF Cells
<1> QED BY <1>1, <1>2 DEF encode_frame

LEMMA SizesNatural ==
    ASSUME NEW frames \in Seq(Frames)
    PROVE  \A j \in 1..Len(frames) : Sizes(frames)[j] \in Nat /\ Sizes(frames)[j] >= 2
BY FrameFields DEF Sizes

LEMMA SequenceEnds ==
    ASSUME NEW S, NEW q \in Seq(S)
    PROVE  /\ Len(q) \in Nat
           /\ q # << >> => /\ Len(q) \in Nat \ {0} /\ Head(q) = q[1] /\ q[1] \in S
                          /\ Tail(q) \in Seq(S) /\ Len(Tail(q)) = Len(q) - 1
                          /\ \A i \in 1..Len(q) - 1 : Tail(q)[i] = q[i + 1]
           /\ \A e \in S : /\ Append(q, e) \in Seq(S) /\ Len(Append(q, e)) = Len(q) + 1
                            /\ Append(q, e)[Len(q) + 1] = e
                            /\ \A i \in 1..Len(q) : Append(q, e)[i] = q[i]
<1>1. Len(q) \in Nat
  OBVIOUS
<1>2. ASSUME q # << >>
      PROVE  /\ Len(q) \in Nat \ {0} /\ Head(q) = q[1] /\ q[1] \in S
             /\ Tail(q) \in Seq(S) /\ Len(Tail(q)) = Len(q) - 1
  BY <1>2
<1>3. ASSUME q # << >> PROVE \A i \in 1..Len(q) - 1 : Tail(q)[i] = q[i + 1]
  BY <1>3
<1>4. ASSUME NEW e \in S
      PROVE  /\ Append(q, e) \in Seq(S) /\ Len(Append(q, e)) = Len(q) + 1
             /\ Append(q, e)[Len(q) + 1] = e
             /\ \A i \in 1..Len(q) : Append(q, e)[i] = q[i]
  OBVIOUS
<1> QED BY <1>1, <1>2, <1>3, <1>4

\* The first of the n cells in one place becomes the last of the m in another.
Moved(from, n, to, m, from2, n2, to2, m2) ==
    /\ n \in Nat \ {0} /\ m \in Nat /\ n2 = n - 1 /\ m2 = m + 1
    /\ \A i \in 1..m : to2[i] = to[i]
    /\ to2[m + 1] = from[1]
    /\ \A i \in 1..n - 1 : from2[i] = from[i + 1]

LEMMA CellMoved ==
    ASSUME NEW S, NEW from \in Seq(S), NEW to \in Seq(S), from # << >>
    PROVE  Moved(from, Len(from), to, Len(to), Tail(from), Len(Tail(from)),
                 Append(to, Head(from)), Len(Append(to, Head(from))))
BY SequenceEnds DEF Moved

LEMMA BorderSent ==
    ASSUME NEW b \in Nat, NEW w, NEW r, NEW buffer, NEW cells, NEW tail,
           NEW cells2, NEW tail2, NEW ids, NEW ats, NEW seen, NEW frames, NEW last, NEW w2, NEW r2,
           CarriedBy(buffer, b, cells, w, tail, r, ids, ats, seen, frames, last),
           Moved(tail, r, cells, w, tail2, r2, cells2, w2)
    PROVE  CarriedBy(buffer, b, cells2, w2, tail2, r2, ids, ats, seen, frames, last)
<1> USE DEF Moved
<1>1. \A i \in 1..w + 1 : cells2[i].frame = frames[ids[b + i]] /\ cells2[i].at = seen[b + i]
  <2> TAKE i \in 1..w + 1
  <2>1. CASE i \in 1..w
    BY <2>1 DEF CarriedBy
  <2>2. CASE i = w + 1
    <3>1. 1 \in 1..r /\ b + w + 1 = b + i
      BY <2>2
    <3> QED BY <2>2, <3>1 DEF CarriedBy
  <2> QED BY <2>1, <2>2
<1>2. \A i \in 1..r - 1 : /\ tail2[i].frame = frames[last]
                          /\ tail2[i].at = seen[b + (w + 1) + i]
                          /\ ids[b + (w + 1) + i] = last
                          /\ seen[b + (w + 1) + i] = ats[b + (w + 1) + i]
  <2> TAKE i \in 1..r - 1
  <2>1. i + 1 \in 1..r /\ b + w + (i + 1) = b + (w + 1) + i
    OBVIOUS
  <2> QED BY <2>1 DEF CarriedBy
<1> QED BY <1>1, <1>2 DEF CarriedBy

LEMMA BorderReceived ==
    ASSUME NEW b, NEW w, NEW r \in Nat, NEW buffer, NEW cells, NEW tail,
           NEW buffer2, NEW cells2, NEW ids, NEW ats, NEW seen, NEW frames, NEW last, NEW b2, NEW w2,
           CarriedBy(buffer, b, cells, w, tail, r, ids, ats, seen, frames, last),
           Moved(cells, w, buffer, b, cells2, w2, buffer2, b2)
    PROVE  CarriedBy(buffer2, b2, cells2, w2, tail, r, ids, ats, seen, frames, last)
<1> USE DEF Moved
<1>1. \A i \in 1..b + 1 : buffer2[i].frame = frames[ids[i]] /\ buffer2[i].at = seen[i]
  <2> TAKE i \in 1..b + 1
  <2>1. CASE i \in 1..b
    BY <2>1 DEF CarriedBy
  <2>2. CASE i = b + 1
    <3>1. 1 \in 1..w
      OBVIOUS
    <3> QED BY <2>2, <3>1 DEF CarriedBy
  <2> QED BY <2>1, <2>2
<1>2. \A i \in 1..w - 1 : /\ cells2[i].frame = frames[ids[(b + 1) + i]]
                          /\ cells2[i].at = seen[(b + 1) + i]
  <2> TAKE i \in 1..w - 1
  <2>1. i + 1 \in 1..w /\ b + (i + 1) = (b + 1) + i
    OBVIOUS
  <2> QED BY <2>1 DEF CarriedBy
<1>3. (b + 1) + (w - 1) = b + w
  OBVIOUS
<1> QED BY <1>1, <1>2, <1>3 DEF CarriedBy

\* ::send moves the border between the wire and the frame being sent.
LEMMA UnderWaySent ==
    ASSUME NEW buffer \in Seq(Cells), NEW cells \in Seq(Cells), NEW tail \in Seq(Cells),
           NEW newest, NEW frames, NEW bad, NEW lost, tail # << >>,
           UnderWay(buffer, cells, tail, FALSE, newest, frames, bad, lost)
    PROVE  UnderWay(buffer, Append(cells, Head(tail)), Tail(tail), FALSE, newest, frames, bad, lost)
<1> DEFINE b == Len(buffer)
           w == Len(cells)
           r == Len(tail)
           cells2 == Append(cells, Head(tail))
           tail2 == Tail(tail)
<1>1. Moved(tail, r, cells, w, tail2, Len(tail2), cells2, Len(cells2)) /\ b \in Nat
  BY CellMoved
<1> HIDE DEF b, w, r, cells2, tail2
<1>4. b + Len(cells2) + Len(tail2) = b + w + r
  BY <1>1 DEF Moved
<1>2. PICK ids \in [Nat -> Nat], ats \in [Nat -> Nat], seen \in [Nat -> Nat] :
         /\ CarriedBy(buffer, b, cells, w, tail, r, ids, ats, seen, frames, Len(frames))
         /\ Flow(b + w + r, b + w + r, FALSE, ids, ats, seen, newest, Len(frames), Sizes(frames), bad,
                 lost)
  BY DEF UnderWay, UnderWayBy, b, w, r
<1>3. CarriedBy(buffer, b, cells2, Len(cells2), tail2, Len(tail2), ids, ats, seen, frames,
                Len(frames))
  BY <1>1, <1>2, BorderSent
<1>5. UnderWayBy(buffer, b, cells2, Len(cells2), tail2, Len(tail2), b + Len(cells2) + Len(tail2),
                 b + Len(cells2) + Len(tail2), FALSE, newest, frames, Len(frames), Sizes(frames), bad, lost)
  BY <1>2, <1>3, <1>4, Zenon DEF UnderWayBy
<1> QED BY <1>5 DEF UnderWay, cells2, tail2, b

\* ::recv moves the border between the buffer and the wire.
LEMMA UnderWayReceived ==
    ASSUME NEW buffer \in Seq(Cells), NEW cells \in Seq(Cells), NEW tail \in Seq(Cells),
           NEW newest, NEW frames, NEW bad, NEW lost, cells # << >>,
           UnderWay(buffer, cells, tail, FALSE, newest, frames, bad, lost)
    PROVE  UnderWay(Append(buffer, Head(cells)), Tail(cells), tail, FALSE, newest, frames, bad, lost)
<1> DEFINE b == Len(buffer)
           w == Len(cells)
           r == Len(tail)
           buffer2 == Append(buffer, Head(cells))
           cells2 == Tail(cells)
<1>1. Moved(cells, w, buffer, b, cells2, Len(cells2), buffer2, Len(buffer2)) /\ r \in Nat
  BY CellMoved
<1>2. PICK ids \in [Nat -> Nat], ats \in [Nat -> Nat], seen \in [Nat -> Nat] :
         /\ CarriedBy(buffer, b, cells, w, tail, r, ids, ats, seen, frames, Len(frames))
         /\ Flow(b + w + r, b + w + r, FALSE, ids, ats, seen, newest, Len(frames), Sizes(frames), bad,
                 lost)
  BY DEF UnderWay, UnderWayBy
<1> HIDE DEF b, w, r, buffer2, cells2
<1>3. CarriedBy(buffer2, Len(buffer2), cells2, Len(cells2), tail, r, ids, ats, seen, frames,
                Len(frames))
  BY <1>1, <1>2, BorderReceived
<1>4. Len(buffer2) + Len(cells2) + r = b + w + r
  BY <1>1 DEF Moved
<1>5. UnderWayBy(buffer2, Len(buffer2), cells2, Len(cells2), tail, r, Len(buffer2) + Len(cells2) + r,
                 Len(buffer2) + Len(cells2) + r, FALSE, newest, frames, Len(frames), Sizes(frames), bad, lost)
  BY <1>2, <1>3, <1>4, Zenon DEF UnderWayBy
<1> QED BY <1>5 DEF UnderWay, cells2, buffer2, r

\* The numbers of cells in the three places, and what they are counted by.
Setting(b, w, r, n, l, dead, newest, last, sizes, bad, lost) ==
    /\ b \in Nat /\ w \in Nat /\ r \in Nat /\ n = b + w + r
    /\ dead \in BOOLEAN /\ (dead => l = b) /\ (~dead => l = n)
    /\ last \in Nat /\ newest \in 0..last
    /\ \A j \in 1..last : sizes[j] \in Nat
    /\ \A x \in bad \cup lost : x \in 1..last

LEMMA SettingNumbers ==
    ASSUME NEW b, NEW w, NEW r, NEW n, NEW l, NEW dead, NEW newest, NEW last, NEW sizes, NEW bad,
           NEW lost, Setting(b, w, r, n, l, dead, newest, last, sizes, bad, lost)
    PROVE  /\ b \in Nat /\ w \in Nat /\ r \in Nat /\ n = b + w + r /\ n \in Nat
           /\ dead \in BOOLEAN /\ l \in b..n /\ l \in 0..n /\ (dead => l = b) /\ (~dead => l = n)
           /\ last \in Nat /\ newest \in 0..last
           /\ \A j \in 1..last : sizes[j] \in Nat
           /\ \A x \in bad \cup lost : x \in 1..last
BY DEF Setting

\* send_frame accepts frame last2 and offers its z cells.
Offered(z, tail2, last, last2, frames, frames2, sizes, sizes2) ==
    /\ z \in Nat \ {0} /\ last2 = last + 1 /\ sizes2[last + 1] = z
    /\ \A j \in 1..last : sizes2[j] = sizes[j] /\ frames2[j] = frames[j]
    /\ \A i \in 1..z : tail2[i].frame = frames2[last2] /\ tail2[i].at = i

Grown(r, n, l, dead, z, n2, l2) ==
    r = 0 /\ n2 = n + z /\ (dead => l2 = l) /\ (~dead => l2 = n2)

LEMMA AcceptedBy ==
    ASSUME NEW b, NEW w, NEW r, NEW n, NEW l, NEW dead, NEW newest, NEW last, NEW sizes, NEW bad, NEW lost,
           Setting(b, w, r, n, l, dead, newest, last, sizes, bad, lost),
           NEW buffer, NEW cells, NEW tail, NEW frames,
           UnderWayBy(buffer, b, cells, w, tail, r, n, l, dead, newest, frames, last, sizes, bad, lost),
           NEW z, NEW tail2, NEW last2, NEW frames2, NEW sizes2, NEW n2, NEW l2,
           Offered(z, tail2, last, last2, frames, frames2, sizes, sizes2),
           Grown(r, n, l, dead, z, n2, l2)
    PROVE  UnderWayBy(buffer, b, cells, w, tail2, z, n2, l2, dead, newest, frames2, last2, sizes2, bad,
                      lost)
<1>0. /\ b \in Nat /\ w \in Nat /\ r \in Nat /\ n = b + w + r /\ n \in Nat
      /\ dead \in BOOLEAN /\ l \in b..n /\ l \in 0..n /\ (dead => l = b) /\ (~dead => l = n)
      /\ last \in Nat /\ newest \in 0..last
      /\ \A j \in 1..last : sizes[j] \in Nat
      /\ \A x \in bad \cup lost : x \in 1..last
  BY SettingNumbers
<1> USE <1>0
<1>9. r = 0 /\ n2 = n + z /\ (dead => l2 = l) /\ (~dead => l2 = n2)
  BY DEF Grown
<1> USE <1>9
<1>1. PICK ids \in [Nat -> Nat], ats \in [Nat -> Nat], seen \in [Nat -> Nat] :
         /\ CarriedBy(buffer, b, cells, w, tail, r, ids, ats, seen, frames, last)
         /\ Flow(n, l, dead, ids, ats, seen, newest, last, sizes, bad, lost)
  BY DEF UnderWayBy
<1> DEFINE ids2 == [i \in Nat |-> IF i <= n THEN ids[i] ELSE last + 1]
           ats2 == [i \in Nat |-> IF i <= n THEN ats[i] ELSE i - n]
           seen2 == [i \in Nat |-> IF i <= n THEN seen[i] ELSE i - n]
<1>2. n \in Nat /\ z \in Nat \ {0} /\ last2 = last + 1
  BY DEF Offered
<1>3. /\ ids2 \in [Nat -> Nat] /\ ats2 \in [Nat -> Nat] /\ seen2 \in [Nat -> Nat]
  BY <1>2
<1>4. /\ \A i \in 1..n : ids2[i] = ids[i] /\ ats2[i] = ats[i] /\ seen2[i] = seen[i]
      /\ \A i \in n + 1..n + z : ids2[i] = last + 1 /\ ats2[i] = i - n /\ seen2[i] = i - n
  <2>1. \A i \in 1..n : i \in Nat /\ i <= n
    BY <1>2
  <2>2. \A i \in n + 1..n + z : i \in Nat /\ ~(i <= n)
    BY <1>2
  <2> QED BY <2>1, <2>2
<1> HIDE DEF ids2, ats2, seen2
<1>5. Extended(n, l, dead, last, sizes, ids, ats, seen, n2, l2, sizes2, ids2, ats2, seen2)
  BY <1>2, <1>4 DEF Extended, Offered
<1>6. Flow(n2, l2, dead, ids2, ats2, seen2, newest, last2, sizes2, bad, lost)
  BY <1>1, <1>2, <1>5, FlowExtended, ZenonT(60)
<1>7. \A i \in 1..n : ids[i] \in 1..last /\ frames2[ids[i]] = frames[ids[i]]
  <2> TAKE i \in 1..n
  <2>1. ids[i] \in newest + 1..last
    BY <1>1 DEF Flow, Placed
  <2>2. ids[i] \in 1..last
    BY <2>1
  <2> QED BY <2>2 DEF Offered
<1>8. CarriedBy(buffer, b, cells, w, tail2, z, ids2, ats2, seen2, frames2, last2)
  <2>1. \A i \in 1..b : buffer[i].frame = frames2[ids2[i]] /\ buffer[i].at = seen2[i]
    <3>1. \A i \in 1..b : i \in 1..n
      OBVIOUS
    <3> QED BY <1>1, <1>4, <1>7, <3>1 DEF CarriedBy
  <2>2. \A i \in 1..w : cells[i].frame = frames2[ids2[b + i]] /\ cells[i].at = seen2[b + i]
    <3>1. \A i \in 1..w : b + i \in 1..n
      OBVIOUS
    <3> QED BY <1>1, <1>4, <1>7, <3>1 DEF CarriedBy
  <2>3. ASSUME NEW i \in 1..z
        PROVE  /\ tail2[i].frame = frames2[last2]
               /\ tail2[i].at = seen2[b + w + i]
               /\ ids2[b + w + i] = last2
               /\ seen2[b + w + i] = ats2[b + w + i]
    <3>1. b + w + i \in n + 1..n + z /\ (b + w + i) - n = i
      BY <1>2
    <3> QED BY <1>2, <1>4, <3>1 DEF Offered
  <2> QED BY <2>1, <2>2, <2>3 DEF CarriedBy
<1> QED BY <1>3, <1>6, <1>8 DEF UnderWayBy

\* A send fails with the r cells of the tail not taken.
Failed(first, last, bad, lost, bad2, lost2) ==
    /\ first = 1 => bad2 = bad \cup {last} /\ lost2 = lost
    /\ first # 1 => bad2 = bad /\ lost2 = lost \cup {last}

LEMMA FailedBy ==
    ASSUME NEW b, NEW w, NEW r, NEW n, NEW l, NEW dead, NEW newest, NEW last, NEW sizes, NEW bad, NEW lost,
           Setting(b, w, r, n, l, dead, newest, last, sizes, bad, lost),
           r # 0, NEW buffer, NEW cells, NEW tail, NEW frames,
           UnderWayBy(buffer, b, cells, w, tail, r, n, l, dead, newest, frames, last, sizes, bad, lost),
           NEW tail2, NEW r2, r2 = 0, NEW n2, n2 = b + w, NEW l2, NEW bad2, NEW lost2,
           Failed(tail[1].at, last, bad, lost, bad2, lost2), dead => l2 = b, ~dead => l2 = n2
    PROVE  UnderWayBy(buffer, b, cells, w, tail2, r2, n2, l2, dead, newest, frames, last, sizes, bad2,
                      lost2)
<1>0. /\ b \in Nat /\ w \in Nat /\ r \in Nat /\ n = b + w + r /\ n \in Nat
      /\ dead \in BOOLEAN /\ l \in b..n /\ l \in 0..n /\ (dead => l = b) /\ (~dead => l = n)
      /\ last \in Nat /\ newest \in 0..last
      /\ \A j \in 1..last : sizes[j] \in Nat
      /\ \A x \in bad \cup lost : x \in 1..last
  BY SettingNumbers
<1> USE <1>0
<1>1. PICK ids \in [Nat -> Nat], ats \in [Nat -> Nat], seen \in [Nat -> Nat] :
         /\ CarriedBy(buffer, b, cells, w, tail, r, ids, ats, seen, frames, last)
         /\ Flow(n, l, dead, ids, ats, seen, newest, last, sizes, bad, lost)
  BY DEF UnderWayBy
<1>2. PICK c \in Nat : c = b + w + 1
  OBVIOUS
<1>4. n \in Nat /\ l \in 0..n /\ c \in 1..n /\ n2 = c - 1
  BY <1>2
<1>5. 1 \in 1..r /\ ats[c] = tail[1].at
  BY <1>1, <1>2 DEF CarriedBy
<1>6. \A i \in c..n : ids[i] = last
  <2> TAKE i \in c..n
  <2>1. i - (b + w) \in 1..r /\ b + w + (i - (b + w)) = i
    BY <1>2
  <2> QED BY <1>1, <2>1 DEF CarriedBy
<1>3. (dead => l < c /\ l2 = l) /\ (~dead => l2 = c - 1)
  BY <1>2
<1>7. Cut(n, l, dead, ids, ats, last, bad, lost, c, n2, l2, bad2, lost2)
  BY <1>3, <1>4, <1>5, <1>6, Zenon DEF Cut, Failed
<1>8. Flow(n2, l2, dead, ids, ats, seen, newest, last, sizes, bad2, lost2)
  BY <1>1, <1>4, <1>7, FlowCut, Zenon
<1>9. CarriedBy(buffer, b, cells, w, tail2, r2, ids, ats, seen, frames, last)
  BY <1>1 DEF CarriedBy
<1> QED BY <1>8, <1>9 DEF UnderWayBy

\* The buffer is emptied.
Emptied(b, w, r, l, ids, ats, newest, last, lost, b2, n2, l2, newest2, lost2) ==
    /\ b2 = 0 /\ n2 = w + r /\ l2 = l - b
    /\ newest2 \in newest..last /\ lost \subseteq lost2
    /\ \A i \in b + 1..l : ats[i] = 1 => ids[i] \in lost \/ ids[i] \notin lost2

LEMMA DroppedBy ==
    ASSUME NEW b, NEW w, NEW r, NEW n, NEW l, NEW dead, NEW newest, NEW last, NEW sizes, NEW bad, NEW lost,
           Setting(b, w, r, n, l, dead, newest, last, sizes, bad, lost),
           NEW buffer, NEW cells, NEW tail, NEW frames,
           NEW ids \in [Nat -> Nat], NEW ats \in [Nat -> Nat], NEW seen \in [Nat -> Nat],
           CarriedBy(buffer, b, cells, w, tail, r, ids, ats, seen, frames, last),
           Flow(n, l, dead, ids, ats, seen, newest, last, sizes, bad, lost),
           NEW buffer2, NEW b2, NEW n2, NEW l2, NEW newest2, NEW lost2,
           Droppable(b, n, l, ids, ats, newest2, bad, lost2),
           Emptied(b, w, r, l, ids, ats, newest, last, lost, b2, n2, l2, newest2, lost2)
    PROVE  UnderWayBy(buffer2, b2, cells, w, tail, r, n2, l2, dead, newest2, frames, last, sizes, bad,
                      lost2)
<1>0. /\ b \in Nat /\ w \in Nat /\ r \in Nat /\ n = b + w + r /\ n \in Nat
      /\ dead \in BOOLEAN /\ l \in b..n /\ l \in 0..n /\ (dead => l = b) /\ (~dead => l = n)
      /\ last \in Nat /\ newest \in 0..last
      /\ \A j \in 1..last : sizes[j] \in Nat
      /\ \A x \in bad \cup lost : x \in 1..last
  BY SettingNumbers
<1> USE <1>0
<1>4. /\ b2 = 0 /\ n2 = w + r /\ l2 = l - b /\ newest2 \in newest..last /\ lost \subseteq lost2
      /\ \A i \in b + 1..l : ats[i] = 1 => ids[i] \in lost \/ ids[i] \notin lost2
  BY DEF Emptied
<1>2. n \in Nat /\ b \in 0..l /\ l \in 0..n /\ n2 = n - b
  BY <1>4
<1> DEFINE ids2 == [i \in Nat |-> ids[i + b]]
           ats2 == [i \in Nat |-> ats[i + b]]
           seen2 == [i \in Nat |-> seen[i + b]]
<1>1. /\ ids2 \in [Nat -> Nat] /\ ats2 \in [Nat -> Nat] /\ seen2 \in [Nat -> Nat]
      /\ \A i \in Nat : ids2[i] = ids[i + b] /\ ats2[i] = ats[i + b] /\ seen2[i] = seen[i + b]
  OBVIOUS
<1> HIDE DEF ids2, ats2, seen2
<1>3. Dropped(b, n, l, ids, ats, seen, n2, l2, ids2, ats2, seen2)
  BY <1>1, <1>2, <1>4 DEF Dropped
<1>6. Flow(n2, l2, dead, ids2, ats2, seen2, newest2, last, sizes, bad, lost2)
  BY <1>2, <1>3, <1>4, FlowDropped, ZenonT(60)
<1>7. CarriedBy(buffer2, b2, cells, w, tail, r, ids2, ats2, seen2, frames, last)
  <2>3. ASSUME NEW i \in 1..w
        PROVE  cells[i].frame = frames[ids2[b2 + i]] /\ cells[i].at = seen2[b2 + i]
    <3>1. b2 + i = i /\ i \in Nat /\ i + b = b + i
      BY <1>4
    <3>2. ids2[b2 + i] = ids[b + i] /\ seen2[b2 + i] = seen[b + i]
      BY <1>1, <3>1
    <3> QED BY <3>2 DEF CarriedBy
  <2>4. ASSUME NEW i \in 1..r
        PROVE  /\ tail[i].frame = frames[last]
               /\ tail[i].at = seen2[b2 + w + i]
               /\ ids2[b2 + w + i] = last
               /\ seen2[b2 + w + i] = ats2[b2 + w + i]
    <3>1. b2 + w + i = w + i /\ w + i \in Nat /\ w + i + b = b + w + i
      BY <1>4
    <3>2. /\ ids2[b2 + w + i] = ids[b + w + i] /\ seen2[b2 + w + i] = seen[b + w + i]
          /\ ats2[b2 + w + i] = ats[b + w + i]
      BY <1>1, <3>1
    <3> QED BY <3>2 DEF CarriedBy
  <2>5. 1..b2 = {}
    BY <1>4
  <2> QED BY <2>3, <2>4, <2>5 DEF CarriedBy
<1> QED BY <1>1, <1>6, <1>7 DEF UnderWayBy
\* The connection breaks: what is on the wire is gone.
LEMMA BrokenBy ==
    ASSUME NEW b, NEW w, NEW r, NEW n, NEW newest, NEW last, NEW sizes, NEW bad, NEW lost,
           Setting(b, w, r, n, n, FALSE, newest, last, sizes, bad, lost),
           NEW buffer, NEW cells, NEW tail, NEW frames,
           UnderWayBy(buffer, b, cells, w, tail, r, n, n, FALSE, newest, frames, last, sizes, bad, lost),
           NEW cells2, NEW w2, w2 = 0, NEW n2, n2 = b + r
    PROVE  UnderWayBy(buffer, b, cells2, w2, tail, r, n2, b, TRUE, newest, frames, last, sizes, bad,
                      lost)
<1>0. /\ b \in Nat /\ w \in Nat /\ r \in Nat /\ n = b + w + r /\ n \in Nat
      /\ last \in Nat /\ newest \in 0..last
      /\ \A j \in 1..last : sizes[j] \in Nat
      /\ \A x \in bad \cup lost : x \in 1..last
  BY DEF Setting
<1> USE <1>0
<1>1. n \in Nat /\ b \in 0..n /\ b + w <= n /\ n2 = n - w
  OBVIOUS
<1>2. PICK ids \in [Nat -> Nat], ats \in [Nat -> Nat], seen \in [Nat -> Nat] :
         /\ CarriedBy(buffer, b, cells, w, tail, r, ids, ats, seen, frames, last)
         /\ Flow(n, n, FALSE, ids, ats, seen, newest, last, sizes, bad, lost)
  BY DEF UnderWayBy
<1> DEFINE ids2 == [i \in Nat |-> IF i <= b THEN ids[i] ELSE ids[i + w]]
           ats2 == [i \in Nat |-> IF i <= b THEN ats[i] ELSE ats[i + w]]
           seen2 == [i \in Nat |-> IF i <= b THEN seen[i] ELSE seen[i + w]]
<1>3. ids2 \in [Nat -> Nat] /\ ats2 \in [Nat -> Nat] /\ seen2 \in [Nat -> Nat]
  OBVIOUS
<1>4. /\ \A i \in Nat : i <= b => ids2[i] = ids[i] /\ ats2[i] = ats[i] /\ seen2[i] = seen[i]
      /\ \A i \in Nat : i > b => /\ ids2[i] = ids[i + w] /\ ats2[i] = ats[i + w]
                                 /\ seen2[i] = seen[i + w]
  OBVIOUS
<1> HIDE DEF ids2, ats2, seen2
<1>5. Spliced(b, w, n, ids, ats, seen, n2, ids2, ats2, seen2)
  BY <1>1, <1>4 DEF Spliced
<1>6. Flow(n2, b, TRUE, ids2, ats2, seen2, newest, last, sizes, bad, lost)
  BY <1>1, <1>2, <1>5, FlowBroken, ZenonT(60)
<1>7. CarriedBy(buffer, b, cells2, w2, tail, r, ids2, ats2, seen2, frames, last)
  <2>1. \A i \in 1..b : buffer[i].frame = frames[ids2[i]] /\ buffer[i].at = seen2[i]
    <3>1. \A i \in 1..b : i \in Nat /\ i <= b
      OBVIOUS
    <3> QED BY <1>2, <1>4, <3>1 DEF CarriedBy
  <2>2. ASSUME NEW i \in 1..r
        PROVE  /\ tail[i].frame = frames[last]
               /\ tail[i].at = seen2[b + w2 + i]
               /\ ids2[b + w2 + i] = last
               /\ seen2[b + w2 + i] = ats2[b + w2 + i]
    <3>1. b + w2 + i = b + i /\ b + i \in Nat /\ b + i > b /\ b + i + w = b + w + i
      OBVIOUS
    <3>2. /\ ids2[b + w2 + i] = ids[b + w + i] /\ seen2[b + w2 + i] = seen[b + w + i]
          /\ ats2[b + w2 + i] = ats[b + w + i]
      BY <1>4, <3>1
    <3> QED BY <1>2, <3>2 DEF CarriedBy
  <2>3. 1..w2 = {}
    OBVIOUS
  <2> QED BY <2>1, <2>2, <2>3 DEF CarriedBy
<1> QED BY <1>3, <1>6, <1>7 DEF UnderWayBy

\* A body cell on the wire loses its place.
Harmed(cells, w, c, cells2) ==
    /\ c \in 1..w /\ cells[c].at > 2
    /\ cells2[c].frame = cells[c].frame /\ cells2[c].at = 0
    /\ \A i \in 1..w : i # c => cells2[i] = cells[i]

LEMMA CorruptedBy ==
    ASSUME NEW b, NEW w, NEW r, NEW n, NEW newest, NEW last, NEW sizes, NEW bad, NEW lost,
           Setting(b, w, r, n, n, FALSE, newest, last, sizes, bad, lost),
           NEW buffer, NEW cells, NEW tail, NEW frames,
           \A j \in 1..last : frames[j].id = j,
           UnderWayBy(buffer, b, cells, w, tail, r, n, n, FALSE, newest, frames, last, sizes, bad, lost),
           NEW c, NEW cells2, NEW bad2, Harmed(cells, w, c, cells2),
           bad2 = bad \cup {cells[c].frame.id}
    PROVE  UnderWayBy(buffer, b, cells2, w, tail, r, n, n, FALSE, newest, frames, last, sizes, bad2,
                      lost)
<1>0. /\ b \in Nat /\ w \in Nat /\ r \in Nat /\ n = b + w + r /\ n \in Nat
      /\ last \in Nat /\ newest \in 0..last
      /\ \A j \in 1..last : sizes[j] \in Nat
      /\ \A x \in bad \cup lost : x \in 1..last
  BY DEF Setting
<1> USE <1>0
<1>1. PICK ids \in [Nat -> Nat], ats \in [Nat -> Nat], seen \in [Nat -> Nat] :
         /\ CarriedBy(buffer, b, cells, w, tail, r, ids, ats, seen, frames, last)
         /\ Flow(n, n, FALSE, ids, ats, seen, newest, last, sizes, bad, lost)
  BY DEF UnderWayBy
<1>2. PICK d \in Nat : d = b + c
  BY DEF Harmed
<1>3. c \in 1..w /\ d \in 1..n /\ cells[c].at > 2 /\ n \in Nat
  BY <1>2 DEF Harmed
<1>4. cells[c].frame = frames[ids[d]] /\ cells[c].at = seen[d]
  BY <1>1, <1>2, <1>3 DEF CarriedBy
<1>5. ids[d] \in newest + 1..last /\ ats[d] = seen[d]
  BY <1>1, <1>3, <1>4 DEF Flow, Placed
<1>6. cells[c].frame.id = ids[d] /\ ats[d] > 2
  BY <1>3, <1>4, <1>5
<1> DEFINE seen2 == [seen EXCEPT ![d] = 0]
<1>7. seen2 \in [Nat -> Nat] /\ seen2[d] = 0 /\ \A i \in Nat : i # d => seen2[i] = seen[i]
  OBVIOUS
<1> HIDE DEF seen2
<1>8. Changed(n, ids, ats, seen, bad, d, seen2, bad2)
  BY <1>3, <1>6, <1>7 DEF Changed
<1>9. Flow(n, n, FALSE, ids, ats, seen2, newest, last, sizes, bad2, lost)
  BY <1>1, <1>3, <1>8, FlowChanged, ZenonT(60)
<1>10. CarriedBy(buffer, b, cells2, w, tail, r, ids, ats, seen2, frames, last)
  <2>1. \A i \in 1..b : buffer[i].frame = frames[ids[i]] /\ buffer[i].at = seen2[i]
    <3>1. \A i \in 1..b : i \in Nat /\ i # d
      BY <1>2, <1>3
    <3> QED BY <1>1, <1>7, <3>1 DEF CarriedBy
  <2>2. ASSUME NEW i \in 1..w
        PROVE  cells2[i].frame = frames[ids[b + i]] /\ cells2[i].at = seen2[b + i]
    <3>1. CASE i = c
      BY <1>2, <1>4, <1>7, <3>1 DEF Harmed
    <3>2. CASE i # c
      <4>1. b + i \in Nat /\ b + i # d
        <5>1. i \in Nat /\ c \in Nat
          BY <1>3
        <5>2. i # c => b + i # b + c
          BY <5>1
        <5> QED BY <1>2, <3>2, <5>1, <5>2
      <4> QED BY <1>1, <1>7, <3>2, <4>1 DEF CarriedBy, Harmed
    <3> QED BY <3>1, <3>2
  <2>3. ASSUME NEW i \in 1..r
        PROVE  /\ tail[i].frame = frames[last]
               /\ tail[i].at = seen2[b + w + i]
               /\ ids[b + w + i] = last
               /\ seen2[b + w + i] = ats[b + w + i]
    <3>1. b + w + i \in Nat /\ b + w + i # d
      BY <1>2, <1>3
    <3> QED BY <1>1, <1>7, <3>1 DEF CarriedBy
  <2> QED BY <2>1, <2>2, <2>3 DEF CarriedBy
<1> QED BY <1>7, <1>9, <1>10 DEF UnderWayBy

Restarted(b, w, r, l, b2, n2, l2) == b2 = 0 /\ n2 = w + r /\ l2 = l - b

Numbered(frames, last) == \A j \in 1..last : frames[j].id = j

Torn(buffer, b, lost, lost2) == b >= 2 /\ lost2 = lost \cup {buffer[1].frame.id}

\* frame_size_from_header has given b.
HeaderRead(buffer, b, last, sizes) ==
    /\ b >= 2 /\ \A j \in 1..last : sizes[j] >= 2
    /\ buffer[1].at = 1 /\ (buffer[2].at = 2 => b = sizes[buffer[2].frame.id])

\* The header is refused: the frame of its first cell is torn.
LEMMA RefusedBy ==
    ASSUME NEW b, NEW w, NEW r, NEW n, NEW l, NEW dead, NEW newest, NEW last, NEW sizes, NEW bad, NEW lost,
           Setting(b, w, r, n, l, dead, newest, last, sizes, bad, lost),
           NEW buffer, NEW cells, NEW tail, NEW frames, Numbered(frames, last),
           UnderWayBy(buffer, b, cells, w, tail, r, n, l, dead, newest, frames, last, sizes, bad, lost),
           NEW buffer2, NEW b2, NEW n2, NEW l2, Restarted(b, w, r, l, b2, n2, l2),
           NEW lost2, Torn(buffer, b, lost, lost2)
    PROVE  UnderWayBy(buffer2, b2, cells, w, tail, r, n2, l2, dead, newest, frames, last, sizes, bad,
                      lost2)
<1>0. /\ b \in Nat /\ w \in Nat /\ r \in Nat /\ n = b + w + r /\ n \in Nat
      /\ dead \in BOOLEAN /\ l \in b..n /\ l \in 0..n /\ (dead => l = b) /\ (~dead => l = n)
      /\ last \in Nat /\ newest \in 0..last
      /\ \A j \in 1..last : sizes[j] \in Nat
      /\ \A x \in bad \cup lost : x \in 1..last
  BY SettingNumbers
<1>20. /\ b2 = 0 /\ n2 = w + r /\ l2 = l - b
       /\ b >= 2 /\ lost2 = lost \cup {buffer[1].frame.id}
       /\ \A j \in 1..last : frames[j].id = j
  BY DEF Restarted, Torn, Numbered
<1> USE <1>0, <1>20
<1>1. PICK ids \in [Nat -> Nat], ats \in [Nat -> Nat], seen \in [Nat -> Nat] :
         /\ CarriedBy(buffer, b, cells, w, tail, r, ids, ats, seen, frames, last)
         /\ Flow(n, l, dead, ids, ats, seen, newest, last, sizes, bad, lost)
  BY DEF UnderWayBy
<1>2. 1 \in 1..b /\ 1 \in 1..n /\ l \in 1..n /\ b \in 1..l /\ n \in Nat
  OBVIOUS
<1>3. ids[1] \in newest + 1..last /\ ats[1] \in Nat
  BY <1>1, <1>2 DEF Flow, Placed
<1>4. buffer[1].frame.id = ids[1] /\ ids[1] \in 1..last
  <2>1. ids[1] \in 1..last
    BY <1>3
  <2>2. buffer[1].frame = frames[ids[1]]
    BY <1>1, <1>2 DEF CarriedBy
  <2> QED BY <2>1, <2>2
<1>5. \A x \in lost2 : x \in 1..last
  BY <1>4
<1>6. OutOfStep(ids[1], lost2)
  <2>1. ids[1] \in lost2 /\ ids[1] <= ids[1]
    BY <1>4
  <2> QED BY <2>1 DEF OutOfStep
<1>7. Droppable(b, n, l, ids, ats, newest, bad, lost2)
  BY <1>1, <1>2, <1>5, <1>6, FlowAstray, ZenonT(60)
<1>8. \A i \in b + 1..l : ats[i] = 1 => ids[i] \in lost \/ ids[i] \notin lost2
  <2> SUFFICES ASSUME NEW i \in b + 1..l, ats[i] = 1, ids[i] = ids[1] PROVE FALSE
    BY <1>4
  <2>1. i \in 1..n /\ 1 < i
    OBVIOUS
  <2>2. ats[i] >= ats[1] + (i - 1)
    BY <1>1, <1>2, <2>1 DEF Flow, Ascending
  <2> QED BY <1>3, <2>2
<1>9. Emptied(b, w, r, l, ids, ats, newest, last, lost, b2, n2, l2, newest, lost2)
  BY <1>8 DEF Emptied
<1> QED BY <1>1, <1>7, <1>9, DroppedBy, Zenon
\* The frame in the buffer is decoded: it is the next one that the receiver
\* may have.
Decodes(buffer, b) ==
    buffer[2].at = 2 /\ \A i \in 3..b : buffer[i].frame = buffer[2].frame /\ buffer[i].at = i

DeliveredBy(buffer, buffer2, b2, cells, w, tail, r, n2, l2, dead, newest, frames, last, sizes, bad,
            lost, k) ==
    /\ k \in newest + 1..last /\ k \notin bad \cup lost
    /\ buffer[1].frame = frames[k] /\ buffer[2].frame = frames[k]
    /\ \A j \in newest + 1..k - 1 : j \in bad \/ OutOfStep(j, lost)
    /\ UnderWayBy(buffer2, b2, cells, w, tail, r, n2, l2, dead, k, frames, last, sizes, bad, lost)

LEMMA BodyBy ==
    ASSUME NEW b, NEW w, NEW r, NEW n, NEW l, NEW dead, NEW newest, NEW last, NEW sizes, NEW bad, NEW lost,
           Setting(b, w, r, n, l, dead, newest, last, sizes, bad, lost),
           NEW buffer, NEW cells, NEW tail, NEW frames, Numbered(frames, last),
           UnderWayBy(buffer, b, cells, w, tail, r, n, l, dead, newest, frames, last, sizes, bad, lost),
           HeaderRead(buffer, b, last, sizes),
           NEW buffer2, NEW b2, NEW n2, NEW l2, Restarted(b, w, r, l, b2, n2, l2)
    PROVE  IF Decodes(buffer, b)
           THEN \E k \in Nat :
                   DeliveredBy(buffer, buffer2, b2, cells, w, tail, r, n2, l2, dead, newest, frames, last,
                               sizes, bad, lost, k)
           ELSE UnderWayBy(buffer2, b2, cells, w, tail, r, n2, l2, dead, newest, frames, last, sizes, bad,
                           lost)
<1>0. /\ b \in Nat /\ w \in Nat /\ r \in Nat /\ n = b + w + r /\ n \in Nat
      /\ dead \in BOOLEAN /\ l \in b..n /\ l \in 0..n /\ (dead => l = b) /\ (~dead => l = n)
      /\ last \in Nat /\ newest \in 0..last
      /\ \A j \in 1..last : sizes[j] \in Nat
      /\ \A x \in bad \cup lost : x \in 1..last
  BY SettingNumbers
<1>20. /\ b2 = 0 /\ n2 = w + r /\ l2 = l - b
       /\ b >= 2 /\ \A j \in 1..last : sizes[j] >= 2
       /\ buffer[1].at = 1 /\ (buffer[2].at = 2 => b = sizes[buffer[2].frame.id])
       /\ \A j \in 1..last : frames[j].id = j
  BY DEF Restarted, HeaderRead, Numbered
<1> USE <1>0, <1>20
<1>1. PICK ids \in [Nat -> Nat], ats \in [Nat -> Nat], seen \in [Nat -> Nat] :
         /\ CarriedBy(buffer, b, cells, w, tail, r, ids, ats, seen, frames, last)
         /\ Flow(n, l, dead, ids, ats, seen, newest, last, sizes, bad, lost)
  BY DEF UnderWayBy
<1>2. /\ 1 \in 1..b /\ 2 \in 1..b /\ 1 \in 1..n /\ l \in 1..n /\ b \in 1..l /\ l \in 2..n /\ b \in 2..l
      /\ \A i \in 1..b : i \in 1..n
  OBVIOUS
<1>3. \A i \in 1..b : buffer[i].frame = frames[ids[i]] /\ buffer[i].at = seen[i]
  BY <1>1 DEF CarriedBy
<1>4. \A i \in 1..b : ids[i] \in newest + 1..last
  BY <1>1, <1>2 DEF Flow, Placed
<1>5. \A i \in 1..b : ids[i] \in 1..last /\ frames[ids[i]].id = ids[i]
  <2> TAKE i \in 1..b
  <2>1. ids[i] \in 1..last
    BY <1>4
  <2> QED BY <2>1
<1>6. \A j \in 1..last : sizes[j] \in Nat /\ sizes[j] >= 2
  OBVIOUS
<1>7. \A x \in lost : x \in 1..last
  OBVIOUS
<1>8. ASSUME NEW k \in newest..last
      PROVE  Emptied(b, w, r, l, ids, ats, newest, last, lost, b2, n2, l2, k, lost)
  BY DEF Emptied
<1>9. newest \in newest..last
  OBVIOUS
<1>10. HeaderShows(ids, ats, seen, lost)
  BY <1>1, <1>2, <1>6, FlowHeader, ZenonT(60)
<1>11. ASSUME Droppable(b, n, l, ids, ats, newest, bad, lost)
       PROVE  UnderWayBy(buffer2, b2, cells, w, tail, r, n2, l2, dead, newest, frames, last, sizes, bad,
                         lost)
  <2>1. Emptied(b, w, r, l, ids, ats, newest, last, lost, b2, n2, l2, newest, lost)
    BY <1>8, <1>9
  <2> QED BY <1>1, <1>11, <2>1, DroppedBy, Zenon
<1>12. CASE OutOfStep(ids[1], lost) /\ (seen[1] # 1 \/ seen[2] # 2)
  <2>1. ~Decodes(buffer, b)
    BY <1>2, <1>3, <1>12 DEF Decodes
  <2>2. Droppable(b, n, l, ids, ats, newest, bad, lost)
    BY <1>1, <1>2, <1>7, <1>12, FlowAstray, ZenonT(60)
  <2> QED BY <1>11, <2>1, <2>2
<1>13. CASE Headed(ids, ats, seen)
  <2>7. ids[2] = ids[1] /\ seen[1] = 1 /\ seen[2] = 2
    BY <1>13 DEF Headed
  <2>1. b = sizes[ids[1]]
    <3>1. buffer[2].at = 2 /\ buffer[2].frame.id = ids[1]
      BY <1>2, <1>3, <1>5, <2>7
    <3> QED BY <3>1
  <2>2. PICK k \in Nat : k = ids[1]
    OBVIOUS
  <2>3. BodyShows(b, n, l, ids, ats, seen, newest, bad, lost)
    BY <1>1, <1>2, <1>6, <1>13, <2>1, FlowBody, ZenonT(60)
  <2>4. Decodes(buffer, b) <=> \A i \in 3..b : ids[i] = ids[1] /\ seen[i] = i
    <3>1. \A i \in 3..b : i \in 1..b
      OBVIOUS
    <3>2. \A i \in 3..b : buffer[i].frame = buffer[2].frame <=> ids[i] = ids[1]
      <4> TAKE i \in 3..b
      <4>1. /\ buffer[i].frame = frames[ids[i]] /\ frames[ids[i]].id = ids[i]
            /\ buffer[2].frame = frames[ids[1]] /\ frames[ids[1]].id = ids[1]
        BY <1>2, <1>3, <1>5, <2>7, <3>1
      <4> QED BY <4>1
    <3>3. buffer[2].at = 2
      BY <1>2, <1>3, <2>7
    <3> QED BY <1>3, <3>1, <3>2, <3>3, Zenon DEF Decodes
  <2>5. CASE Decodes(buffer, b)
    <3>1. /\ k \notin bad \cup lost
          /\ \A j \in newest + 1..k - 1 : j \in bad \/ OutOfStep(j, lost)
          /\ Droppable(b, n, l, ids, ats, k, bad, lost)
      BY <2>2, <2>3, <2>4, <2>5 DEF BodyShows
    <3>2. k \in newest + 1..last
      BY <1>2, <1>4, <2>2
    <3>3. k \in newest..last
      BY <3>2
    <3>4. Emptied(b, w, r, l, ids, ats, newest, last, lost, b2, n2, l2, k, lost)
      BY <1>8, <3>3
    <3>5. UnderWayBy(buffer2, b2, cells, w, tail, r, n2, l2, dead, k, frames, last, sizes, bad, lost)
      BY <1>1, <3>1, <3>4, DroppedBy, Zenon
    <3>6. buffer[1].frame = frames[k] /\ buffer[2].frame = frames[k]
      BY <1>2, <1>3, <2>2, <2>7
    <3>7. DeliveredBy(buffer, buffer2, b2, cells, w, tail, r, n2, l2, dead, newest, frames, last, sizes,
                      bad, lost, k)
      BY <3>1, <3>2, <3>5, <3>6, Zenon DEF DeliveredBy
    <3> QED BY <2>2, <2>5, <3>7
  <2>6. CASE ~Decodes(buffer, b)
    BY <1>11, <2>3, <2>4, <2>6 DEF BodyShows
  <2> QED BY <2>5, <2>6
<1> QED BY <1>10, <1>12, <1>13 DEF HeaderShows
-----------------------------------------------------------------------------
(* The same for the sequences of the model. *)

\* What UnderWay is stated about.
Streaming(buffer, cells, tail, dead, newest, frames, bad, lost) ==
    /\ buffer \in Seq(Cells) /\ cells \in Seq(Cells) /\ tail \in Seq(Cells) /\ dead \in BOOLEAN
    /\ frames \in Seq(Frames) /\ \A j \in 1..Len(frames) : frames[j].id = j
    /\ newest \in 0..Len(frames)
    /\ \A x \in bad \cup lost : x \in 1..Len(frames)

Ahead(b, w, r, dead) == IF dead THEN b ELSE b + w + r

LEMMA AheadEmptied ==
    ASSUME NEW b \in Nat, NEW w \in Nat, NEW r \in Nat, NEW dead \in BOOLEAN, NEW b2, b2 = 0
    PROVE  Restarted(b, w, r, Ahead(b, w, r, dead), b2, b2 + w + r, Ahead(b2, w, r, dead))
<1>1. CASE dead
  BY <1>1 DEF Ahead, Restarted
<1>2. CASE ~dead
  BY <1>2 DEF Ahead, Restarted
<1> QED BY <1>1, <1>2

LEMMA StreamingSets ==
    ASSUME NEW buffer, NEW cells, NEW tail, NEW dead, NEW newest, NEW frames, NEW bad, NEW lost,
           Streaming(buffer, cells, tail, dead, newest, frames, bad, lost)
    PROVE  /\ Setting(Len(buffer), Len(cells), Len(tail), Len(buffer) + Len(cells) + Len(tail),
                      Ahead(Len(buffer), Len(cells), Len(tail), dead), dead, newest, Len(frames),
                      Sizes(frames), bad, lost)
           /\ \A j \in 1..Len(frames) : frames[j].id = j
           /\ \A j \in 1..Len(frames) : Sizes(frames)[j] >= 2
           /\ Len(buffer) \in Nat /\ Len(cells) \in Nat /\ Len(tail) \in Nat /\ dead \in BOOLEAN
<1>1. \A j \in 1..Len(frames) : Sizes(frames)[j] \in Nat /\ Sizes(frames)[j] >= 2
  BY SizesNatural DEF Streaming
<1>2. Len(buffer) \in Nat /\ Len(cells) \in Nat /\ Len(tail) \in Nat /\ Len(frames) \in Nat
  BY DEF Streaming
<1>3. /\ dead \in BOOLEAN /\ newest \in 0..Len(frames) /\ \A j \in 1..Len(frames) : frames[j].id = j
      /\ \A x \in bad \cup lost : x \in 1..Len(frames)
  BY DEF Streaming
<1>4. /\ dead => Ahead(Len(buffer), Len(cells), Len(tail), dead) = Len(buffer)
      /\ ~dead => Ahead(Len(buffer), Len(cells), Len(tail), dead) = Len(buffer) + Len(cells) + Len(tail)
  BY DEF Ahead
<1> QED BY <1>1, <1>2, <1>3, <1>4, Zenon DEF Setting

LEMMA UnderWayAccepted ==
    ASSUME NEW buffer, NEW cells, NEW tail, NEW dead, NEW newest, NEW frames, NEW bad, NEW lost,
           Streaming(buffer, cells, tail, dead, newest, frames, bad, lost),
           UnderWay(buffer, cells, tail, dead, newest, frames, bad, lost), tail = << >>,
           NEW f \in Frames
    PROVE  UnderWay(buffer, cells, encode_frame(f), dead, newest, Append(frames, f), bad, lost)
<1> DEFINE b == Len(buffer)
           w == Len(cells)
           r == Len(tail)
           n == b + w + r
           l == Ahead(b, w, r, dead)
           last == Len(frames)
           sizes == Sizes(frames)
           tail2 == encode_frame(f)
           z == Len(tail2)
           frames2 == Append(frames, f)
           last2 == Len(frames2)
           sizes2 == Sizes(frames2)
           n2 == b + w + z
           l2 == Ahead(b, w, z, dead)
<1>1. /\ Setting(b, w, r, n, l, dead, newest, last, sizes, bad, lost)
      /\ b \in Nat /\ w \in Nat /\ dead \in BOOLEAN
  BY StreamingSets
<1>2. UnderWayBy(buffer, b, cells, w, tail, r, n, l, dead, newest, frames, last, sizes, bad, lost)
  BY DEF UnderWay, Ahead
<1>3. r = 0
  OBVIOUS
<1>4. /\ z = size(f) /\ z \in Nat \ {0}
      /\ \A i \in 1..z : tail2[i].frame = f /\ tail2[i].at = i
  <2>1. z = size(f) /\ \A i \in 1..size(f) : tail2[i].frame = f /\ tail2[i].at = i
    BY EncodedCells
  <2>2. size(f) \in Nat /\ size(f) >= 2
    BY FrameFields
  <2> HIDE DEF z, tail2
  <2>3. z \in Nat \ {0}
    BY <2>1, <2>2
  <2> QED BY <2>1, <2>3
<1>5. /\ last2 = last + 1 /\ frames2[last2] = f /\ \A j \in 1..last : frames2[j] = frames[j]
      /\ last \in Nat
  BY SequenceEnds DEF Streaming
<1>6. sizes2[last + 1] = z /\ \A j \in 1..last : sizes2[j] = sizes[j]
  <2>1. /\ sizes = [j \in 1..last |-> size(frames[j])]
        /\ sizes2 = [j \in 1..last2 |-> size(frames2[j])]
    BY DEF Sizes
  <2> HIDE DEF last, sizes, frames2, last2, sizes2, z
  <2>2. last + 1 \in 1..last2 /\ \A j \in 1..last : j \in 1..last2
    BY <1>5
  <2>3. sizes2[last + 1] = z
    BY <1>4, <1>5, <2>1, <2>2
  <2> QED BY <1>5, <2>1, <2>2, <2>3
<1> HIDE DEF b, w, r, n, l, last, sizes, tail2, z, frames2, last2, sizes2, n2, l2
<1>7. Offered(z, tail2, last, last2, frames, frames2, sizes, sizes2)
  BY <1>4, <1>5, <1>6, Zenon DEF Offered
<1>8. Grown(r, n, l, dead, z, n2, l2)
  <2>1. n2 = n + z
    BY <1>1, <1>3, <1>4 DEF n, n2
  <2>2. (dead => l2 = l) /\ (~dead => l2 = n2)
    BY <1>1 DEF l, n2, l2, Ahead
  <2> QED BY <1>3, <2>1, <2>2 DEF Grown
<1>9. UnderWayBy(buffer, b, cells, w, tail2, z, n2, l2, dead, newest, frames2, last2, sizes2, bad, lost)
  BY <1>1, <1>2, <1>7, <1>8, AcceptedBy, Zenon
<1> QED BY <1>9 DEF UnderWay, Ahead, b, w, tail2, z, frames2, last2, sizes2, n2, l2

LEMMA UnderWayFailed ==
    ASSUME NEW buffer, NEW cells, NEW tail, NEW dead, NEW newest, NEW frames, NEW bad, NEW lost,
           Streaming(buffer, cells, tail, dead, newest, frames, bad, lost),
           UnderWay(buffer, cells, tail, dead, newest, frames, bad, lost), tail # << >>,
           NEW bad2, NEW lost2, Failed(tail[1].at, Len(frames), bad, lost, bad2, lost2)
    PROVE  UnderWay(buffer, cells, << >>, dead, newest, frames, bad2, lost2)
<1> DEFINE b == Len(buffer)
           w == Len(cells)
           r == Len(tail)
           n == b + w + r
           l == Ahead(b, w, r, dead)
           last == Len(frames)
           sizes == Sizes(frames)
           tail2 == << >>
           r2 == Len(tail2)
           n2 == b + w + r2
           l2 == Ahead(b, w, r2, dead)
<1>1. /\ Setting(b, w, r, n, l, dead, newest, last, sizes, bad, lost)
      /\ b \in Nat /\ w \in Nat /\ dead \in BOOLEAN
  BY StreamingSets
<1>2. UnderWayBy(buffer, b, cells, w, tail, r, n, l, dead, newest, frames, last, sizes, bad, lost)
  BY DEF UnderWay, Ahead
<1>3. r # 0
  BY SequenceEnds DEF Streaming
<1>4. r2 = 0 /\ Failed(tail[1].at, last, bad, lost, bad2, lost2)
  OBVIOUS
<1> HIDE DEF b, w, r, n, l, last, sizes, tail2, r2, n2, l2
<1>5. n2 = b + w /\ (dead => l2 = b) /\ (~dead => l2 = n2)
  BY <1>1, <1>4 DEF n2, l2, Ahead
<1>6. UnderWayBy(buffer, b, cells, w, tail2, r2, n2, l2, dead, newest, frames, last, sizes, bad2, lost2)
  BY <1>1, <1>2, <1>3, <1>4, <1>5, FailedBy, Zenon
<1> QED BY <1>6 DEF UnderWay, Ahead, b, w, tail2, r2, last, sizes, n2, l2

LEMMA UnderWayBroken ==
    ASSUME NEW buffer, NEW cells, NEW tail, NEW newest, NEW frames, NEW bad, NEW lost,
           Streaming(buffer, cells, tail, FALSE, newest, frames, bad, lost),
           UnderWay(buffer, cells, tail, FALSE, newest, frames, bad, lost)
    PROVE  UnderWay(buffer, << >>, tail, TRUE, newest, frames, bad, lost)
<1> DEFINE b == Len(buffer)
           w == Len(cells)
           r == Len(tail)
           n == b + w + r
           last == Len(frames)
           sizes == Sizes(frames)
           cells2 == << >>
           w2 == Len(cells2)
           n2 == b + w2 + r
<1>1. Setting(b, w, r, n, n, FALSE, newest, last, sizes, bad, lost) /\ b \in Nat /\ r \in Nat
  BY StreamingSets DEF Ahead
<1>2. UnderWayBy(buffer, b, cells, w, tail, r, n, n, FALSE, newest, frames, last, sizes, bad, lost)
  BY DEF UnderWay
<1>3. w2 = 0
  OBVIOUS
<1> HIDE DEF b, w, r, n, last, sizes, cells2, w2, n2
<1>4. n2 = b + r
  BY <1>1, <1>3 DEF n2
<1>5. UnderWayBy(buffer, b, cells2, w2, tail, r, n2, b, TRUE, newest, frames, last, sizes, bad, lost)
  BY <1>1, <1>2, <1>3, <1>4, BrokenBy, Zenon
<1> QED BY <1>5 DEF UnderWay, b, r, cells2, w2, last, sizes, n2

LEMMA UnderWayCorrupted ==
    ASSUME NEW buffer, NEW cells, NEW tail, NEW newest, NEW frames, NEW bad, NEW lost,
           Streaming(buffer, cells, tail, FALSE, newest, frames, bad, lost),
           UnderWay(buffer, cells, tail, FALSE, newest, frames, bad, lost),
           NEW c \in 1..Len(cells), cells[c].at > HeaderSize, NEW cells2, NEW bad2,
           cells2 = [cells EXCEPT ![c].at = 0], bad2 = bad \cup {cells[c].frame.id}
    PROVE  UnderWay(buffer, cells2, tail, FALSE, newest, frames, bad2, lost)
<1> DEFINE b == Len(buffer)
           w == Len(cells)
           r == Len(tail)
           n == b + w + r
           last == Len(frames)
           sizes == Sizes(frames)
<1>1. /\ Setting(b, w, r, n, n, FALSE, newest, last, sizes, bad, lost)
      /\ \A j \in 1..last : frames[j].id = j
  <2>1. Ahead(b, w, r, FALSE) = n
    BY DEF Ahead
  <2>2. Setting(b, w, r, n, Ahead(b, w, r, FALSE), FALSE, newest, last, sizes, bad, lost)
    BY StreamingSets
  <2>3. \A j \in 1..last : frames[j].id = j
    BY DEF Streaming
  <2> QED BY <2>1, <2>2, <2>3
<1>2. UnderWayBy(buffer, b, cells, w, tail, r, n, n, FALSE, newest, frames, last, sizes, bad, lost)
  BY DEF UnderWay
<1>3. Len(cells2) = w /\ Harmed(cells, w, c, cells2)
  <2>1. cells \in Seq(Cells) /\ cells[c] \in Cells
    BY DEF Streaming
  <2>2. cells2[c] = [cells[c] EXCEPT !.at = 0] /\ \A i \in 1..w : i # c => cells2[i] = cells[i]
    BY <2>1
  <2>3. [cells[c] EXCEPT !.at = 0].at = 0 /\ [cells[c] EXCEPT !.at = 0].frame = cells[c].frame
    BY <2>1 DEF Cells
  <2>4. Len(cells2) = w
    BY <2>1
  <2>5. cells[c].at > 2
    BY DEF HeaderSize
  <2> QED BY <2>2, <2>3, <2>4, <2>5, Zenon DEF Harmed
<1> HIDE DEF b, w, r, n, last, sizes
<1>4. UnderWayBy(buffer, b, cells2, w, tail, r, n, n, FALSE, newest, frames, last, sizes, bad2, lost)
  BY <1>1, <1>2, <1>3, CorruptedBy, Zenon
<1> QED BY <1>3, <1>4 DEF UnderWay, b, r, last, sizes, n
LEMMA UnderWayRefused ==
    ASSUME NEW buffer, NEW cells, NEW tail, NEW dead, NEW newest, NEW frames, NEW bad, NEW lost,
           Streaming(buffer, cells, tail, dead, newest, frames, bad, lost),
           UnderWay(buffer, cells, tail, dead, newest, frames, bad, lost), Len(buffer) = HeaderSize
    PROVE  UnderWay(<< >>, cells, tail, dead, newest, frames, bad, lost \cup {buffer[1].frame.id})
<1> DEFINE b == Len(buffer)
           w == Len(cells)
           r == Len(tail)
           n == b + w + r
           l == Ahead(b, w, r, dead)
           last == Len(frames)
           sizes == Sizes(frames)
           buffer2 == << >>
           b2 == Len(buffer2)
           n2 == b2 + w + r
           l2 == Ahead(b2, w, r, dead)
           lost2 == lost \cup {buffer[1].frame.id}
<1>1. /\ Setting(b, w, r, n, l, dead, newest, last, sizes, bad, lost)
      /\ b \in Nat /\ w \in Nat /\ r \in Nat /\ dead \in BOOLEAN
  BY StreamingSets
<1>2. Numbered(frames, last)
  BY DEF Streaming, Numbered
<1>3. UnderWayBy(buffer, b, cells, w, tail, r, n, l, dead, newest, frames, last, sizes, bad, lost)
  BY DEF UnderWay, Ahead
<1>4. b2 = 0 /\ b >= 2
  BY DEF HeaderSize
<1> HIDE DEF b, w, r, n, l, last, sizes, buffer2, b2, n2, l2, lost2
<1>5. Restarted(b, w, r, l, b2, n2, l2)
  BY <1>1, <1>4, AheadEmptied DEF n2, l, l2
<1>7. Torn(buffer, b, lost, lost2)
  BY <1>4 DEF Torn, lost2
<1>6. UnderWayBy(buffer2, b2, cells, w, tail, r, n2, l2, dead, newest, frames, last, sizes, bad, lost2)
  BY <1>1, <1>2, <1>3, <1>5, <1>7, RefusedBy, Zenon
<1> QED BY <1>6 DEF UnderWay, Ahead, w, r, buffer2, b2, last, sizes, n2, l2, lost2

\* The frames of the buffer are accepted ones.
LEMMA BufferedFrames ==
    ASSUME NEW buffer, NEW cells, NEW tail, NEW dead, NEW newest, NEW frames, NEW bad, NEW lost,
           Streaming(buffer, cells, tail, dead, newest, frames, bad, lost),
           UnderWay(buffer, cells, tail, dead, newest, frames, bad, lost)
    PROVE  \A i \in 1..Len(buffer) : /\ buffer[i].frame.id \in 1..Len(frames)
                                     /\ buffer[i].frame = frames[buffer[i].frame.id]
                                     /\ buffer[i] \in Cells
<1> DEFINE b == Len(buffer)
           w == Len(cells)
           r == Len(tail)
           n == b + w + r
           l == Ahead(b, w, r, dead)
           last == Len(frames)
           sizes == Sizes(frames)
<1>1. b \in Nat /\ w \in Nat /\ r \in Nat
  BY StreamingSets
<1>2. /\ \A j \in 1..last : frames[j].id = j
      /\ newest \in 0..last /\ last \in Nat
  BY DEF Streaming
<1>3. \A i \in 1..b : buffer[i] \in Cells
  BY DEF Streaming
<1>4. UnderWayBy(buffer, b, cells, w, tail, r, n, l, dead, newest, frames, last, sizes, bad, lost)
  BY DEF UnderWay, Ahead
<1> HIDE DEF b, w, r, l, last, sizes
<1>5. \A i \in 1..b : i \in 1..n
  BY <1>1
<1> HIDE DEF n
<1>6. PICK ids \in [Nat -> Nat], ats \in [Nat -> Nat], seen \in [Nat -> Nat] :
         /\ CarriedBy(buffer, b, cells, w, tail, r, ids, ats, seen, frames, last)
         /\ Flow(n, l, dead, ids, ats, seen, newest, last, sizes, bad, lost)
  BY <1>4 DEF UnderWayBy
<1>7. ASSUME NEW i \in 1..b
      PROVE  buffer[i].frame.id \in 1..last /\ buffer[i].frame = frames[buffer[i].frame.id]
  <2>1. buffer[i].frame = frames[ids[i]]
    BY <1>6 DEF CarriedBy
  <2>2. ids[i] \in newest + 1..last
    BY <1>5, <1>6 DEF Flow, Placed
  <2>3. ids[i] \in 1..last
    BY <1>2, <2>2
  <2> QED BY <1>2, <2>1, <2>3
<1> QED BY <1>3, <1>7 DEF b, last

Delivered(cells, tail, dead, newest, frames, bad, lost, f, k) ==
    /\ k \in newest + 1..Len(frames) /\ k \notin bad \cup lost /\ f = frames[k]
    /\ \A j \in newest + 1..k - 1 : j \in bad \/ OutOfStep(j, lost)
    /\ UnderWay(<< >>, cells, tail, dead, k, frames, bad, lost)

LEMMA UnderWayDecoded ==
    ASSUME NEW buffer, NEW cells, NEW tail, NEW dead, NEW newest, NEW frames, NEW bad, NEW lost,
           Streaming(buffer, cells, tail, dead, newest, frames, bad, lost),
           UnderWay(buffer, cells, tail, dead, newest, frames, bad, lost),
           NEW limit, Len(buffer) >= 2, Len(buffer) \in frame_size_from_header(buffer, limit)
    PROVE  LET f == decode_frame(buffer, limit)
           IN IF f = NoFrame
              THEN UnderWay(<< >>, cells, tail, dead, newest, frames, bad, lost)
              ELSE \E k \in Nat : Delivered(cells, tail, dead, newest, frames, bad, lost, f, k)
<1> DEFINE b == Len(buffer)
           w == Len(cells)
           r == Len(tail)
           n == b + w + r
           l == Ahead(b, w, r, dead)
           last == Len(frames)
           sizes == Sizes(frames)
           buffer2 == << >>
           b2 == Len(buffer2)
           n2 == b2 + w + r
           l2 == Ahead(b2, w, r, dead)
           f == decode_frame(buffer, limit)
<1>1. /\ Setting(b, w, r, n, l, dead, newest, last, sizes, bad, lost)
      /\ b \in Nat /\ w \in Nat /\ r \in Nat /\ dead \in BOOLEAN
  BY StreamingSets
<1>2. Numbered(frames, last)
  BY DEF Streaming, Numbered
<1>3. UnderWayBy(buffer, b, cells, w, tail, r, n, l, dead, newest, frames, last, sizes, bad, lost)
  BY DEF UnderWay, Ahead
<1>4. b2 = 0 /\ b >= 2 /\ b # 0
  OBVIOUS
<1>5. /\ \A i \in 1..b : buffer[i] \in Cells
      /\ \A i \in 1..b : buffer[i].frame.id \in 1..last /\ buffer[i].frame = frames[buffer[i].frame.id]
  BY BufferedFrames
<1>6. \A j \in 1..last : sizes[j] = size(frames[j])
  BY DEF Sizes
<1>7. \A j \in 1..last : sizes[j] >= 2 /\ frames[j] \in Frames
  BY SizesNatural DEF Streaming
<1>8. b \in frame_size_from_header(buffer, limit)
  OBVIOUS
<1> HIDE DEF b, w, r, n, l, last, sizes, buffer2, b2, n2, l2
<1>9. 1 \in 1..b /\ 2 \in 1..b /\ \A i \in 3..b : i \in 1..b
  BY <1>1, <1>4
<1>10. buffer[1].at = 1
  BY <1>4, <1>8 DEF frame_size_from_header, Rejected
<1>11. buffer[2].at = 2 => b = sizes[buffer[2].frame.id]
  <2> SUFFICES ASSUME buffer[2].at = 2 PROVE b = size(buffer[2].frame)
    BY <1>5, <1>6, <1>9
  <2>1. b = checked_frame_size(buffer[2].frame.topic, buffer[2].frame.payload, limit)
    BY <1>8, <1>10 DEF frame_size_from_header
  <2> QED BY <1>4, <2>1 DEF checked_frame_size, size, Rejected
<1>12. Restarted(b, w, r, l, b2, n2, l2)
  BY <1>1, <1>4, AheadEmptied DEF n2, l, l2
<1>13. IF Decodes(buffer, b)
       THEN \E k \in Nat :
               DeliveredBy(buffer, buffer2, b2, cells, w, tail, r, n2, l2, dead, newest, frames, last,
                           sizes, bad, lost, k)
       ELSE UnderWayBy(buffer2, b2, cells, w, tail, r, n2, l2, dead, newest, frames, last, sizes, bad,
                       lost)
  <2>1. HeaderRead(buffer, b, last, sizes)
    BY <1>4, <1>7, <1>10, <1>11 DEF HeaderRead
  <2> QED BY <1>1, <1>2, <1>3, <1>12, <2>1, BodyBy, Zenon
<1>14. Decodes(buffer, b) <=> crc_matches(buffer)
  <2>1. ASSUME NEW i \in 3..b
        PROVE  buffer[i] = [frame |-> buffer[2].frame, at |-> i]
               <=> buffer[i].frame = buffer[2].frame /\ buffer[i].at = i
    <3>1. buffer[i] \in [frame : Frames, at : Nat]
      BY <1>5, <1>9 DEF Cells
    <3> QED BY <3>1
  <2>2. crc_matches(buffer) <=> /\ buffer[2].at = 2
                                /\ \A i \in 3..b : buffer[i] = [frame |-> buffer[2].frame, at |-> i]
    BY DEF crc_matches, HeaderSize, b
  <2> QED BY <2>1, <2>2, Zenon DEF Decodes
<1>15. f = IF Decodes(buffer, b) THEN [buffer[2].frame EXCEPT !.flags = buffer[1].frame.flags]
           ELSE NoFrame
  <2>1. Len(buffer) >= HeaderSize /\ Len(buffer) \in frame_size_from_header(buffer, limit)
    BY DEF HeaderSize
  <2> QED BY <1>14, <2>1, Zenon DEF decode_frame
<1> HIDE DEF f
<1>16. CASE ~Decodes(buffer, b)
  <2>1. f = NoFrame
    BY <1>15, <1>16
  <2>2. UnderWayBy(buffer2, b2, cells, w, tail, r, n2, l2, dead, newest, frames, last, sizes, bad, lost)
    BY <1>13, <1>16
  <2>3. UnderWay(<< >>, cells, tail, dead, newest, frames, bad, lost)
    BY <2>2 DEF UnderWay, Ahead, w, r, buffer2, b2, last, sizes, n2, l2
  <2> QED BY <2>1, <2>3 DEF f
<1>17. CASE Decodes(buffer, b)
  <2>1. PICK k \in Nat :
           DeliveredBy(buffer, buffer2, b2, cells, w, tail, r, n2, l2, dead, newest, frames, last,
                       sizes, bad, lost, k)
    BY <1>13, <1>17
  <2>2. /\ k \in newest + 1..last /\ k \notin bad \cup lost
        /\ buffer[1].frame = frames[k] /\ buffer[2].frame = frames[k]
        /\ \A j \in newest + 1..k - 1 : j \in bad \/ OutOfStep(j, lost)
        /\ UnderWayBy(buffer2, b2, cells, w, tail, r, n2, l2, dead, k, frames, last, sizes, bad, lost)
    BY <2>1 DEF DeliveredBy
  <2>3. k \in 1..last
    BY <1>1, <2>2 DEF Setting
  <2>4. f = frames[k] /\ f \in Frames
    <3>1. [frames[k] EXCEPT !.flags = frames[k].flags] = frames[k]
      BY <1>7, <2>3, FrameFields
    <3> QED BY <1>7, <1>15, <1>17, <2>2, <2>3, <3>1
  <2>5. UnderWay(<< >>, cells, tail, dead, k, frames, bad, lost)
    BY <2>2 DEF UnderWay, Ahead, w, r, buffer2, b2, last, sizes, n2, l2
  <2>6. Delivered(cells, tail, dead, newest, frames, bad, lost, f, k)
    BY <2>2, <2>4, <2>5, Zenon DEF Delivered, last
  <2> QED BY <2>4, <2>6, NoFrameAssumption DEF f
<1> QED BY <1>16, <1>17
-----------------------------------------------------------------------------
(* The invariant of the connection. *)

\* The cells of the frame being sent that the socket has not taken.
Rest == IF send_mutex = NoThread THEN << >> ELSE unsent[send_mutex]

\* The client can still receive, now or once it is connected.
Usable == socket_fd_[Client] # 0 \/ stage[Client] # "connected"

StreamTypes ==
    /\ receive_buffer_ \in Seq(Cells) /\ wire \in Seq(Cells) /\ unsent \in [Threads -> Seq(Cells)]
    /\ broken \in BOOLEAN /\ (broken => wire = << >>)
    /\ accepted \in Seq(Frames) /\ \A j \in 1..Len(accepted) : accepted[j].id = j
    /\ delivered \in Seq(Frames) /\ Stream!Newest \in 0..Len(accepted)
    /\ \A x \in spoilt \cup torn : x \in 1..Len(accepted)
    /\ \A i \in 1..Len(wire) : wire[i].frame.id \in 1..Len(accepted)

\* A frame being sent is the last one accepted.
SendingLast ==
    \A t \in Threads : pc[t] = "send" =>
       /\ unsent[t] # << >>
       /\ \A i \in 1..Len(unsent[t]) : unsent[t][i].frame.id = Len(accepted)

\* The size read from a header is one that the header still shows.
HeaderKnown ==
    declared # 0 => /\ Len(receive_buffer_) >= 2
                    /\ declared \in frame_size_from_header(receive_buffer_, limits[Client])

FlowInv ==
    Usable => UnderWay(receive_buffer_, wire, Rest, broken, Stream!Newest, accepted, spoilt, torn)

ClosingOpen == \A e \in Ends : closing[e] => socket_fd_[e] # 0

StreamCore == StreamTypes /\ SendingLast /\ HeaderKnown /\ FlowInv
StreamInv == DescriptorInv /\ ClosingOpen /\ StreamCore

StreamStep == [Stream!Accept \/ Stream!Lose \/ Stream!Deliver]_(Stream!vars)

LEMMA RestSent ==
    ASSUME StreamInv
    PROVE  /\ Rest \in Seq(Cells)
           /\ \A t \in Threads : pc[t] = "send" => Rest = unsent[t] /\ Rest # << >>
           /\ Streaming(receive_buffer_, wire, Rest, broken, Stream!Newest, accepted, spoilt, torn)
<1>1. Rest \in Seq(Cells)
  <2>1. << >> \in Seq(Cells)
    OBVIOUS
  <2>2. unsent \in [Threads -> Seq(Cells)] /\ send_mutex \in Threads \cup {NoThread}
    BY DEF StreamInv, StreamCore, StreamTypes, DescriptorInv, MutexHeld
  <2> QED BY <2>1, <2>2, Zenon DEF Rest
<1>2. \A t \in Threads : pc[t] = "send" => Rest = unsent[t] /\ Rest # << >>
  BY ThreadsAssumption DEF StreamInv, StreamCore, SendingLast, DescriptorInv, MutexHeld, Rest, Threads
<1>3. Streaming(receive_buffer_, wire, Rest, broken, Stream!Newest, accepted, spoilt, torn)
  BY <1>1, Zenon DEF StreamInv, StreamCore, StreamTypes, Streaming
<1> QED BY <1>1, <1>2, <1>3

\* A step that moves no cell, accepts and delivers nothing.
LEMMA StreamKept ==
    ASSUME StreamInv, Usable' => Usable,
           UNCHANGED <<receive_buffer_, wire, unsent, broken, send_mutex, declared, accepted, delivered,
                       spoilt, torn>>,
           \A t \in Threads : pc'[t] = "send" => pc[t] = "send"
    PROVE  StreamCore' /\ StreamStep
<1>1. StreamTypes' /\ HeaderKnown'
  BY DEF StreamInv, StreamCore, StreamTypes, HeaderKnown, Stream!Newest
<1>2. SendingLast'
  BY DEF StreamInv, StreamCore, SendingLast
<1>3. FlowInv'
  <2>1. Rest' = Rest /\ Stream!Newest' = Stream!Newest
    BY DEF Rest, Stream!Newest
  <2> QED BY <2>1 DEF StreamInv, StreamCore, FlowInv
<1>4. StreamStep
  BY DEF StreamStep, Stream!vars
<1> QED BY <1>1, <1>2, <1>3, <1>4 DEF StreamCore

LEMMA StreamSendFrame ==
    ASSUME StreamInv, NEW t \in Threads, SendFrame(t)
    PROVE  StreamCore' /\ StreamStep
<1> DEFINE last == Len(accepted)
<1>1. PICK kind \in KindsOf(t) :
         /\ accepted' = Append(accepted, Frame(last + 1, kind))
         /\ unsent' = [unsent EXCEPT ![t] = encode_frame(Frame(last + 1, kind))]
  BY DEF SendFrame
<1> DEFINE f == Frame(last + 1, kind)
<1>2. /\ UNCHANGED <<receive_buffer_, wire, broken, declared, delivered, spoilt, torn>>
      /\ UNCHANGED <<stage, socket_fd_>>
      /\ send_mutex = NoThread /\ send_mutex' = t /\ pc' = [pc EXCEPT ![t] = "send"] /\ last < MaxFrames
  BY DEF SendFrame, Goto, setupVars, ioVars, receiveVars
<1>3. /\ unsent \in [Threads -> Seq(Cells)] /\ accepted \in Seq(Frames) /\ last \in Nat
      /\ pc \in [Threads -> {"idle", "send", "threw"}] /\ NoThread \notin Threads
      /\ \A x \in Threads : pc[x] # "send"
  BY <1>2, ThreadsAssumption DEF StreamInv, StreamCore, StreamTypes, DescriptorInv, MutexHeld, Threads
<1>4. f \in Frames /\ f.id = last + 1
  <2>1. kind \in {data(c) : c \in bodies} \cup {heartbeat}
    BY DEF KindsOf
  <2>2. last + 1 \in 1..MaxFrames
    BY <1>2, <1>3, ConnectionBoundsAssumption
  <2>3. f \in Frames
    BY <2>1, <2>2 DEF Frames
  <2> QED BY <2>3 DEF Frame
<1>5. /\ Rest = << >> /\ Rest' = encode_frame(f)
  BY <1>1, <1>2, <1>3 DEF Rest
<1>6. /\ encode_frame(f) \in Seq(Cells) /\ Len(encode_frame(f)) = size(f) /\ size(f) >= 2
      /\ \A i \in 1..size(f) : encode_frame(f)[i].frame = f
  BY <1>4, EncodedCells, FrameFields
<1> HIDE DEF f
<1>7. /\ accepted' \in Seq(Frames) /\ Len(accepted') = last + 1
      /\ accepted'[last + 1] = f /\ \A j \in 1..last : accepted'[j] = accepted[j]
  BY <1>1, <1>3, <1>4, SequenceEnds DEF f
<1> HIDE DEF last
<1>8. StreamTypes'
  <2>1. \A j \in 1..last + 1 : accepted'[j].id = j
    <3>1. \A j \in 1..last : accepted[j].id = j
      BY DEF StreamInv, StreamCore, StreamTypes, last
    <3>2. \A j \in 1..last + 1 : j \in 1..last \/ j = last + 1
      BY <1>3
    <3> QED BY <1>4, <1>7, <3>1, <3>2
  <2>2. \A x : x \in 1..last => x \in 1..last + 1
    BY <1>3
  <2>3. Stream!Newest' \in 0..last + 1
    <3>1. Stream!Newest' = Stream!Newest /\ Stream!Newest \in 0..last
      BY <1>2 DEF StreamInv, StreamCore, StreamTypes, last, Stream!Newest
    <3> QED BY <1>3, <3>1
  <2>4. unsent' \in [Threads -> Seq(Cells)]
    BY <1>1, <1>3, <1>6 DEF f
  <2>5. /\ \A x \in spoilt \cup torn : x \in 1..last + 1
        /\ \A i \in 1..Len(wire) : wire[i].frame.id \in 1..last + 1
    BY <2>2 DEF StreamInv, StreamCore, StreamTypes, last
  <2>6. /\ receive_buffer_ \in Seq(Cells) /\ wire \in Seq(Cells)
        /\ broken \in BOOLEAN /\ (broken => wire = << >>) /\ delivered \in Seq(Frames)
    BY DEF StreamInv, StreamCore, StreamTypes
  <2> QED BY <1>2, <1>7, <2>1, <2>3, <2>4, <2>5, <2>6 DEF StreamTypes
<1>9. SendingLast'
  <2>1. unsent'[t] = encode_frame(f)
    BY <1>1, <1>3 DEF f
  <2>2. encode_frame(f) # << >>
    BY <1>6
  <2>3. \A x \in Threads : pc'[x] = "send" => x = t
    BY <1>2, <1>3
  <2>4. \A i \in 1..Len(encode_frame(f)) : encode_frame(f)[i].frame.id = last + 1
    BY <1>4, <1>6
  <2> QED BY <1>7, <2>1, <2>2, <2>3, <2>4 DEF SendingLast
<1>10. HeaderKnown'
  BY <1>2 DEF StreamInv, StreamCore, HeaderKnown
<1>11. FlowInv'
  <2>1. Stream!Newest' = Stream!Newest /\ Usable' = Usable
    BY <1>2 DEF Stream!Newest, Usable
  <2> SUFFICES ASSUME Usable
               PROVE  UnderWay(receive_buffer_, wire, encode_frame(f), broken, Stream!Newest,
                               Append(accepted, f), spoilt, torn)
    BY <1>1, <1>2, <1>5, <2>1 DEF FlowInv, f, last
  <2>2. UnderWay(receive_buffer_, wire, Rest, broken, Stream!Newest, accepted, spoilt, torn)
    BY DEF StreamInv, StreamCore, FlowInv
  <2> QED BY <1>4, <1>5, <2>2, RestSent, UnderWayAccepted
<1>12. StreamStep
  <2>1. f \in Frames /\ f.id = Len(accepted) + 1 /\ accepted' = Append(accepted, f)
    BY <1>1, <1>4 DEF f, last
  <2> QED BY <1>2, <2>1 DEF StreamStep, Stream!Accept
<1> QED BY <1>8, <1>9, <1>10, <1>11, <1>12 DEF StreamCore
LEMMA StreamSend ==
    ASSUME StreamInv, NEW t \in Threads, Send(t)
    PROVE  StreamCore' /\ StreamStep
<1> DEFINE head == Head(unsent[t])
           tail == Tail(unsent[t])
<1>1. /\ UNCHANGED <<receive_buffer_, broken, declared, accepted, delivered, spoilt, torn>>
      /\ UNCHANGED <<stage, socket_fd_>>
      /\ pc[t] = "send" /\ ~broken
      /\ wire' = Append(wire, head) /\ unsent' = [unsent EXCEPT ![t] = tail]
      /\ IF Len(unsent[t]) = 1 THEN send_mutex' = NoThread /\ pc' = [pc EXCEPT ![t] = "idle"]
                               ELSE UNCHANGED <<send_mutex, pc>>
  BY DEF Send, Goto, setupVars, receiveVars, historyVars
<1>2. /\ unsent \in [Threads -> Seq(Cells)] /\ wire \in Seq(Cells)
      /\ pc \in [Threads -> {"idle", "send", "threw"}] /\ NoThread \notin Threads
      /\ send_mutex = t /\ \A x \in Threads : pc[x] = "send" => x = t
      /\ unsent[t] # << >> /\ \A i \in 1..Len(unsent[t]) : unsent[t][i].frame.id = Len(accepted)
  BY <1>1, ThreadsAssumption
  DEF StreamInv, StreamCore, StreamTypes, SendingLast, DescriptorInv, MutexHeld, Threads
<1>3. Rest = unsent[t]
  BY <1>1, RestSent
<1>4. /\ head = unsent[t][1] /\ head \in Cells /\ tail \in Seq(Cells)
      /\ Len(unsent[t]) \in Nat \ {0} /\ Len(tail) = Len(unsent[t]) - 1
      /\ \A i \in 1..Len(unsent[t]) - 1 : tail[i] = unsent[t][i + 1]
  BY <1>2, SequenceEnds
<1>5. /\ wire' \in Seq(Cells) /\ Len(wire') = Len(wire) + 1 /\ wire'[Len(wire) + 1] = head
      /\ \A i \in 1..Len(wire) : wire'[i] = wire[i]
      /\ Len(wire) \in Nat
  BY <1>1, <1>2, <1>4, SequenceEnds
<1>6. unsent'[t] = tail
  BY <1>1, <1>2
<1>7. Rest' = tail
  <2>1. CASE Len(unsent[t]) = 1
    <3>1. Len(tail) = 0 /\ tail \in Seq(Cells)
      BY <1>4, <2>1
    <3>2. tail = << >>
      BY <3>1, EmptySeq
    <3> QED BY <1>1, <2>1, <3>2 DEF Rest
  <2>2. CASE Len(unsent[t]) # 1
    BY <1>1, <1>2, <1>6, <2>2 DEF Rest
  <2> QED BY <2>1, <2>2
<1> HIDE DEF head, tail
<1>8. StreamTypes'
  <2>1. head.frame.id \in 1..Len(accepted)
    <3>1. head.frame.id = Len(accepted) /\ Len(accepted) \in Nat
      BY <1>2, <1>4 DEF StreamInv, StreamCore, StreamTypes
    <3>2. head.frame \in Frames
      BY <1>4 DEF Cells
    <3>3. head.frame.id \in 1..MaxFrames
      BY <3>2, FrameFields
    <3> QED BY <3>1, <3>3, ConnectionBoundsAssumption
  <2>2. \A i \in 1..Len(wire) + 1 : wire'[i].frame.id \in 1..Len(accepted)
    <3>1. \A i \in 1..Len(wire) + 1 : i \in 1..Len(wire) \/ i = Len(wire) + 1
      BY <1>5
    <3>2. \A i \in 1..Len(wire) : wire[i].frame.id \in 1..Len(accepted)
      BY DEF StreamInv, StreamCore, StreamTypes
    <3> QED BY <1>5, <2>1, <3>1, <3>2
  <2>3. unsent' \in [Threads -> Seq(Cells)]
    BY <1>1, <1>2, <1>4
  <2>4. Stream!Newest' = Stream!Newest
    BY <1>1 DEF Stream!Newest
  <2> QED BY <1>1, <1>5, <2>2, <2>3, <2>4 DEF StreamInv, StreamCore, StreamTypes
<1>9. SendingLast'
  <2>1. \A x \in Threads : pc'[x] = "send" => x = t /\ Len(unsent[t]) # 1
    BY <1>1, <1>2
  <2>2. Len(unsent[t]) # 1 => tail # << >>
    <3>1. tail = << >> => Len(tail) = 0
      OBVIOUS
    <3> QED BY <1>4, <3>1
  <2>3. \A i \in 1..Len(tail) : tail[i].frame.id = Len(accepted)
    <3> TAKE i \in 1..Len(tail)
    <3>1. i \in 1..Len(unsent[t]) - 1 /\ i + 1 \in 1..Len(unsent[t])
      BY <1>4
    <3> QED BY <1>2, <1>4, <3>1
  <2> QED BY <1>1, <1>6, <2>1, <2>2, <2>3 DEF SendingLast
<1>10. HeaderKnown'
  BY <1>1 DEF StreamInv, StreamCore, HeaderKnown
<1>11. FlowInv'
  <2>1. Stream!Newest' = Stream!Newest /\ Usable' = Usable /\ broken = FALSE
    BY <1>1 DEF Stream!Newest, Usable, StreamInv, StreamCore, StreamTypes
  <2> SUFFICES ASSUME Usable
               PROVE  UnderWay(receive_buffer_, Append(wire, Head(Rest)), Tail(Rest), FALSE,
                               Stream!Newest, accepted, spoilt, torn)
    BY <1>1, <1>3, <1>7, <2>1 DEF FlowInv, head, tail
  <2>2. UnderWay(receive_buffer_, wire, Rest, FALSE, Stream!Newest, accepted, spoilt, torn)
    BY <2>1 DEF StreamInv, StreamCore, FlowInv
  <2>3. receive_buffer_ \in Seq(Cells) /\ Rest \in Seq(Cells) /\ Rest # << >>
    BY <1>2, <1>3 DEF StreamInv, StreamCore, StreamTypes
  <2> QED BY <1>2, <2>2, <2>3, UnderWaySent
<1>12. StreamStep
  BY <1>1 DEF StreamStep, Stream!vars
<1> QED BY <1>8, <1>9, <1>10, <1>11, <1>12 DEF StreamCore

LEMMA StreamSendFails ==
    ASSUME StreamInv, NEW t \in Threads, SendFails(t)
    PROVE  StreamCore' /\ StreamStep
<1> DEFINE first == unsent[t][1]
           last == Len(accepted)
<1>1. /\ UNCHANGED <<receive_buffer_, wire, broken, declared, accepted, delivered>>
      /\ UNCHANGED <<stage, socket_fd_>>
      /\ pc[t] = "send" /\ unsent' = [unsent EXCEPT ![t] = << >>]
      /\ send_mutex' = NoThread /\ pc' = [pc EXCEPT ![t] = "threw"]
      /\ IF first.at = 1 THEN spoilt' = spoilt \cup {first.frame.id} /\ UNCHANGED torn
                         ELSE torn' = torn \cup {first.frame.id} /\ UNCHANGED spoilt
  BY DEF SendFails, Goto, setupVars, ioVars, receiveVars
<1>2. /\ unsent \in [Threads -> Seq(Cells)]
      /\ pc \in [Threads -> {"idle", "send", "threw"}]
      /\ \A x \in Threads : pc[x] = "send" => x = t
      /\ unsent[t] # << >> /\ \A i \in 1..Len(unsent[t]) : unsent[t][i].frame.id = last
      /\ last \in Nat
  BY <1>1 DEF StreamInv, StreamCore, StreamTypes, SendingLast, DescriptorInv, MutexHeld
<1>3. Rest = unsent[t] /\ Rest' = << >>
  BY <1>1, RestSent DEF Rest
<1>4. first.frame.id = last /\ last \in 1..last
  <2>1. first \in Cells /\ Len(unsent[t]) \in Nat \ {0}
    BY <1>2, SequenceEnds
  <2>2. first.frame.id = last
    BY <1>2, <2>1
  <2>3. first.frame \in Frames
    BY <2>1 DEF Cells
  <2>4. first.frame.id \in 1..MaxFrames
    BY <2>3, FrameFields
  <2> QED BY <1>2, <2>2, <2>4, ConnectionBoundsAssumption
<1> HIDE DEF first, last
<1>5. Failed(first.at, last, spoilt, torn, spoilt', torn')
  BY <1>1, <1>4, Zenon DEF Failed
<1>6. StreamTypes'
  <2>1. \A x \in spoilt' \cup torn' : x \in 1..last
    <3>1. \A x \in spoilt \cup torn : x \in 1..last
      BY DEF StreamInv, StreamCore, StreamTypes, last
    <3> QED BY <1>4, <1>5, <3>1 DEF Failed
  <2>2. unsent' \in [Threads -> Seq(Cells)]
    BY <1>1, <1>2
  <2>3. Stream!Newest' = Stream!Newest
    BY <1>1 DEF Stream!Newest
  <2> QED BY <1>1, <2>1, <2>2, <2>3 DEF StreamInv, StreamCore, StreamTypes, last
<1>7. SendingLast'
  BY <1>1, <1>2 DEF SendingLast
<1>8. HeaderKnown'
  BY <1>1 DEF StreamInv, StreamCore, HeaderKnown
<1>9. FlowInv'
  <2>1. Stream!Newest' = Stream!Newest /\ Usable' = Usable
    BY <1>1 DEF Stream!Newest, Usable
  <2> SUFFICES ASSUME Usable
               PROVE  UnderWay(receive_buffer_, wire, << >>, broken, Stream!Newest, accepted, spoilt',
                               torn')
    BY <1>1, <1>3, <2>1 DEF FlowInv
  <2>2. UnderWay(receive_buffer_, wire, Rest, broken, Stream!Newest, accepted, spoilt, torn)
    BY DEF StreamInv, StreamCore, FlowInv
  <2>3. Rest # << >> /\ Failed(Rest[1].at, Len(accepted), spoilt, torn, spoilt', torn')
    BY <1>2, <1>3, <1>5 DEF first, last
  <2> QED BY <2>2, <2>3, RestSent, UnderWayFailed
<1>10. StreamStep
  <2>1. \/ spoilt' = spoilt \cup {last} /\ UNCHANGED torn
        \/ torn' = torn \cup {last} /\ UNCHANGED spoilt
    BY <1>1, <1>4
  <2> QED BY <1>1, <1>4, <2>1 DEF StreamStep, Stream!Lose, last
<1> QED BY <1>6, <1>7, <1>8, <1>9, <1>10 DEF StreamCore
\* Cells that arrive behind a header do not change what it shows.
LEMMA HeaderStays ==
    ASSUME NEW buffer \in Seq(Cells), Len(buffer) >= 2, NEW cell \in Cells, NEW limit
    PROVE  frame_size_from_header(Append(buffer, cell), limit) = frame_size_from_header(buffer, limit)
<1>1. 1 \in 1..Len(buffer) /\ 2 \in 1..Len(buffer)
  OBVIOUS
<1>2. Append(buffer, cell)[1] = buffer[1] /\ Append(buffer, cell)[2] = buffer[2]
  BY <1>1, SequenceEnds
<1> QED BY <1>2, Zenon DEF frame_size_from_header

LEMMA StreamRecv ==
    ASSUME StreamInv, Recv
    PROVE  StreamCore' /\ StreamStep
<1>1. /\ UNCHANGED <<broken, declared, accepted, delivered, spoilt, torn, unsent, send_mutex, pc>>
      /\ UNCHANGED <<stage, socket_fd_>>
      /\ ~broken /\ wire # << >>
      /\ receive_buffer_' = Append(receive_buffer_, Head(wire)) /\ wire' = Tail(wire)
  BY DEF Recv, setupVars, sendVars, historyVars
<1>2. receive_buffer_ \in Seq(Cells) /\ wire \in Seq(Cells)
  BY DEF StreamInv, StreamCore, StreamTypes
<1>3. /\ Head(wire) = wire[1] /\ Head(wire) \in Cells /\ wire' \in Seq(Cells)
      /\ Len(wire) \in Nat \ {0} /\ Len(wire') = Len(wire) - 1
      /\ \A i \in 1..Len(wire) - 1 : wire'[i] = wire[i + 1]
  BY <1>1, <1>2, SequenceEnds
<1>4. receive_buffer_' \in Seq(Cells) /\ Len(receive_buffer_') = Len(receive_buffer_) + 1
  BY <1>1, <1>2, <1>3, SequenceEnds
<1>5. StreamTypes'
  <2>1. \A i \in 1..Len(wire') : wire'[i].frame.id \in 1..Len(accepted)
    <3> TAKE i \in 1..Len(wire')
    <3>1. i \in 1..Len(wire) - 1 /\ i + 1 \in 1..Len(wire)
      BY <1>3
    <3> QED BY <1>3, <3>1 DEF StreamInv, StreamCore, StreamTypes
  <2>2. Stream!Newest' = Stream!Newest
    BY <1>1 DEF Stream!Newest
  <2> QED BY <1>1, <1>3, <1>4, <2>1, <2>2 DEF StreamInv, StreamCore, StreamTypes
<1>6. SendingLast'
  BY <1>1 DEF StreamInv, StreamCore, SendingLast
<1>7. HeaderKnown'
  <2> SUFFICES ASSUME declared # 0
               PROVE  /\ Len(receive_buffer_') >= 2
                      /\ declared \in frame_size_from_header(receive_buffer_', limits[Client])
    BY <1>1 DEF HeaderKnown
  <2>1. /\ Len(receive_buffer_) >= 2
        /\ declared \in frame_size_from_header(receive_buffer_, limits[Client])
    BY DEF StreamInv, StreamCore, HeaderKnown
  <2>2. Len(receive_buffer_') >= 2
    BY <1>2, <1>4, <2>1
  <2> QED BY <1>1, <1>2, <1>3, <2>1, <2>2, HeaderStays
<1>8. FlowInv'
  <2>1. Stream!Newest' = Stream!Newest /\ Usable' = Usable /\ broken = FALSE /\ Rest' = Rest
    BY <1>1 DEF Stream!Newest, Usable, Rest, StreamInv, StreamCore, StreamTypes
  <2> SUFFICES ASSUME Usable
               PROVE  UnderWay(Append(receive_buffer_, Head(wire)), Tail(wire), Rest, FALSE,
                               Stream!Newest, accepted, spoilt, torn)
    BY <1>1, <2>1 DEF FlowInv
  <2>2. UnderWay(receive_buffer_, wire, Rest, broken, Stream!Newest, accepted, spoilt, torn)
    BY DEF StreamInv, StreamCore, FlowInv
  <2>3. UnderWay(receive_buffer_, wire, Rest, FALSE, Stream!Newest, accepted, spoilt, torn)
    <3>1. broken = FALSE
      BY <2>1
    <3> QED BY <2>2, <3>1
  <2> QED BY <1>1, <1>2, <2>3, RestSent, UnderWayReceived
<1>9. StreamStep
  BY <1>1 DEF StreamStep, Stream!vars
<1> QED BY <1>5, <1>6, <1>7, <1>8, <1>9 DEF StreamCore

\* A receive_frame call that has got past the check of the descriptor.
LEMMA ReadingUsable == StreamInv /\ reading => Usable
BY DEF StreamInv, DescriptorInv, DescriptorsOwned, Usable

LEMMA StreamHeader ==
    ASSUME StreamInv, ReceiveHeader
    PROVE  StreamCore' /\ StreamStep
<1>1. /\ UNCHANGED <<broken, wire, accepted, delivered, spoilt, unsent, send_mutex, pc>>
      /\ UNCHANGED <<stage, socket_fd_>>
      /\ reading /\ declared = 0 /\ Len(receive_buffer_) = HeaderSize
  BY DEF ReceiveHeader, setupVars, sendVars
<1>2. CASE /\ declared' \in frame_size_from_header(receive_buffer_, limits[Client])
           /\ UNCHANGED <<receive_buffer_, torn>>
  <2>1. StreamTypes' /\ SendingLast' /\ FlowInv'
    BY <1>1, <1>2
    DEF StreamInv, StreamCore, StreamTypes, SendingLast, FlowInv, Usable, Rest, Stream!Newest
  <2>2. HeaderKnown'
    <3>1. receive_buffer_' = receive_buffer_ /\ Len(receive_buffer_) >= 2
      BY <1>1, <1>2 DEF HeaderSize
    <3> QED BY <1>2, <3>1 DEF HeaderKnown
  <2>3. StreamStep
    BY <1>1, <1>2 DEF StreamStep, Stream!vars
  <2> QED BY <2>1, <2>2, <2>3 DEF StreamCore
<1>3. CASE /\ receive_buffer_' = << >> /\ declared' = declared
           /\ torn' = torn \cup {receive_buffer_[1].frame.id}
  <2>1. UnderWay(receive_buffer_, wire, Rest, broken, Stream!Newest, accepted, spoilt, torn)
    BY <1>1, ReadingUsable DEF StreamInv, StreamCore, FlowInv
  <2>2. receive_buffer_[1].frame.id \in 1..Len(accepted)
    <3>1. 1 \in 1..Len(receive_buffer_)
      BY <1>1 DEF HeaderSize
    <3> QED BY <2>1, <3>1, RestSent, BufferedFrames
  <2>3. UnderWay(<< >>, wire, Rest, broken, Stream!Newest, accepted, spoilt, torn')
    BY <1>1, <1>3, <2>1, RestSent, UnderWayRefused
  <2>4. Stream!Newest' = Stream!Newest /\ Rest' = Rest
    BY <1>1 DEF Stream!Newest, Rest
  <2>5. StreamTypes'
    <3>1. \A x \in spoilt \cup torn' : x \in 1..Len(accepted)
      BY <1>3, <2>2 DEF StreamInv, StreamCore, StreamTypes
    <3>2. << >> \in Seq(Cells)
      OBVIOUS
    <3> QED BY <1>1, <1>3, <2>4, <3>1, <3>2 DEF StreamInv, StreamCore, StreamTypes
  <2>6. SendingLast' /\ HeaderKnown'
    BY <1>1, <1>3 DEF StreamInv, StreamCore, SendingLast, HeaderKnown
  <2>7. FlowInv'
    BY <1>1, <1>3, <2>3, <2>4 DEF FlowInv
  <2>8. StreamStep
    BY <1>1, <1>3, <2>2 DEF StreamStep, Stream!Lose
  <2> QED BY <2>5, <2>6, <2>7, <2>8 DEF StreamCore
<1> QED BY <1>2, <1>3 DEF ReceiveHeader

LEMMA StreamBody ==
    ASSUME StreamInv, ReceiveBody
    PROVE  StreamCore' /\ StreamStep
<1> DEFINE f == decode_frame(receive_buffer_, limits[Client])
<1>1. /\ UNCHANGED <<broken, wire, accepted, spoilt, torn, unsent, send_mutex, pc>>
      /\ UNCHANGED <<stage, socket_fd_>>
      /\ reading /\ declared # 0 /\ Len(receive_buffer_) = declared
      /\ delivered' = IF f = NoFrame THEN delivered ELSE Append(delivered, f)
      /\ receive_buffer_' = << >> /\ declared' = 0
  BY DEF ReceiveBody, setupVars, ioVars, sendVars
<1>2. UnderWay(receive_buffer_, wire, Rest, broken, Stream!Newest, accepted, spoilt, torn)
  BY <1>1, ReadingUsable DEF StreamInv, StreamCore, FlowInv
<1>3. /\ Len(receive_buffer_) >= 2
      /\ Len(receive_buffer_) \in frame_size_from_header(receive_buffer_, limits[Client])
  BY <1>1 DEF StreamInv, StreamCore, HeaderKnown
<1>4. IF f = NoFrame
      THEN UnderWay(<< >>, wire, Rest, broken, Stream!Newest, accepted, spoilt, torn)
      ELSE \E k \in Nat : Delivered(wire, Rest, broken, Stream!Newest, accepted, spoilt, torn, f, k)
  BY <1>2, <1>3, RestSent, UnderWayDecoded
<1>5. /\ wire \in Seq(Cells) /\ unsent \in [Threads -> Seq(Cells)]
      /\ broken \in BOOLEAN /\ (broken => wire = << >>)
      /\ accepted \in Seq(Frames) /\ \A j \in 1..Len(accepted) : accepted[j].id = j
      /\ delivered \in Seq(Frames) /\ Stream!Newest \in 0..Len(accepted)
      /\ \A x \in spoilt \cup torn : x \in 1..Len(accepted)
      /\ \A i \in 1..Len(wire) : wire[i].frame.id \in 1..Len(accepted)
  BY DEF StreamInv, StreamCore, StreamTypes
<1>6. << >> \in Seq(Cells) /\ Rest' = Rest
  BY <1>1 DEF Rest
<1>7. SendingLast' /\ HeaderKnown'
  BY <1>1 DEF StreamInv, StreamCore, SendingLast, HeaderKnown
<1> HIDE DEF f
<1>8. CASE f = NoFrame
  <2>1. delivered' = delivered
    BY <1>1, <1>8
  <2>2. Stream!Newest' = Stream!Newest
    BY <2>1 DEF Stream!Newest
  <2>3. StreamTypes'
    BY <1>1, <1>5, <1>6, <2>1, <2>2 DEF StreamTypes
  <2>4. FlowInv'
    BY <1>1, <1>4, <1>6, <1>8, <2>2 DEF FlowInv
  <2>5. StreamStep
    BY <1>1, <2>1 DEF StreamStep, Stream!vars
  <2> QED BY <1>7, <2>3, <2>4, <2>5 DEF StreamCore
<1>9. CASE f # NoFrame
  <2>1. PICK k \in Nat : Delivered(wire, Rest, broken, Stream!Newest, accepted, spoilt, torn, f, k)
    BY <1>4, <1>9
  <2>2. /\ k \in Stream!Newest + 1..Len(accepted) /\ k \notin spoilt \cup torn /\ f = accepted[k]
        /\ \A j \in Stream!Newest + 1..k - 1 : j \in spoilt \/ OutOfStep(j, torn)
        /\ UnderWay(<< >>, wire, Rest, broken, k, accepted, spoilt, torn)
    BY <2>1 DEF Delivered
  <2>3. k \in 1..Len(accepted) /\ k \in 0..Len(accepted)
    BY <1>5, <2>2
  <2>4. f \in Frames /\ f.id = k
    BY <1>5, <2>2, <2>3
  <2>5. /\ delivered' = Append(delivered, f) /\ delivered' \in Seq(Frames)
        /\ Len(delivered') = Len(delivered) + 1 /\ delivered'[Len(delivered')] = f
        /\ Len(delivered) \in Nat
    BY <1>1, <1>5, <1>9, <2>4, SequenceEnds
  <2>6. Stream!Newest' = k
    <3>1. delivered' # << >>
      <4>1. delivered' = << >> => Len(delivered') = 0
        OBVIOUS
      <4> QED BY <2>5, <4>1
    <3> QED BY <2>4, <2>5, <3>1 DEF Stream!Newest
  <2>7. StreamTypes'
    BY <1>1, <1>5, <1>6, <2>3, <2>5, <2>6 DEF StreamTypes
  <2>8. FlowInv'
    BY <1>1, <1>6, <2>2, <2>6 DEF FlowInv
  <2>9. StreamStep
    <3>1. \A j \in Stream!Newest + 1..k - 1 : Stream!Excused(j)
      BY <2>2 DEF Stream!Excused, OutOfStep
    <3>2. delivered' = Append(delivered, accepted[k])
      BY <2>2, <2>5
    <3>3. Stream!Deliver
      BY <1>1, <2>2, <3>1, <3>2 DEF Stream!Deliver
    <3> QED BY <3>3 DEF StreamStep
  <2> QED BY <1>7, <2>7, <2>8, <2>9 DEF StreamCore
<1> QED BY <1>8, <1>9
\* close() of the client's end: nothing is read afterwards.
LEMMA StreamClose ==
    ASSUME StreamInv, Close(Client)
    PROVE  StreamCore' /\ StreamStep
<1>1. /\ UNCHANGED <<broken, wire, accepted, delivered, spoilt, torn, unsent, send_mutex, pc, stage>>
      /\ receive_buffer_' = << >> /\ declared' = 0 /\ closing[Client]
      /\ socket_fd_' = [socket_fd_ EXCEPT ![Client] = 0]
  BY DEF Close, CloseSocket, ioVars, sendVars, historyVars, Server, Client
<1>2. ~Usable'
  <2>1. socket_fd_ \in [Ends -> Nat] /\ stage[Client] = "connected"
    BY <1>1 DEF StreamInv, ClosingOpen, DescriptorInv, SetupInv, SetupTypes, HeldByStage, Ends
  <2> QED BY <1>1, <2>1 DEF Usable, Ends
<1>3. << >> \in Seq(Cells) /\ Stream!Newest' = Stream!Newest
  BY <1>1 DEF Stream!Newest
<1>4. StreamTypes'
  BY <1>1, <1>3 DEF StreamInv, StreamCore, StreamTypes
<1>5. SendingLast' /\ HeaderKnown'
  BY <1>1 DEF StreamInv, StreamCore, SendingLast, HeaderKnown
<1>6. StreamStep
  BY <1>1 DEF StreamStep, Stream!vars
<1> QED BY <1>2, <1>4, <1>5, <1>6 DEF StreamCore, FlowInv

LEMMA StreamBreak ==
    ASSUME StreamInv, Break
    PROVE  StreamCore' /\ StreamStep
<1>1. /\ UNCHANGED <<receive_buffer_, declared, accepted, delivered, spoilt, torn, unsent, send_mutex, pc>>
      /\ UNCHANGED <<stage, socket_fd_>>
      /\ ~broken /\ broken' = TRUE /\ wire' = << >>
  BY DEF Break, setupVars, sendVars, receiveVars, historyVars
<1>2. << >> \in Seq(Cells) /\ Stream!Newest' = Stream!Newest /\ Rest' = Rest /\ Usable' = Usable
  BY <1>1 DEF Stream!Newest, Rest, Usable
<1>3. StreamTypes'
  <2>1. Len(wire') = 0
    BY <1>1
  <2>2. \A i \in 1..Len(wire') : wire'[i].frame.id \in 1..Len(accepted)
    BY <2>1
  <2> QED BY <1>1, <1>2, <2>2 DEF StreamInv, StreamCore, StreamTypes
<1>4. SendingLast' /\ HeaderKnown'
  BY <1>1 DEF StreamInv, StreamCore, SendingLast, HeaderKnown
<1>5. FlowInv'
  <2> SUFFICES ASSUME Usable
               PROVE  UnderWay(receive_buffer_, << >>, Rest, TRUE, Stream!Newest, accepted, spoilt, torn)
    BY <1>1, <1>2 DEF FlowInv
  <2>1. broken = FALSE
    BY <1>1 DEF StreamInv, StreamCore, StreamTypes
  <2>2. UnderWay(receive_buffer_, wire, Rest, broken, Stream!Newest, accepted, spoilt, torn)
    BY DEF StreamInv, StreamCore, FlowInv
  <2>3. Streaming(receive_buffer_, wire, Rest, broken, Stream!Newest, accepted, spoilt, torn)
    BY RestSent
  <2>4. /\ UnderWay(receive_buffer_, wire, Rest, FALSE, Stream!Newest, accepted, spoilt, torn)
        /\ Streaming(receive_buffer_, wire, Rest, FALSE, Stream!Newest, accepted, spoilt, torn)
    BY <2>1, <2>2, <2>3, Zenon
  <2> QED BY <2>4, UnderWayBroken
<1>6. StreamStep
  BY <1>1 DEF StreamStep, Stream!vars
<1> QED BY <1>3, <1>4, <1>5, <1>6 DEF StreamCore

LEMMA StreamCorrupt ==
    ASSUME StreamInv, Corrupt
    PROVE  StreamCore' /\ StreamStep
<1>1. PICK c \in 1..Len(wire) : /\ wire[c].at > HeaderSize
                                /\ wire' = [wire EXCEPT ![c].at = 0]
                                /\ spoilt' = spoilt \cup {wire[c].frame.id}
  BY DEF Corrupt
<1>2. /\ UNCHANGED <<broken, receive_buffer_, declared, accepted, delivered, torn, unsent, send_mutex, pc>>
      /\ UNCHANGED <<stage, socket_fd_>>
  BY DEF Corrupt, setupVars, sendVars, receiveVars
<1>3. /\ wire \in Seq(Cells) /\ (broken => wire = << >>) /\ broken \in BOOLEAN
      /\ \A i \in 1..Len(wire) : wire[i].frame.id \in 1..Len(accepted)
  BY DEF StreamInv, StreamCore, StreamTypes
<1>4. broken = FALSE /\ wire # << >>
  <2>1. wire # << >>
    BY <1>1, <1>3
  <2> QED BY <1>3, <2>1
<1>5. /\ wire' \in Seq(Cells) /\ Len(wire') = Len(wire)
      /\ \A i \in 1..Len(wire) : wire'[i].frame = wire[i].frame
  <2>1. wire[c] \in Cells
    BY <1>3
  <2>2. [wire[c] EXCEPT !.at = 0] \in Cells /\ [wire[c] EXCEPT !.at = 0].frame = wire[c].frame
    BY <2>1 DEF Cells
  <2>3. wire' = [wire EXCEPT ![c] = [wire[c] EXCEPT !.at = 0]]
    BY <1>1, <1>3
  <2>4. wire' \in Seq(Cells) /\ Len(wire') = Len(wire)
    BY <1>3, <2>2, <2>3
  <2>5. \A i \in 1..Len(wire) : wire'[i] = IF i = c THEN [wire[c] EXCEPT !.at = 0] ELSE wire[i]
    BY <1>3, <2>3
  <2> QED BY <2>2, <2>4, <2>5
<1>6. Stream!Newest' = Stream!Newest /\ Rest' = Rest /\ Usable' = Usable
  BY <1>2 DEF Stream!Newest, Rest, Usable
<1>7. StreamTypes'
  <2>1. \A x \in spoilt' \cup torn : x \in 1..Len(accepted)
    BY <1>1, <1>3 DEF StreamInv, StreamCore, StreamTypes
  <2>2. \A i \in 1..Len(wire') : wire'[i].frame.id \in 1..Len(accepted)
    BY <1>3, <1>5
  <2> QED BY <1>2, <1>4, <1>5, <1>6, <2>1, <2>2 DEF StreamInv, StreamCore, StreamTypes
<1>8. SendingLast' /\ HeaderKnown'
  BY <1>2 DEF StreamInv, StreamCore, SendingLast, HeaderKnown
<1>9. FlowInv'
  <2> SUFFICES ASSUME Usable
               PROVE  UnderWay(receive_buffer_, wire', Rest, FALSE, Stream!Newest, accepted, spoilt', torn)
    BY <1>2, <1>4, <1>6 DEF FlowInv
  <2>2. UnderWay(receive_buffer_, wire, Rest, broken, Stream!Newest, accepted, spoilt, torn)
    BY DEF StreamInv, StreamCore, FlowInv
  <2>3. Streaming(receive_buffer_, wire, Rest, broken, Stream!Newest, accepted, spoilt, torn)
    BY RestSent
  <2>4. /\ UnderWay(receive_buffer_, wire, Rest, FALSE, Stream!Newest, accepted, spoilt, torn)
        /\ Streaming(receive_buffer_, wire, Rest, FALSE, Stream!Newest, accepted, spoilt, torn)
    BY <1>4, <2>2, <2>3, Zenon
  <2> QED BY <1>1, <2>4, UnderWayCorrupted
<1>10. StreamStep
  BY <1>1, <1>2, <1>3 DEF StreamStep, Stream!Lose
<1> QED BY <1>7, <1>8, <1>9, <1>10 DEF StreamCore

\* The set-up never revives a closed connection of the client.
LEMMA UsableInSetup ==
    ASSUME SetupInv, SetupNext
    PROVE  Usable' => Usable
<1> SUFFICES ASSUME socket_fd_[Client] = 0, stage[Client] = "connected"
             PROVE  socket_fd_'[Client] = 0 /\ stage'[Client] = "connected"
  BY DEF Usable
<1>1. /\ socket_fd_ \in [Ends -> Nat]
      /\ stage \in [Ends -> {"resolve", "try", "connected"} \cup ServerStages \cup ClientStages]
      /\ Server \in Ends /\ Client \in Ends /\ Server # Client
  BY DEF SetupInv, SetupTypes, Ends, Server, Client
<1>2. ASSUME NEW e \in Ends, stage[e] # "connected", NEW there, stage' = [stage EXCEPT ![e] = there]
      PROVE  e # Client /\ stage'[Client] = "connected"
  BY <1>1, <1>2
<1>3. ASSUME NEW e \in Ends, Resolve(e) \/ Exhausted(e) \/ OpenCandidate(e) \/ DropCandidate(e)
      PROVE  socket_fd_'[Client] = 0 /\ stage'[Client] = "connected"
  <2>1. UNCHANGED socket_fd_ /\ stage[e] # "connected"
    BY <1>3 DEF Resolve, Exhausted, OpenCandidate, DropCandidate, At
  <2>2. UNCHANGED stage \/ \E there : stage' = [stage EXCEPT ![e] = there]
    BY <1>3 DEF Resolve, Exhausted, OpenCandidate, DropCandidate, At
  <2> QED BY <1>2, <2>1, <2>2
<1>4. CASE Bind \/ Listen \/ Accept \/ CloseServer \/ Nonblock \/ Connect \/ PollConnect \/ SocketError
  <2>1. UNCHANGED socket_fd_
    BY <1>4 DEF Bind, Listen, Accept, CloseServer, Nonblock, Connect, PollConnect, SocketError,
                setupVars
  <2>2. \/ UNCHANGED stage
        \/ \E e \in Ends : \E there : stage[e] # "connected" /\ stage' = [stage EXCEPT ![e] = there]
    BY <1>1, <1>4 DEF Bind, Listen, Accept, CloseServer, Nonblock, Connect, PollConnect, SocketError,
                      setupVars, At
  <2> QED BY <1>2, <2>1, <2>2
<1>5. CASE SetCloseOnExec
  BY <1>1, <1>5 DEF SetCloseOnExec, At, Establish
<1>6. CASE Restore
  BY <1>6 DEF Restore, At
<1> QED BY <1>3, <1>4, <1>5, <1>6 DEF SetupNext

-----------------------------------------------------------------------------
LEMMA StreamInvStep == StreamInv /\ [Next]_vars => StreamInv' /\ StreamStep
<1> SUFFICES ASSUME StreamInv, [Next]_vars PROVE StreamInv' /\ StreamStep
  OBVIOUS
<1>1. DescriptorInv' /\ SetupInv
  BY DescriptorStep DEF StreamInv, DescriptorInv
<1>2. ASSUME StreamCore', StreamStep, ClosingOpen' PROVE StreamInv' /\ StreamStep
  BY <1>1, <1>2 DEF StreamInv
<1>3. ASSUME UNCHANGED <<closing, socket_fd_>> PROVE ClosingOpen'
  BY <1>3 DEF StreamInv, ClosingOpen
<1>4. ASSUME UNCHANGED <<receive_buffer_, wire, unsent, broken, send_mutex, declared, accepted,
                         delivered, spoilt, torn>>,
             Usable' => Usable, \A t \in Threads : pc'[t] = "send" => pc[t] = "send"
      PROVE  StreamCore' /\ StreamStep
  BY <1>4, StreamKept
<1>5. ASSUME UNCHANGED setupVars PROVE UNCHANGED socket_fd_ /\ (Usable' => Usable)
  BY <1>5 DEF setupVars, Usable
<1>6. CASE UNCHANGED vars
  <2>1. /\ UNCHANGED setupVars
        /\ UNCHANGED <<receive_buffer_, wire, unsent, broken, send_mutex, declared, accepted, delivered,
                       spoilt, torn>>
        /\ UNCHANGED <<closing, pc>>
    BY <1>6 DEF vars, ioVars, sendVars, receiveVars, historyVars
  <2> QED BY <1>2, <1>3, <1>4, <1>5, <2>1
<1>7. CASE SetupNext /\ UNCHANGED connectionVars
  <2>1. /\ UNCHANGED <<receive_buffer_, wire, unsent, broken, send_mutex, declared, accepted, delivered,
                       spoilt, torn>>
        /\ UNCHANGED <<closing, pc>>
    BY <1>7 DEF connectionVars, ioVars, sendVars, receiveVars, historyVars
  <2>2. ClosingOpen'
    BY <1>1, <1>7, <2>1, SocketsKept DEF StreamInv, ClosingOpen
  <2>3. Usable' => Usable
    BY <1>1, <1>7, UsableInSetup
  <2> QED BY <1>2, <1>4, <2>1, <2>2, <2>3
<1>8. ASSUME NEW t \in Threads, SendFrame(t) \/ SendClosed(t) \/ SendStep(t)
      PROVE  StreamInv' /\ StreamStep
  <2>1. UNCHANGED closing /\ UNCHANGED setupVars
    BY <1>8 DEF SendFrame, SendClosed, SendStep, Send, SendFails, SendCaught, vars
  <2>2. ClosingOpen'
    BY <1>3, <1>5, <2>1
  <2>3. CASE SendFrame(t)
    BY <1>2, <2>2, <2>3, StreamSendFrame
  <2>4. CASE SendClosed(t)
    BY <1>6, <2>4 DEF SendClosed
  <2>5. CASE Send(t)
    BY <1>2, <2>2, <2>5, StreamSend
  <2>6. CASE SendFails(t)
    BY <1>2, <2>2, <2>6, StreamSendFails
  <2>7. CASE SendCaught(t)
    <3>1. UNCHANGED <<receive_buffer_, wire, unsent, broken, send_mutex, declared, accepted, delivered,
                      spoilt, torn>>
      BY <2>7 DEF SendCaught, receiveVars, historyVars
    <3>2. pc \in [Threads -> {"idle", "send", "threw"}]
      BY DEF StreamInv, DescriptorInv, MutexHeld
    <3>3. \A x \in Threads : pc'[x] = "send" => pc[x] = "send"
      BY <2>7, <3>2 DEF SendCaught, Goto
    <3> QED BY <1>2, <1>4, <1>5, <2>1, <2>2, <3>1, <3>3
  <2> QED BY <1>8, <2>3, <2>4, <2>5, <2>6, <2>7 DEF SendStep
<1>9. CASE ReceiveFrame \/ ReceiveStep
  <2>1. UNCHANGED closing /\ UNCHANGED setupVars
    BY <1>9 DEF ReceiveFrame, ReceiveStep, Recv, ReceiveTimeout, ReceiveDisconnected, ReceiveHeader,
                ReceiveBody
  <2>2. ClosingOpen'
    BY <1>3, <1>5, <2>1
  <2>3. CASE ReceiveFrame \/ ReceiveTimeout \/ ReceiveDisconnected
    <3>1. /\ UNCHANGED <<receive_buffer_, wire, unsent, broken, send_mutex, declared, accepted,
                         delivered, spoilt, torn>>
          /\ UNCHANGED pc
      BY <2>3 DEF ReceiveFrame, ReceiveTimeout, ReceiveDisconnected, ioVars, sendVars, historyVars
    <3> QED BY <1>2, <1>4, <1>5, <2>1, <2>2, <3>1
  <2>4. CASE Recv
    BY <1>2, <2>2, <2>4, StreamRecv
  <2>5. CASE ReceiveHeader
    BY <1>2, <2>2, <2>5, StreamHeader
  <2>6. CASE ReceiveBody
    BY <1>2, <2>2, <2>6, StreamBody
  <2> QED BY <1>9, <2>3, <2>4, <2>5, <2>6 DEF ReceiveStep
<1>10. ASSUME NEW e \in Ends, Interrupt(e) \/ CallClose(e) PROVE StreamInv' /\ StreamStep
  <2>1. /\ UNCHANGED setupVars
        /\ UNCHANGED <<receive_buffer_, wire, unsent, broken, send_mutex, declared, accepted,
                       delivered, spoilt, torn>>
        /\ UNCHANGED pc
    BY <1>10 DEF Interrupt, CallClose, sendVars, receiveVars, historyVars
  <2>2. ClosingOpen'
    <3>1. \A x \in Ends : closing'[x] => closing[x] \/ (x = e /\ socket_fd_[e] # 0)
      BY <1>10 DEF Interrupt, CallClose, StreamInv, DescriptorInv, MutexHeld
    <3> QED BY <1>5, <2>1, <3>1 DEF StreamInv, ClosingOpen
  <2> QED BY <1>2, <1>4, <1>5, <2>1, <2>2
<1>11. ASSUME NEW e \in Ends, Close(e) PROVE StreamInv' /\ StreamStep
  <2>1. /\ closing \in [Ends -> BOOLEAN] /\ socket_fd_ \in [Ends -> Nat]
        /\ \A x \in Ends : closing[x] => socket_fd_[x] # 0
        /\ closing' = [closing EXCEPT ![e] = FALSE]
        /\ socket_fd_' = [socket_fd_ EXCEPT ![e] = 0]
    BY <1>11
    DEF Close, CloseSocket, StreamInv, DescriptorInv, MutexHeld, SetupInv, SetupTypes, ClosingOpen
  <2>2. ClosingOpen'
    BY <2>1 DEF ClosingOpen
  <2>3. CASE e = Client
    BY <1>2, <1>11, <2>2, <2>3, StreamClose
  <2>4. CASE e # Client
    <3>1. /\ UNCHANGED <<receive_buffer_, wire, unsent, broken, send_mutex, declared, accepted,
                         delivered, spoilt, torn>>
          /\ UNCHANGED <<pc, stage>>
      BY <1>11, <2>4 DEF Close, CloseSocket, ioVars, sendVars, historyVars
    <3>2. Usable' => Usable
      BY <2>1, <2>4, <3>1 DEF Usable, Ends
    <3> QED BY <1>2, <1>4, <2>2, <3>1, <3>2
  <2> QED BY <2>3, <2>4
<1>12. CASE Break \/ Corrupt
  <2>1. ClosingOpen'
    BY <1>3, <1>5, <1>12 DEF Break, Corrupt
  <2> QED BY <1>2, <1>12, <2>1, StreamBreak, StreamCorrupt
<1> QED BY <1>6, <1>7, <1>8, <1>9, <1>10, <1>11, <1>12 DEF Next

LEMMA StreamInitially == Init => StreamInv /\ Stream!Init
<1> SUFFICES ASSUME Init PROVE StreamInv /\ Stream!Init
  OBVIOUS
<1>1. DescriptorInv
  BY SetupInitial, ThreadsAssumption
  DEF Init, SetupInit, DescriptorInv, MutexHeld, DescriptorsOwned, SetupInv, Threads, Ends
<1>2. /\ receive_buffer_ = << >> /\ wire = << >> /\ unsent = [t \in Threads |-> << >>] /\ broken = FALSE
      /\ accepted = << >> /\ delivered = << >> /\ spoilt = {} /\ torn = {} /\ declared = 0
      /\ send_mutex = NoThread /\ pc = [t \in Threads |-> "idle"] /\ closing = [e \in Ends |-> FALSE]
  BY DEF Init
<1>3. ClosingOpen /\ SendingLast /\ HeaderKnown
  BY <1>2 DEF ClosingOpen, SendingLast, HeaderKnown
<1>4. StreamTypes
  <2>1. << >> \in Seq(Cells) /\ << >> \in Seq(Frames) /\ Len(<< >>) = 0
    BY EmptySeq
  <2>2. Stream!Newest = 0
    BY <1>2 DEF Stream!Newest
  <2>3. unsent \in [Threads -> Seq(Cells)]
    BY <1>2, <2>1, Zenon
  <2>4. Len(accepted) = 0 /\ Len(wire) = 0 /\ Stream!Newest \in 0..Len(accepted) /\ broken \in BOOLEAN
    <3>1. Len(accepted) = 0 /\ Len(wire) = 0 /\ broken \in BOOLEAN
      BY <1>2, <2>1, Zenon
    <3> QED BY <2>2, <3>1
  <2>5. /\ \A j \in 1..Len(accepted) : accepted[j].id = j
        /\ \A i \in 1..Len(wire) : wire[i].frame.id \in 1..Len(accepted)
    BY <2>4
  <2> QED BY <1>2, <2>1, <2>3, <2>4, <2>5, Zenon DEF StreamTypes
<1>5. FlowInv
  <2>1. Rest = << >> /\ Stream!Newest = 0 /\ Len(<< >>) = 0
    BY <1>2 DEF Rest, Stream!Newest
  <2>2. Ahead(0, 0, 0, FALSE) = 0 /\ 0 + 0 + 0 = 0
    BY DEF Ahead
  <2> DEFINE zero == [i \in Nat |-> 0]
  <2>3. zero \in [Nat -> Nat]
    OBVIOUS
  <2> HIDE DEF zero
  <2>4. Flow(0, 0, FALSE, zero, zero, zero, 0, 0, Sizes(<< >>), {}, {})
    BY FlowEmpty
  <2>5. CarriedBy(<< >>, 0, << >>, 0, << >>, 0, zero, zero, zero, << >>, 0)
    BY DEF CarriedBy
  <2>6. UnderWayBy(<< >>, 0, << >>, 0, << >>, 0, 0, 0, FALSE, 0, << >>, 0, Sizes(<< >>), {}, {})
    BY <2>3, <2>4, <2>5, Zenon DEF UnderWayBy
  <2>7. UnderWay(<< >>, << >>, << >>, FALSE, 0, << >>, {}, {})
    BY <2>1, <2>2, <2>6, Zenon DEF UnderWay, Ahead
  <2> QED BY <1>2, <2>1, <2>7 DEF FlowInv
<1>6. Stream!Init
  BY <1>2 DEF Stream!Init
<1> QED BY <1>1, <1>3, <1>4, <1>5, <1>6 DEF StreamInv, StreamCore

(***************************************************************************)
(* Whole frames travel as FrameStream promises: in order, unchanged, at    *)
(* most once, and none is missed without one of the reasons it lists, for  *)
(* any number of frames and senders, any sizes, limits and window, however *)
(* the kernel splits sends and receives, and whatever time-outs, failed    *)
(* sends, resets and corrupted bodies come in between.                     *)
(***************************************************************************)
THEOREM FramesTravel == Spec => ImplementsFrameStream
<1>1. Init => StreamInv /\ Stream!Init
  BY StreamInitially
<1>2. StreamInv /\ [Next]_vars => StreamInv' /\ StreamStep
  BY StreamInvStep
<1>3. Spec => Stream!Init /\ [][StreamStep]_(Stream!vars)
  <2>1. StreamStep => [StreamStep]_(Stream!vars)
    OBVIOUS
  <2> QED BY <1>1, <1>2, <2>1, PTL DEF Spec
<1> QED BY <1>3, PTL DEF ImplementsFrameStream, Stream!Spec, StreamStep
=============================================================================
