------------------------------ MODULE WorldSocket ------------------------------
(* One client connection of the world server: Socket<Stream> (the open-state   *)
(* bits, the write queue and the asynchronous write), WorldSocket (the packet  *)
(* queue in front of it and the login conversation) and the part of            *)
(* NetworkThread::Update that keeps or erases the socket.  Two threads act on  *)
(* it: the network thread that owns the socket (timer tick, read handler,      *)
(* write-ready handler, query callbacks) and the world thread, which sends     *)
(* packets and closes the socket of a session it holds.  The build modelled is *)
(* the one without TC_SOCKET_USE_IOCP.                                         *)
EXTENDS Integers, Sequences

CONSTANTS
    NumPackets,      \* bound on the packets the server sends on the connection
    Size,            \* Size[p]: header and payload of packet p, in wire units
    SendBufferSize,  \* Network.OutUBuff, in wire units
    KernelBuffer     \* capacity of the kernel's send buffer, in wire units

Packets == 1..NumPackets

ASSUME NumPacketsAssumption == NumPackets \in Nat
ASSUME SizeAssumption == Size \in [Packets -> Nat \ {0}]
ASSUME BufferAssumption == SendBufferSize \in Nat \ {0} /\ KernelBuffer \in Nat \ {0}

VARIABLES
    openState,       \* Socket::_openState, the set of bits that are on
    bufferQueue,     \* WorldSocket::_bufferQueue
    buffer,          \* the local MessageBuffer of WorldSocket::Update
    writeQueue,      \* Socket::_writeQueue
    isWritingAsync,  \* Socket::_isWritingAsync: an async_wait is outstanding
    readPending,     \* an async_read_some is outstanding
    phase,           \* how far the login conversation has come
    registered,      \* the socket is in NetworkThread::_sockets
    m_Socket,        \* the session holds its shared_ptr to the socket
    shutdownSent,    \* _socket.shutdown(shutdown_send) was called
    nextPacket,      \* number of the next packet to be enqueued
    wire,            \* history: the units handed to the kernel
    inKernel,        \* units the kernel still holds
    peer,            \* the client's end of the connection
    npc, nret,       \* control point of the network thread, return point of CloseSocket
    wpc              \* control point of the world thread

vars == <<openState, bufferQueue, buffer, writeQueue, isWritingAsync, readPending,
          phase, registered, m_Socket, shutdownSent, nextPacket, wire, inKernel,
          peer, npc, nret, wpc>>
life == <<phase, registered, m_Socket>>
net  == <<npc, nret>>
data == <<bufferQueue, buffer, writeQueue, nextPacket, wire, inKernel>>

(* The values of _openState: OpenState_Closing and OpenState_Closed are bits.  *)
Open    == {}
Closing == {"Closing"}
Closed  == {"Closed"}

IsOpen == openState = Open

(* Wire units of packet p, and the unit that follows a unit in the order in    *)
(* which packets were enqueued; Border has the one after the last of all, too. *)
UnitsOf(p) == [i \in 1..Size[p] |-> <<p, i>>]
After(u) == IF u[2] < Size[u[1]] THEN <<u[1], u[2] + 1>> ELSE <<u[1] + 1, 1>>
Unit == UNION {{p} \X (1..Size[p]) : p \in Packets}
Border == Unit \cup {<<NumPackets + 1, 1>>}

(* The socket object lives while NetworkThread, its session or a pending       *)
(* asynchronous operation holds a shared_ptr to it; ~Socket closes the stream. *)
Destroyed == ~registered /\ ~m_Socket /\ ~readPending /\ ~isWritingAsync

TypeOK ==
    /\ openState \in SUBSET {"Closing", "Closed"}
    /\ bufferQueue \in Seq(Packets)
    /\ buffer \in Seq(Unit)
    /\ writeQueue \in Seq(Seq(Unit))
    /\ isWritingAsync \in BOOLEAN
    /\ readPending \in BOOLEAN
    /\ phase \in {"ban", "reading", "auth", "perm", "world", "rejected"}
    /\ registered \in BOOLEAN
    /\ m_Socket \in BOOLEAN
    /\ shutdownSent \in BOOLEAN
    /\ nextPacket \in 1..(NumPackets + 1)
    /\ wire \in Seq(Unit)
    /\ inKernel \in 0..KernelBuffer
    /\ peer \in {"up", "gone"}
    /\ npc \in {"idle", "drain", "base", "queue", "handle", "popped", "failed",
                "delayed", "close", "shutdown", "callbacks", "read", "pong"}
    /\ nret \in {"idle", "callbacks"}
    /\ wpc \in {"idle", "send", "shutdown"}

(* WorldSocket::Start has queued the IP ban query and AddSocket,               *)
(* AddNewSockets have put the socket in the thread's list.                     *)
Init ==
    /\ openState = Open
    /\ bufferQueue = <<>> /\ buffer = <<>> /\ writeQueue = <<>>
    /\ isWritingAsync = FALSE /\ readPending = FALSE
    /\ phase = "ban" /\ registered = TRUE /\ m_Socket = FALSE
    /\ shutdownSent = FALSE
    /\ nextPacket = 1 /\ wire = <<>> /\ inKernel = 0
    /\ peer = "up"
    /\ npc = "idle" /\ nret = "idle" /\ wpc = "idle"
-----------------------------------------------------------------------------
(* MPSCQueue::Enqueue of the next packet; past the bound nothing is sent.      *)
Enqueue ==
    IF nextPacket \in Packets
    THEN /\ bufferQueue' = Append(bufferQueue, nextPacket)
         /\ nextPacket' = nextPacket + 1
    ELSE UNCHANGED <<bufferQueue, nextPacket>>

(* WorldSocket::SendPacket in a query callback, check and enqueue at once: the *)
(* world thread, the only other one that closes the socket, has no session yet.*)
SendPacket ==
    IF IsOpen THEN Enqueue ELSE UNCHANGED <<bufferQueue, nextPacket>>

(* Socket::AsyncRead.                                                          *)
AsyncRead == readPending' = IsOpen

(* Socket::CloseSocket, called by the network thread: the fetch_or.  The call  *)
(* that turns the bit on returns; a later one goes on to the shutdown.         *)
CloseSocket ==
    /\ npc = "close"
    /\ openState' = openState \cup Closed
    /\ npc' = IF "Closed" \notin openState THEN nret ELSE "shutdown"
    /\ UNCHANGED <<data, life, nret, isWritingAsync, readPending, shutdownSent, peer, wpc>>

(* The rest of CloseSocket: the stream's shutdown and OnClose.                 *)
Shutdown ==
    /\ npc = "shutdown"
    /\ shutdownSent' = TRUE
    /\ npc' = nret
    /\ UNCHANGED <<data, life, nret, openState, isWritingAsync, readPending, peer, wpc>>

(* Socket::DelayedCloseSocket after its fetch_or.                              *)
DelayedCloseSocket ==
    /\ npc = "delayed"
    /\ openState' = openState \cup Closing
    /\ IF openState = Open /\ writeQueue = <<>>
       THEN npc' = "close" /\ nret' = "idle"
       ELSE npc' = "idle" /\ UNCHANGED nret
    /\ UNCHANGED <<data, life, isWritingAsync, readPending, shutdownSent, peer, wpc>>
-----------------------------------------------------------------------------
(* The tick of NetworkThread::Update reaches this socket.                      *)
Tick ==
    /\ npc = "idle" /\ registered
    /\ npc' = "drain"
    /\ UNCHANGED <<data, life, nret, openState, isWritingAsync, readPending, shutdownSent, peer, wpc>>

(* One turn of the loop of WorldSocket::Update: a packet that does not fit in  *)
(* what is left of the buffer first sends the buffer to the write queue (even  *)
(* an empty one), and a packet larger than a whole buffer travels in its own.  *)
PackPacket ==
    /\ npc = "drain" /\ bufferQueue # <<>>
    /\ LET p     == Head(bufferQueue)
           fits  == SendBufferSize - Len(buffer) >= Size[p]
           queue == IF fits THEN writeQueue ELSE Append(writeQueue, buffer)
           room  == IF fits THEN buffer ELSE <<>>
       IN  IF SendBufferSize - Len(room) >= Size[p]
           THEN /\ buffer' = room \o UnitsOf(p)
                /\ writeQueue' = queue
           ELSE /\ buffer' = room
                /\ writeQueue' = Append(queue, UnitsOf(p))
    /\ bufferQueue' = Tail(bufferQueue)
    /\ UNCHANGED <<life, net, openState, isWritingAsync, readPending, shutdownSent,
                   nextPacket, wire, inKernel, peer, wpc>>

(* The packet queue is empty: what is in the buffer goes to the write queue.   *)
FlushBuffer ==
    /\ npc = "drain" /\ bufferQueue = <<>>
    /\ writeQueue' = IF buffer # <<>> THEN Append(writeQueue, buffer) ELSE writeQueue
    /\ buffer' = <<>>
    /\ npc' = "base"
    /\ UNCHANGED <<life, nret, openState, isWritingAsync, readPending, shutdownSent,
                   bufferQueue, nextPacket, wire, inKernel, peer, wpc>>

(* The first test of Socket::Update; NetworkThread::Update erases the socket   *)
(* from its list when it fails, and the queries it waits for go with it.       *)
(* Variants: the test looks at the Closed bit alone, or wants both bits.       *)
UpdateTestsClosedBit == "Closed" \in openState
UpdateTestsBothBits == openState = Closing \cup Closed
UpdateSeesClosed == openState = Closed

UpdateTest ==
    /\ npc = "base"
    /\ IF UpdateSeesClosed
       THEN registered' = FALSE /\ npc' = "idle"
       ELSE npc' = "queue" /\ UNCHANGED registered
    /\ UNCHANGED <<data, nret, phase, m_Socket, openState, isWritingAsync, readPending,
                   shutdownSent, peer, wpc>>

(* The second test of Socket::Update: nothing to write, or a wait outstanding. *)
NothingToWrite == isWritingAsync \/ (writeQueue = <<>> /\ IsOpen)

QueueTest ==
    /\ npc = "queue"
    /\ npc' = IF NothingToWrite THEN "callbacks" ELSE "handle"
    /\ nret' = "callbacks"
    /\ UNCHANGED <<data, life, openState, isWritingAsync, readPending, shutdownSent, peer, wpc>>

(* write_some fails for good once the peer is gone or the stream is shut down, *)
(* would block when the kernel has no room, and otherwise takes what fits.     *)
WriteFails == peer = "gone" \/ shutdownSent
Room == KernelBuffer - inKernel
Lesser(a, b) == IF a < b THEN a ELSE b

(* MessageBuffer::ReadCompleted: what is left of a buffer after n units.       *)
(* Variant: the read position is not advanced.                                 *)
ReadNotCompleted(front, n) == front
ReadCompleted(front, n) == SubSeq(front, n + 1, Len(front))

(* Socket::HandleQueue up to the pop.  nret is where its caller goes on:       *)
(* "callbacks" for the loop of Update, "idle" for WriteHandlerWrapper.         *)
HandleQueue ==
    /\ npc = "handle"
    /\ LET front == Head(writeQueue)
           sent  == Lesser(Len(front), Room)
           pop(next) == /\ writeQueue' = Tail(writeQueue)
                        /\ npc' = next
                        /\ UNCHANGED isWritingAsync
           wait(queue) == /\ writeQueue' = queue
                          /\ isWritingAsync' = TRUE
                          /\ npc' = nret
           put(n) == /\ wire' = wire \o SubSeq(front, 1, n)
                     /\ inKernel' = inKernel + n
       IN  \/ /\ writeQueue = <<>>
              /\ npc' = nret
              /\ UNCHANGED <<writeQueue, wire, inKernel, isWritingAsync>>
           \/ /\ writeQueue # <<>>
              /\ WriteFails \/ front = <<>>
              /\ pop("failed")
              /\ UNCHANGED <<wire, inKernel>>
           \/ /\ writeQueue # <<>> /\ ~WriteFails /\ front # <<>>
              /\ sent < Len(front)
              /\ wait(<<ReadCompleted(front, sent)>> \o Tail(writeQueue))
              /\ put(sent)
           \/ /\ writeQueue # <<>> /\ ~WriteFails /\ front # <<>>
              /\ sent = Len(front)
              /\ pop("popped")
              /\ put(sent)
    /\ UNCHANGED <<life, nret, openState, readPending, shutdownSent, bufferQueue, buffer,
                   nextPacket, peer, wpc>>

(* The end of HandleQueue: a closing socket whose queue has become empty is    *)
(* closed.  Only Update, after a complete write, goes on with the next buffer. *)
AfterPop ==
    /\ npc \in {"popped", "failed"}
    /\ npc' = IF openState = Closing /\ writeQueue = <<>> THEN "close"
              ELSE IF npc = "popped" /\ writeQueue # <<>> /\ nret = "callbacks" THEN "handle"
              ELSE nret
    /\ UNCHANGED <<data, life, nret, openState, isWritingAsync, readPending, shutdownSent, peer, wpc>>

(* Socket::WriteHandlerWrapper: the wait for room in the kernel has completed. *)
WriteHandlerWrapper ==
    /\ npc = "idle" /\ isWritingAsync
    /\ Room > 0 \/ WriteFails
    /\ isWritingAsync' = FALSE
    /\ npc' = "handle" /\ nret' = "idle"
    /\ UNCHANGED <<data, life, openState, readPending, shutdownSent, peer, wpc>>
-----------------------------------------------------------------------------
(* Socket::ReadHandlerInternal: the pending read has completed.                *)
ReadHandlerInternal ==
    /\ npc = "idle" /\ readPending
    /\ readPending' = FALSE
    /\ \/ peer = "gone" /\ npc' = "close" /\ nret' = "idle"
       \/ peer = "up" /\ npc' = (IF IsOpen THEN "read" ELSE "idle") /\ UNCHANGED nret
    /\ UNCHANGED <<data, life, openState, isWritingAsync, shutdownSent, peer, wpc>>

(* WorldSocket::ReadHandler with ReadHeaderHandler and ReadDataHandler: a      *)
(* malformed or unexpected packet closes the socket, CMSG_AUTH_SESSION stops   *)
(* the reading until its query is answered, CMSG_PING is answered, and any     *)
(* other packet, or a part of one, keeps the socket reading.                   *)
ReadHandler ==
    /\ npc = "read"
    /\ \/ /\ npc' = "close" /\ nret' = "idle"
          /\ UNCHANGED <<phase, readPending>>
       \/ /\ phase = "reading"
          /\ phase' = "auth"
          /\ npc' = "idle"
          /\ UNCHANGED <<nret, readPending>>
       \/ /\ AsyncRead
          /\ npc' = "idle"
          /\ UNCHANGED <<nret, phase>>
       \/ /\ phase \in {"perm", "world"}
          /\ IsOpen /\ nextPacket \in Packets
          /\ npc' = "pong"
          /\ UNCHANGED <<nret, phase, readPending>>
    /\ UNCHANGED <<data, registered, m_Socket, openState, isWritingAsync, shutdownSent, peer, wpc>>

(* The pong is enqueued, whatever the world thread did since IsOpen was read.  *)
SendPong ==
    /\ npc = "pong"
    /\ Enqueue
    /\ AsyncRead
    /\ npc' = "idle"
    /\ UNCHANGED <<life, nret, openState, isWritingAsync, shutdownSent, buffer, writeQueue,
                   wire, inKernel, peer, wpc>>
-----------------------------------------------------------------------------
(* ProcessReadyCallbacks finds no answered query.                              *)
NoCallback ==
    /\ npc = "callbacks"
    /\ npc' = "idle"
    /\ UNCHANGED <<data, life, nret, openState, isWritingAsync, readPending, shutdownSent, peer, wpc>>

(* IpBanCheckConnectionInitializer: the address is banned, or the rest of the  *)
(* chain starts: the challenge is sent and the first read is issued.           *)
IpBanCheckCallback ==
    /\ npc = "callbacks" /\ phase = "ban"
    /\ \/ /\ phase' = "rejected" /\ npc' = "delayed"
          /\ UNCHANGED <<bufferQueue, nextPacket, readPending>>
       \/ /\ phase' = "reading" /\ npc' = "idle"
          /\ SendPacket
          /\ AsyncRead
    /\ UNCHANGED <<nret, openState, isWritingAsync, registered, m_Socket, shutdownSent, buffer,
                   writeQueue, wire, inKernel, peer, wpc>>

(* WorldSocket::HandleAuthSessionCallback: an error is answered and the socket *)
(* closed after the answer, or the session is created and the reading resumes. *)
HandleAuthSessionCallback ==
    /\ npc = "callbacks" /\ phase = "auth"
    /\ \/ /\ phase' = "rejected" /\ npc' = "delayed"
          /\ SendPacket
          /\ UNCHANGED <<m_Socket, readPending>>
       \/ /\ phase' = "perm" /\ npc' = "idle"
          /\ m_Socket' = TRUE
          /\ AsyncRead
          /\ UNCHANGED <<bufferQueue, nextPacket>>
    /\ UNCHANGED <<nret, openState, isWritingAsync, registered, shutdownSent, buffer,
                   writeQueue, wire, inKernel, peer, wpc>>

(* WorldSocket::LoadSessionPermissionsCallback: World::AddSession.             *)
LoadSessionPermissionsCallback ==
    /\ npc = "callbacks" /\ phase = "perm"
    /\ phase' = "world"
    /\ npc' = "idle"
    /\ UNCHANGED <<data, nret, openState, isWritingAsync, readPending, registered, m_Socket,
                   shutdownSent, peer, wpc>>

ProcessCallback ==
    IpBanCheckCallback \/ HandleAuthSessionCallback \/ LoadSessionPermissionsCallback
-----------------------------------------------------------------------------
(* The world thread has the session and its socket.                            *)
InWorld == phase = "world" /\ m_Socket

(* WorldSession::SendPacket: WorldSocket::SendPacket reads IsOpen ...          *)
WorldSendTest ==
    /\ wpc = "idle" /\ InWorld
    /\ IsOpen /\ nextPacket \in Packets
    /\ wpc' = "send"
    /\ UNCHANGED <<data, life, net, openState, isWritingAsync, readPending, shutdownSent, peer>>

(* ... and enqueues the packet.                                                *)
WorldSendEnqueue ==
    /\ wpc = "send"
    /\ Enqueue
    /\ wpc' = "idle"
    /\ UNCHANGED <<life, net, openState, isWritingAsync, readPending, shutdownSent, buffer,
                   writeQueue, wire, inKernel, peer>>

(* CloseSocket called by KickPlayer, by the idle check of WorldSession::Update *)
(* or by ~WorldSession.                                                        *)
WorldCloseSocket ==
    /\ wpc = "idle" /\ InWorld
    /\ openState' = openState \cup Closed
    /\ wpc' = IF "Closed" \notin openState THEN "idle" ELSE "shutdown"
    /\ UNCHANGED <<data, life, net, isWritingAsync, readPending, shutdownSent, peer>>

WorldShutdown ==
    /\ wpc = "shutdown"
    /\ shutdownSent' = TRUE
    /\ wpc' = "idle"
    /\ UNCHANGED <<data, life, net, openState, isWritingAsync, readPending, peer>>

(* WorldSession::Update: the socket is no longer open and the session has      *)
(* expired, was kicked or has no player.                                       *)
WorldDropSocket ==
    /\ wpc = "idle" /\ InWorld /\ ~IsOpen
    /\ m_Socket' = FALSE
    /\ UNCHANGED <<data, net, openState, isWritingAsync, readPending, phase, registered,
                   shutdownSent, peer, wpc>>
-----------------------------------------------------------------------------
(* The client reads what the kernel holds, or its end goes away.               *)
PeerReads ==
    /\ peer = "up" /\ inKernel > 0
    /\ inKernel' = inKernel - 1
    /\ UNCHANGED <<bufferQueue, buffer, writeQueue, nextPacket, wire, life, net, openState,
                   isWritingAsync, readPending, shutdownSent, peer, wpc>>

PeerGone ==
    /\ peer = "up"
    /\ peer' = "gone"
    /\ inKernel' = 0
    /\ UNCHANGED <<bufferQueue, buffer, writeQueue, nextPacket, wire, life, net, openState,
                   isWritingAsync, readPending, shutdownSent, wpc>>

(* What the network thread does once one of its handlers has started.          *)
NetworkStep ==
    \/ CloseSocket \/ Shutdown \/ DelayedCloseSocket
    \/ PackPacket \/ FlushBuffer \/ UpdateTest \/ QueueTest \/ HandleQueue \/ AfterPop
    \/ ReadHandler \/ SendPong
    \/ NoCallback \/ ProcessCallback

WorldStep == WorldSendTest \/ WorldSendEnqueue \/ WorldCloseSocket \/ WorldShutdown \/ WorldDropSocket

Next ==
    \/ Tick \/ WriteHandlerWrapper \/ ReadHandlerInternal
    \/ NetworkStep
    \/ WorldStep
    \/ PeerReads \/ PeerGone

(* The io_context runs every handler that is ready and the tick re-arms        *)
(* itself; queries are answered; the world thread finishes what it began and   *)
(* looks at its session again; a client that is there reads.  Nothing obliges  *)
(* a client to send, nor the world thread to close a socket.                   *)
Fairness ==
    /\ WF_vars(NetworkStep)
    /\ SF_vars(Tick)
    /\ SF_vars(WriteHandlerWrapper)
    /\ SF_vars(ReadHandlerInternal /\ peer = "gone")
    /\ SF_vars(ProcessCallback)
    /\ WF_vars(WorldSendEnqueue \/ WorldShutdown)
    /\ SF_vars(WorldDropSocket)
    /\ WF_vars(PeerReads)

Spec == Init /\ [][Next]_vars /\ Fairness
-----------------------------------------------------------------------------
(* The units on the wire are those of the packets in the order in which they   *)
(* were enqueued, without gap or repetition: packing by WorldSocket::Update    *)
(* and partial writes by HandleQueue never mix, lose or repeat part of a       *)
(* packet that a later packet follows.                                         *)
WireInOrder ==
    \A k \in DOMAIN wire : wire[k] = IF k = 1 THEN <<1, 1>> ELSE After(wire[k - 1])

(* What makes it inductive.  Run: the units of a piece follow each other, from *)
(* u up to the one before v.  Chained: so do the wire, the buffers of the      *)
(* write queue, empty ones among them, and the buffer being filled, up to the  *)
(* one before u; f has where each of them begins.                              *)
Run(piece, u, v) ==
    IF piece = <<>> THEN u = v
    ELSE /\ piece[1] = u /\ v = After(piece[Len(piece)])
         /\ \A k \in 2..Len(piece) : piece[k] = After(piece[k - 1])

Chained(sent, queue, last, u) ==
    \E f \in [1..(Len(queue) + 1) -> Border] :
        /\ Run(sent, <<1, 1>>, f[1])
        /\ \A i \in 1..Len(queue) : Run(queue[i], f[i], f[i + 1])
        /\ Run(last, f[Len(queue) + 1], u)

(* The packet queue holds the last packets in order, and as long as writing    *)
(* works all that is on its way is one chain up to the first of them.  Once it *)
(* fails HandleQueue throws buffers away, and nothing is written any more.     *)
FirstQueued == nextPacket - Len(bufferQueue)

OrderInv ==
    /\ FirstQueued >= 1
    /\ \A i \in DOMAIN bufferQueue : bufferQueue[i] = FirstQueued + i - 1
    /\ WireInOrder
    /\ ~WriteFails => Chained(wire, writeQueue, buffer, <<FirstQueued, 1>>)

(* A packet accepted by SendPacket reaches the wire unless the connection      *)
(* breaks or is closed at once, without a delayed close; in particular the     *)
(* answer to a rejected login is sent although DelayedCloseSocket looks only   *)
(* at _writeQueue and the answer is still in _bufferQueue.                     *)
AcceptedPacketIsSent ==
    \A p \in Packets :
        p < nextPacket ~> \/ \E k \in DOMAIN wire : wire[k] = <<p, Size[p]>>
                         \/ WriteFails
                         \/ openState = Closed

(* A socket closed by CloseSocket alone leaves the network thread's list.      *)
ClosedSocketIsErased == openState = Closed ~> ~registered

(* Socket.h:205, "Marks the socket for closing after write buffer becomes      *)
(* empty": a socket marked for closing leaves the network thread's list.       *)
DelayedCloseCompletes == "Closing" \in openState ~> ~registered
=============================================================================
