------------------------------ MODULE IscProtocol ------------------------------
(* ISC messages over addon chat: a message is cut into frames (EncodeFrames),  *)
(* the frames travel in order, the session may drop some of them, and the      *)
(* receiver puts messages together again (Reassembler::Feed).  A byte of a     *)
(* message is the pair of the message's number and its place in it.            *)
EXTENDS Integers, Sequences

CONSTANTS
    IdSpace,          \* the number of message ids, 2^16 in the code
    MaxFrameData,     \* MAX_FRAME_DATA
    HeaderSize,       \* MESSAGE_HEADER_SIZE, the bytes of the opcode
    MaxMessageSize,   \* _maxMessageSize
    MaxSentSize,      \* bound: the size of the messages sent
    MaxMessages,      \* bound: how many messages are sent
    MaxGarbage,       \* bound: how many frames arrive that nobody encoded
    MaxBurst          \* the consecutive messages of which no frame arrives

ASSUME SizesAssumption ==
    /\ MaxFrameData \in Nat \ {0} /\ HeaderSize \in Nat \ {0}
    /\ MaxMessageSize \in Nat /\ MaxSentSize \in Nat /\ MaxMessages \in Nat /\ MaxGarbage \in Nat
(* An unfinished message is confused with a later one of the same id when all  *)
(* the messages between them are lost: there must be ids for longer bursts.    *)
ASSUME BurstAssumption == IdSpace \in Nat /\ MaxBurst \in Nat /\ MaxBurst <= IdSpace - 2

VARIABLES
    nextMessageId,                          \* WorldSession::_iscNextMessageId
    net,                                    \* the frames on the way
    messageId, nextIndex, count, data,      \* the Reassembler
    delivered,                              \* the messages Feed has returned
    sent,                                   \* history: the size of each message sent
    broken,                                 \* history: messages that did not arrive in one piece
    seen,                                   \* history: messages of which a frame arrived
    garbage                                 \* history: how much garbage arrived

iscVars == <<nextMessageId, net, messageId, nextIndex, count, data, delivered, sent, broken, seen, garbage>>
reassembler == <<messageId, nextIndex, count, data>>

Bytes == Seq(Nat \X Nat)
Frames == [id : 0..(IdSpace - 1), index : Nat, count : Nat, data : Bytes]

IscTypeOK ==
    /\ nextMessageId \in 0..(IdSpace - 1)
    /\ net \in Seq(Frames)
    /\ messageId \in 0..(IdSpace - 1) /\ nextIndex \in Nat /\ count \in Nat
    /\ data \in Bytes /\ Len(data) <= MaxMessageSize
    /\ count = 0 => nextIndex = 0 /\ data = <<>>
    /\ count # 0 => nextIndex \in 1..(count - 1)
    /\ delivered \in Seq(Bytes)
    /\ sent \in Seq(HeaderSize..MaxSentSize)
    /\ broken \subseteq DOMAIN sent /\ seen \subseteq DOMAIN sent
    /\ garbage \in 0..MaxGarbage

IscInit ==
    /\ nextMessageId = 0 /\ net = <<>>
    /\ messageId = 0 /\ nextIndex = 0 /\ count = 0 /\ data = <<>>
    /\ delivered = <<>> /\ sent = <<>> /\ broken = {} /\ seen = {} /\ garbage = 0
-----------------------------------------------------------------------------
(* The first bytes of message n, and the whole of it.                          *)
Part(n, size) == [k \in 1..size |-> <<n, k>>]
Message(n) == Part(n, sent[n])

FrameCount(size) == (size + MaxFrameData - 1) \div MaxFrameData

(* EncodeFrames: the frames of a message, the last one with the rest of it.    *)
(* The number of frames must fit into 16 bits (an assertion), which bounds     *)
(* MaxSentSize.                                                                *)
EncodeFrames(id, message) ==
    LET frames == FrameCount(Len(message)) IN
    [i \in 1..frames |->
        [id |-> id, index |-> i - 1, count |-> frames,
         data |-> SubSeq(message, (i - 1) * MaxFrameData + 1,
                         IF i = frames THEN Len(message) ELSE i * MaxFrameData)]]

SendIscPacket(size) ==
    /\ Len(sent) < MaxMessages
    /\ sent' = Append(sent, size)
    /\ net' = net \o EncodeFrames(nextMessageId, Part(Len(sent) + 1, size))
    /\ nextMessageId' = (nextMessageId + 1) % IdSpace
    /\ UNCHANGED <<reassembler, delivered, broken, seen, garbage>>
-----------------------------------------------------------------------------
Reset == messageId' = 0 /\ nextIndex' = 0 /\ count' = 0 /\ data' = <<>>

(* A frame starts a message or is the next one of the message in progress.     *)
Continues(f) ==
    IF f.index = 0 THEN f.count # 0
    ELSE count # 0 /\ f.id = messageId /\ f.index = nextIndex /\ f.count = count

(* The bytes with the frame's.  Variants: the unfinished message before a new  *)
(* one is kept; the limit does not count the new frame.                        *)
GatheredKeeping(f) == data \o f.data
Gathered(f) == (IF f.index = 0 THEN <<>> ELSE data) \o f.data

FitsBefore(f) == Len(IF f.index = 0 THEN <<>> ELSE data) <= MaxMessageSize
Fits(f) == Len(Gathered(f)) <= MaxMessageSize

(* Feed of a frame that could be decoded.                                      *)
Feed(f) ==
    \/ /\ ~Continues(f) \/ ~Fits(f)
       /\ Reset /\ UNCHANGED delivered
    \/ /\ Continues(f) /\ Fits(f) /\ f.index + 1 < f.count
       /\ messageId' = f.id /\ count' = f.count
       /\ data' = Gathered(f) /\ nextIndex' = f.index + 1
       /\ UNCHANGED delivered
    \/ /\ Continues(f) /\ Fits(f) /\ f.index + 1 >= f.count
       /\ Reset
       /\ delivered' = IF Len(Gathered(f)) < HeaderSize THEN delivered
                       ELSE Append(delivered, Gathered(f))

Number(f) == f.data[1][1]

Receive ==
    /\ net # <<>>
    /\ net' = Tail(net)
    /\ Feed(Head(net))
    /\ seen' = seen \cup {Number(Head(net))}
    /\ UNCHANGED <<nextMessageId, sent, broken, garbage>>

(* The session drops the chat packet that carries the frame: the player is     *)
(* between two maps, or the packet throttle refuses it.                        *)
Lose ==
    /\ net # <<>>
    /\ LET f == Head(net)
           n == Number(f) IN
          /\ n \in seen \/ f.index + 1 < f.count
                \/ n <= MaxBurst \/ \E m \in (n - MaxBurst)..(n - 1) : m \in seen
          /\ broken' = broken \cup {n}
    /\ net' = Tail(net)
    /\ UNCHANGED <<nextMessageId, reassembler, delivered, sent, seen, garbage>>

(* The message the next frame belongs to, if it has begun.                     *)
Begun == IF net # <<>> /\ Head(net).index > 0 THEN {Number(Head(net))} ELSE {}

(* An addon message with the prefix of ISC that is not a frame: too long, not  *)
(* base64, shorter than a header, or of a message of no frames.                *)
ReceiveGarbage ==
    /\ garbage < MaxGarbage
    /\ garbage' = garbage + 1
    /\ Reset
    /\ broken' = broken \cup Begun
    /\ UNCHANGED <<nextMessageId, net, delivered, sent, seen>>

IscNext ==
    \/ \E size \in HeaderSize..MaxSentSize : SendIscPacket(size)
    \/ Receive \/ Lose \/ ReceiveGarbage

IscSpec == IscInit /\ [][IscNext]_iscVars
-----------------------------------------------------------------------------
OnTheWay == {Number(net[i]) : i \in DOMAIN net}

(* The messages no frame of which was lost and that the receiver has room for. *)
Intact == {n \in DOMAIN sent : n \notin OnTheWay /\ n \notin broken /\ sent[n] <= MaxMessageSize}

(* The receiver gets exactly the messages all frames of which have arrived,    *)
(* whole, once and in order, whatever was lost before, between or after them.  *)
ExactlyIntactMessages ==
    /\ \A k \in DOMAIN delivered : \E n \in Intact : delivered[k] = Message(n)
    /\ \A n \in Intact : \E k \in DOMAIN delivered : delivered[k] = Message(n)
    /\ \A i, k \in DOMAIN delivered : i < k => delivered[i][1][1] < delivered[k][1][1]
-----------------------------------------------------------------------------
(* What ExactlyIntactMessages rests on.  The next frame is frame Place of      *)
(* message Current; when nothing is on the way that message is still to come.  *)
Current == IF net = <<>> THEN Len(sent) + 1 ELSE Number(Head(net))
Place == IF net = <<>> THEN 0 ELSE Head(net).index

Id(n) == (n - 1) % IdSpace
Places(size) == 1..FrameCount(size)
FramesOf(n, size) == EncodeFrames(Id(n), Part(n, size))
Before(f, g) == Number(f) < Number(g) \/ (Number(f) = Number(g) /\ f.index < g.index)

(* All frames from the next one on are on the way, in order and once.          *)
NetInv ==
    /\ nextMessageId = Id(Len(sent) + 1)
    /\ \A i \in DOMAIN net : \E n \in DOMAIN sent : \E j \in Places(sent[n]) : net[i] = FramesOf(n, sent[n])[j]
    /\ \A i, k \in DOMAIN net : i < k => Before(net[i], net[k])
    /\ \A n \in DOMAIN sent : \A j \in Places(sent[n]) :
          n > Current \/ (n = Current /\ j > Place) => \E i \in DOMAIN net : net[i] = FramesOf(n, sent[n])[j]

(* Message m is being put together.  It is the current one, and waits for the  *)
(* next frame unless one was lost; or its end was lost, and so was all of the  *)
(* messages since, of which there are too few for its id to have come back.    *)
InProgress(m) ==
    /\ messageId = Id(m) /\ count = FrameCount(sent[m])
    /\ data = Part(m, nextIndex * MaxFrameData)
    /\ m <= Current
    /\ m = Current => nextIndex <= Place /\ (m \in broken <=> nextIndex < Place)
    /\ m < Current => /\ \A k \in (m + 1)..Current : k \notin seen
                      /\ Current - m <= MaxBurst + 1
                      /\ Place > 0 => Current \in broken

FeedInv ==
    /\ count # 0 => \E m \in DOMAIN sent : InProgress(m)
    /\ count = 0 /\ Place > 0 /\ Current \notin broken => sent[Current] > MaxMessageSize

(* Nothing is known of a message before its first frame is at hand.            *)
HistoryInv == \A n \in broken \cup seen : n < Current \/ (n = Current /\ Place > 0)
=============================================================================
