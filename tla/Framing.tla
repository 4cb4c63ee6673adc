------------------------------- MODULE Framing -------------------------------
(***************************************************************************)
(* How Client#handleNetworkFragment of lib/Protocol/Client.js cuts the      *)
(* byte stream of a socket into X Protocol messages, whatever way the       *)
(* network cut it into fragments.                                           *)
(*                                                                          *)
(* A byte is its position in the stream, so a buffer is an interval of      *)
(* positions: from is its first byte, to the one after its last.  A null    *)
(* buffer is the empty one.                                                 *)
(***************************************************************************)
EXTENDS Integers, Sequences

CONSTANTS
    StreamLength,  \* bytes the server sends
    LengthAt       \* readUInt32LE() at a position, the header included

Positions == 0 .. StreamLength - 1

ASSUME FramingAssumption ==
    /\ StreamLength \in Nat
    /\ LengthAt \in [Positions -> Nat]
    /\ \A p \in Positions : LengthAt[p] >= 4

VARIABLES
    arrived,    \* bytes the socket has handed over
    dangling,   \* _danglingFragment
    chunk,      \* what is left of the fragment in the loop
    delivered   \* history: the buffers given to handleServerMessage()

vars == <<arrived, dangling, chunk, delivered>>

HeaderLength == 4

Buffers == {b \in [from : 0 .. StreamLength, to : 0 .. StreamLength] : b.from <= b.to}
Buffer(from, to) == [from |-> from, to |-> to]
Null == Buffer(0, 0)
IsNull(b) == b.from = b.to
Size(b) == b.to - b.from

TypeOK ==
    /\ arrived \in 0 .. StreamLength
    /\ dangling \in Buffers
    /\ chunk \in Buffers
    /\ delivered \in Seq(Buffers)

Init ==
    /\ arrived = 0
    /\ dangling = Null
    /\ chunk = Null
    /\ delivered = <<>>

-----------------------------------------------------------------------------

\* (the fragment replaces what was left of the last one)
ConcatMutant(n) == Buffer(arrived, arrived + n)

\* Buffer.concat([_danglingFragment, fragment]), for a fragment of n bytes.
Concat(n) ==
    Buffer(IF IsNull(dangling) THEN arrived ELSE dangling.from, arrived + n)

\* A 'data' event: the loop of the previous one has ended.
Data(n) ==
    /\ IsNull(chunk)
    /\ arrived + n <= StreamLength
    /\ chunk' = Concat(n)
    /\ arrived' = arrived + n
    /\ UNCHANGED <<dangling, delivered>>

\* (the length in the header is not compared)
HeaderOnlyMutant == Size(chunk) >= HeaderLength

Complete == Size(chunk) >= HeaderLength /\ Size(chunk) >= LengthAt[chunk.from]

Keep ==
    /\ ~IsNull(chunk)
    /\ ~Complete
    /\ dangling' = chunk
    /\ chunk' = Null
    /\ UNCHANGED <<arrived, delivered>>

\* (_danglingFragment is not reset)
ClearDanglingMutant == UNCHANGED dangling

ClearDangling == dangling' = Null

Deliver ==
    /\ ~IsNull(chunk)
    /\ Complete
    /\ ClearDangling
    /\ LET end == chunk.from + LengthAt[chunk.from]
       IN /\ delivered' = Append(delivered, Buffer(chunk.from, end))
          /\ chunk' = Buffer(end, chunk.to)
    /\ UNCHANGED arrived

Next ==
    \/ \E n \in 1 .. StreamLength : Data(n)
    \/ Keep
    \/ Deliver

Spec == Init /\ [][Next]_vars

-----------------------------------------------------------------------------

\* Where the next message begins.
Consumed == IF delivered = <<>> THEN 0 ELSE delivered[Len(delivered)].to

\* Every buffer given to handleServerMessage() is a whole message, as its own
\* header says, and it begins where the one before it ended: none is lost, cut
\* short, repeated or out of order, wherever the fragments were cut.
WholeMessagesInOrder ==
    \A i \in DOMAIN delivered :
        /\ delivered[i].from = IF i = 1 THEN 0 ELSE delivered[i - 1].to
        /\ delivered[i].to = delivered[i].from + LengthAt[delivered[i].from]
        /\ delivered[i].to <= arrived

\* Between two events, what is kept back is exactly the bytes that follow the
\* last message, and these do not hold a whole one.
NothingHeldBack ==
    IsNull(chunk) =>
        /\ Consumed + Size(dangling) = arrived
        /\ ~IsNull(dangling) =>
              /\ dangling.from = Consumed
              /\ \/ Size(dangling) < HeaderLength
                 \/ Size(dangling) < LengthAt[dangling.from]
=============================================================================
