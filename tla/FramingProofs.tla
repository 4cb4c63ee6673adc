---------------------------- MODULE FramingProofs ----------------------------
(* Proofs about Framing, for any stream and any way to cut it.              *)
EXTENDS Framing, TLAPS

\* What is in the loop, or kept for the next event, follows the last message
\* handed up and ends where the socket is.
Rest ==
    /\ chunk.from <= chunk.to
    /\ dangling.from <= dangling.to
    /\ ~IsNull(chunk) => chunk = Buffer(Consumed, arrived)

FramingInv == TypeOK /\ WholeMessagesInOrder /\ Rest /\ NothingHeldBack

\* What Append does to the history, and where the next message begins then.
LEMMA AppendDelivered ==
    ASSUME TypeOK, NEW b \in Buffers, delivered' = Append(delivered, b)
    PROVE  /\ delivered' \in Seq(Buffers)
           /\ DOMAIN delivered' = DOMAIN delivered \cup {Len(delivered) + 1}
           /\ \A i \in DOMAIN delivered : delivered'[i] = delivered[i]
           /\ delivered'[Len(delivered) + 1] = b
           /\ Len(delivered) \in Nat
           /\ DOMAIN delivered = 1 .. Len(delivered)
           /\ Consumed' = b.to
  <1>1. Len(delivered') = Len(delivered) + 1 /\ Len(delivered) \in Nat
    BY DEF TypeOK
  <1>2. delivered' # <<>>
    BY <1>1
  <1> QED
    BY <1>1, <1>2 DEF TypeOK, Consumed

LEMMA ElementType ==
    ASSUME TypeOK, NEW i \in DOMAIN delivered
    PROVE  delivered[i].from \in 0 .. StreamLength /\ delivered[i].to \in 0 .. StreamLength
  <1>1. delivered[i] \in Buffers
    BY DEF TypeOK
  <1> QED
    BY <1>1 DEF Buffers

\* The bytes already cut into messages are a prefix of those that arrived.
LEMMA ConsumedType ==
    ASSUME FramingInv PROVE Consumed \in 0 .. arrived
  <1>1. CASE delivered = <<>>
    BY <1>1 DEF FramingInv, TypeOK, Consumed
  <1>2. CASE delivered # <<>>
    <2>1. Len(delivered) \in DOMAIN delivered
      BY <1>2 DEF FramingInv, TypeOK
    <2>2. delivered[Len(delivered)] \in Buffers
      BY <2>1 DEF FramingInv, TypeOK
    <2> QED
      BY <1>2, <2>1, <2>2
      DEF FramingInv, TypeOK, WholeMessagesInOrder, Consumed, Buffers
  <1> QED
    BY <1>1, <1>2

LEMMA FramingInit == Init => FramingInv
  BY FramingAssumption
  DEF Init, FramingInv, TypeOK, WholeMessagesInOrder, Rest, NothingHeldBack,
      Consumed, IsNull, Size, Null, Buffer, Buffers

LEMMA DataStep ==
    ASSUME FramingInv, NEW n \in 1 .. StreamLength, Data(n) PROVE FramingInv'
  <1>1. Consumed \in 0 .. arrived /\ Consumed' = Consumed
    BY ConsumedType DEF Data, Consumed
  <1>2. chunk' = Buffer(Consumed, arrived')
    BY <1>1, FramingAssumption
    DEF FramingInv, TypeOK, NothingHeldBack, Rest, Data, Concat, IsNull, Size,
        Buffer, Buffers
  <1>3. arrived' \in 0 .. StreamLength /\ arrived < arrived'
    BY FramingAssumption DEF FramingInv, TypeOK, Data
  <1>4. TypeOK' /\ Rest' /\ NothingHeldBack'
    BY <1>1, <1>2, <1>3, FramingAssumption
    DEF FramingInv, TypeOK, Rest, NothingHeldBack, Data, IsNull, Buffer, Buffers
  <1>5. WholeMessagesInOrder'
    <2>1. \A i \in DOMAIN delivered : delivered[i].to \in 0 .. StreamLength
      BY ElementType DEF FramingInv
    <2>2. \A i \in DOMAIN delivered : delivered[i].to <= arrived
      BY DEF FramingInv, WholeMessagesInOrder
    <2>3. arrived \in Nat /\ arrived' \in Nat
      BY <1>3, FramingAssumption DEF FramingInv, TypeOK
    <2>4. \A i \in DOMAIN delivered : delivered[i].to <= arrived'
      BY <1>3, <2>1, <2>2, <2>3, FramingAssumption
    <2> QED
      BY <2>4 DEF FramingInv, WholeMessagesInOrder, Data
  <1> QED
    BY <1>4, <1>5 DEF FramingInv

LEMMA KeepStep ==
    ASSUME FramingInv, Keep PROVE FramingInv'
  <1>1. Consumed \in 0 .. arrived /\ Consumed' = Consumed
    BY ConsumedType DEF Keep, Consumed
  <1>2. /\ chunk = Buffer(Consumed, arrived)
        /\ arrived' = arrived /\ delivered' = delivered
        /\ dangling' = chunk /\ chunk' = Null
    BY DEF FramingInv, Rest, Keep
  <1>3. TypeOK' /\ WholeMessagesInOrder'
    BY <1>2, FramingAssumption
    DEF FramingInv, TypeOK, WholeMessagesInOrder, Null, Buffer, Buffers
  <1>4. Rest'
    BY <1>1, <1>2 DEF FramingInv, Rest, IsNull, Null, Buffer
  <1>5. Size(chunk) < HeaderLength \/ Size(chunk) < LengthAt[chunk.from]
    <2>1. chunk.from = Consumed /\ chunk.to = arrived /\ chunk.from \in Positions
      BY <1>1, <1>2, FramingAssumption
      DEF FramingInv, TypeOK, Keep, Buffer, IsNull, Positions
    <2>2. Size(chunk) \in Int /\ LengthAt[chunk.from] \in Nat
      BY <2>1, <1>1, FramingAssumption DEF FramingInv, TypeOK, Size
    <2> QED
      BY <2>2 DEF Keep, Complete, HeaderLength
  <1>6. NothingHeldBack'
    BY <1>1, <1>2, <1>5, FramingAssumption
    DEF FramingInv, TypeOK, NothingHeldBack, IsNull, Size, Null, Buffer
  <1> QED
    BY <1>3, <1>4, <1>6 DEF FramingInv

LEMMA DeliverStep ==
    ASSUME FramingInv, Deliver PROVE FramingInv'
  <1> DEFINE end == chunk.from + LengthAt[chunk.from]
             message == Buffer(chunk.from, end)
  <1>1. Consumed \in 0 .. arrived
    BY ConsumedType
  <1>2. chunk = Buffer(Consumed, arrived)
    BY DEF FramingInv, Rest, Deliver
  <1>3. chunk.from = Consumed /\ chunk.to = arrived /\ chunk.from \in Positions
    BY <1>1, <1>2, FramingAssumption
    DEF FramingInv, TypeOK, Deliver, Buffer, IsNull, Positions, Buffers
  <1>4. end \in 0 .. arrived
    BY <1>1, <1>3, FramingAssumption
    DEF FramingInv, TypeOK, Deliver, Complete, Size
  <1>5. message \in Buffers /\ message.to = end /\ message.from = Consumed
    BY <1>1, <1>3, <1>4, FramingAssumption DEF FramingInv, TypeOK, Buffer, Buffers
  <1>6. delivered' = Append(delivered, message)
    BY DEF Deliver
  <1> HIDE DEF message
  <1>7. /\ delivered' \in Seq(Buffers)
        /\ DOMAIN delivered' = DOMAIN delivered \cup {Len(delivered) + 1}
        /\ \A i \in DOMAIN delivered : delivered'[i] = delivered[i]
        /\ delivered'[Len(delivered) + 1] = message
        /\ Len(delivered) \in Nat
        /\ DOMAIN delivered = 1 .. Len(delivered)
        /\ Consumed' = end
    BY <1>5, <1>6, AppendDelivered DEF FramingInv
  <1>8. arrived' = arrived /\ chunk' = Buffer(end, arrived) /\ dangling' = Null
    BY <1>3 DEF Deliver, ClearDangling
  <1>9. TypeOK' /\ Rest' /\ NothingHeldBack'
    BY <1>4, <1>7, <1>8, FramingAssumption
    DEF FramingInv, TypeOK, Rest, NothingHeldBack, IsNull, Size, Null, Buffer, Buffers
  <1>10. WholeMessagesInOrder'
    <2> SUFFICES ASSUME NEW i \in DOMAIN delivered'
                 PROVE  /\ delivered'[i].from =
                              IF i = 1 THEN 0 ELSE delivered'[i - 1].to
                        /\ delivered'[i].to =
                              delivered'[i].from + LengthAt[delivered'[i].from]
                        /\ delivered'[i].to <= arrived'
      BY DEF WholeMessagesInOrder
    <2>1. CASE i \in DOMAIN delivered
      <3>1. i = 1 \/ i - 1 \in DOMAIN delivered
        BY <2>1, <1>7
      <3> QED
        BY <2>1, <3>1, <1>7, <1>8 DEF FramingInv, WholeMessagesInOrder
    <2>2. CASE i = Len(delivered) + 1
      <3>1. Consumed = IF i = 1 THEN 0 ELSE delivered'[i - 1].to
        <4>1. CASE delivered = <<>>
          BY <4>1, <2>2 DEF Consumed
        <4>2. CASE delivered # <<>>
          <5>1. Len(delivered) \in DOMAIN delivered /\ i - 1 = Len(delivered) /\ i # 1
            BY <4>2, <2>2, <1>7 DEF FramingInv, TypeOK
          <5> QED
            BY <4>2, <5>1, <1>7 DEF Consumed
        <4> QED
          BY <4>1, <4>2
      <3>2. delivered'[i] = message
        BY <2>2, <1>7
      <3>3. end <= arrived'
        BY <1>4, <1>8, FramingAssumption DEF FramingInv, TypeOK
      <3>4. message.to = message.from + LengthAt[message.from]
        BY <1>3, <1>5
      <3> QED
        BY <3>1, <3>2, <3>3, <3>4, <1>5
    <2> QED
      BY <2>1, <2>2, <1>7
  <1> QED
    BY <1>9, <1>10 DEF FramingInv

LEMMA FramingStep == FramingInv /\ [Next]_vars => FramingInv'
  <1> SUFFICES ASSUME FramingInv, [Next]_vars PROVE FramingInv'
    OBVIOUS
  <1>1. CASE \E n \in 1 .. StreamLength : Data(n)
    BY <1>1, DataStep
  <1>2. CASE Keep
    BY <1>2, KeepStep
  <1>3. CASE Deliver
    BY <1>3, DeliverStep
  <1>4. CASE UNCHANGED vars
    BY <1>4
    DEF vars, FramingInv, TypeOK, WholeMessagesInOrder, Rest, NothingHeldBack,
        Consumed, IsNull, Size
  <1> QED
    BY <1>1, <1>2, <1>3, <1>4 DEF Next

\* The client hands up exactly the messages the headers of the stream delimit,
\* in order and whole, however the network fragments the stream.
THEOREM Reassembly == Spec => []WholeMessagesInOrder
  <1>1. FramingInv => WholeMessagesInOrder
    BY DEF FramingInv
  <1> QED
    BY FramingInit, FramingStep, <1>1, PTL DEF Spec

\* Between two fragments no whole message is kept back and no byte is lost.
THEOREM Promptness == Spec => []NothingHeldBack
  <1>1. FramingInv => NothingHeldBack
    BY DEF FramingInv
  <1> QED
    BY FramingInit, FramingStep, <1>1, PTL DEF Spec

\* Sizes, offsets and fragments stay what the buffers of the client can hold.
THEOREM FramingTypes == Spec => []TypeOK
  <1>1. FramingInv => TypeOK
    BY DEF FramingInv
  <1> QED
    BY FramingInit, FramingStep, <1>1, PTL DEF Spec
=============================================================================
