----------------------- MODULE ActiveDecoderTheorems -----------------------
(***************************************************************************)
(* What the active decoder promises the player, for queues and a codec of  *)
(* any size, any number of packets and any number of flushes.              *)
(***************************************************************************)
EXTENDS ActiveDecoder, TLAPS

(* What the elements of a queue are after the operations on it.            *)
LEMMA ElementsOfAppend ==
  ASSUME NEW S, NEW q \in Seq(S), NEW x \in S
  PROVE  /\ Append(q, x) \in Seq(S)
         /\ Append(q, x) # <<>>
         /\ Len(Append(q, x)) = Len(q) + 1
         /\ Elements(Append(q, x)) = Elements(q) \cup {x}
<1>1. /\ Append(q, x) \in Seq(S)
      /\ DOMAIN Append(q, x) = DOMAIN q \cup {Len(q) + 1}
      /\ Append(q, x)[Len(q) + 1] = x
      /\ \A i \in DOMAIN q : Append(q, x)[i] = q[i]
  OBVIOUS
<1>2. Len(Append(q, x)) = Len(q) + 1
  OBVIOUS
<1>3. Append(q, x) # <<>>
  <2>1. Len(q) \in Nat /\ Len(<<>>) = 0
    OBVIOUS
  <2>2. Len(Append(q, x)) # Len(<<>>)
    BY <1>2, <2>1
  <2>. QED  BY <2>2, Zenon
<1>. QED  BY <1>1, <1>2, <1>3 DEF Elements

LEMMA ElementsOfTail ==
  ASSUME NEW S, NEW q \in Seq(S), q # <<>>
  PROVE  /\ Tail(q) \in Seq(S)
         /\ Len(Tail(q)) = Len(q) - 1
         /\ Head(q) \in S /\ Head(q) \in Elements(q)
         /\ Elements(Tail(q)) \subseteq Elements(q)
BY DEF Elements

LEMMA ElementsOfConcat ==
  ASSUME NEW S, NEW q \in Seq(S), NEW r \in Seq(S)
  PROVE  q \o r \in Seq(S) /\ Elements(q \o r) \subseteq Elements(q) \cup Elements(r)
BY DEF Elements

LEMMA ElementsOfPrefix ==
  ASSUME NEW S, NEW q \in Seq(S), NEW n \in 0 .. Len(q)
  PROVE  /\ SubSeq(q, 1, n) \in Seq(S)
         /\ Len(SubSeq(q, 1, n)) = n
         /\ Elements(SubSeq(q, 1, n)) \subseteq Elements(q)
BY DEF Elements

LEMMA ElementsOfEmpty == Elements(<<>>) = {}
BY DEF Elements

(* What enqueue_decoder() of a packet leads to: no codec declares the end. *)
LEMMA PacketAnswered ==
  ASSUME bDecoderEOS \in BOOLEAN, fresh \in BOOLEAN, DEnqueue
  PROVE  /\ UNCHANGED bDecoderEOS
         /\ \/ /\ Len(codec) < CodecSize
               /\ mInputQueue' = Tail(mInputQueue)
               /\ codec' = Append(codec, Head(mInputQueue))
               /\ ~ fresh' /\ UNCHANGED owed
            \/ UNCHANGED <<mInputQueue, codec, fresh, owed>>
            \/ /\ mInputQueue' = Tail(mInputQueue)
               /\ owed' = owed \ {Head(mInputQueue)}
               /\ ~ fresh' /\ UNCHANGED codec
<1>1. PICK answer \in PacketAnswers :
        /\ mInputQueue' = IF answer = "EAGAIN" THEN mInputQueue ELSE Tail(mInputQueue)
        /\ codec' = IF answer = "ok" THEN Append(codec, Head(mInputQueue)) ELSE codec
        /\ owed' = IF answer = "error" THEN owed \ {Head(mInputQueue)} ELSE owed
        /\ fresh' = (fresh /\ answer = "EAGAIN")
        /\ bDecoderEOS' = (bDecoderEOS \/ answer = "STATUS_EOS")
  BY Zenon DEF DEnqueue
<1>2. answer \in {"error", "EAGAIN", "ok"} /\ (answer = "ok" => Len(codec) < CodecSize)
  BY DEF PacketAnswers
<1>3. CASE answer = "ok"
  BY <1>1, <1>2, <1>3
<1>4. CASE answer = "EAGAIN"
  BY <1>1, <1>4
<1>5. CASE answer = "error"
  BY <1>1, <1>5
<1>. QED  BY <1>2, <1>3, <1>4, <1>5

-----------------------------------------------------------------------------
LEMMA InitTypeOK == Init => TypeOK
<1>1. Init => Flags \subseteq BOOLEAN
  BY Zenon DEF Init, Flags
<1>. QED  BY <1>1, SizesAssumption, BoundsAssumption
          DEF Init, TypeOK, DecodeSteps, InCodec, PlayerSteps

(* The Boolean variables, apart from the rest of TypeOK.                   *)
LEMMA DecodeFlags == Flags \subseteq BOOLEAN /\ DecodeFunc => (Flags \subseteq BOOLEAN)'
<1> SUFFICES ASSUME Flags \subseteq BOOLEAN, DecodeFunc
             PROVE  (Flags \subseteq BOOLEAN)'
  OBVIOUS
<1> USE DEF Flags, queueVars, eosVars, playerVars, historyVars, flagVars, keepInCall
<1>1. CASE DBegin
  BY <1>1, ZenonT(90) DEF DBegin, DecodeThread!Begin
<1>2. CASE DLoop
  BY <1>2, ZenonT(90) DEF DLoop
<1>3. CASE DExtract
  <2>1. cut' \in BOOLEAN
    BY <1>3, SMT DEF DExtract
  <2>. QED  BY <1>3, <2>1, ZenonT(90) DEF DExtract
<1>4. CASE DDequeue
  BY <1>4, ZenonT(90) DEF DDequeue
<1>5. CASE DPush
  BY <1>5, ZenonT(90) DEF DPush
<1>6. CASE DEnqueue
  <2>1. fresh' \in BOOLEAN /\ bDecoderEOS' \in BOOLEAN
    BY <1>6, SMT DEF DEnqueue
  <2>. QED  BY <1>6, <2>1, ZenonT(90) DEF DEnqueue
<1>7. CASE DCheckInputEos
  BY <1>7, ZenonT(90) DEF DCheckInputEos
<1>8. CASE DCheckEmpty
  BY <1>8, ZenonT(90) DEF DCheckEmpty
<1>9. CASE DEnqueueEos
  <2>1. bSendEOS2Decoder' \in BOOLEAN /\ bDecoderEOS' \in BOOLEAN
    BY <1>9, SMT DEF DEnqueueEos
  <2>. QED  BY <1>9, <2>1, ZenonT(90) DEF DEnqueueEos
<1>10. CASE DEnd
  BY <1>10, ZenonT(90) DEF DEnd, DecodeThread!End
<1>. QED  BY <1>1, <1>2, <1>3, <1>4, <1>5, <1>6, <1>7, <1>8, <1>9, <1>10 DEF DecodeFunc

LEMMA PlayerFlags ==
  ASSUME Flags \subseteq BOOLEAN, NEW key \in BOOLEAN,
         \/ DropPacket \/ SendPacket(key) \/ HoldPacket(key)
         \/ SendEos \/ GetFrame \/ GetFrameEos
  PROVE  (Flags \subseteq BOOLEAN)'
<1> USE DEF Flags, queueVars, eosVars, playerVars, historyVars, threadVars, flagVars, keepDecoding
<1>1. CASE DropPacket
  BY <1>1, ZenonT(90) DEF DropPacket
<1>2. CASE SendPacket(key)
  BY <1>2, ZenonT(90) DEF SendPacket
<1>3. CASE HoldPacket(key)
  <2>1. fresh' = (fresh \/ key) /\ bNeedKeyFrame' = FALSE
    BY <1>3, ZenonT(90) DEF HoldPacket
  <2>2. fresh' \in BOOLEAN /\ bNeedKeyFrame' \in BOOLEAN
    BY <2>1, ZenonT(90)
  <2>3. UNCHANGED <<mRunning, bInputEOS, bSendEOS2Decoder, bDecoderEOS, bHolding, mMutex,
                    busy, parkWanted, valid, wasRunning, held, cut, eosSeen>>
    BY <1>3, ZenonT(90) DEF HoldPacket
  <2>. QED  BY <2>2, <2>3, ZenonT(90)
<1>4. CASE SendEos
  BY <1>4, ZenonT(90) DEF SendEos
<1>5. CASE GetFrame
  BY <1>5, ZenonT(90) DEF GetFrame
<1>6. CASE GetFrameEos
  BY <1>6, ZenonT(90) DEF GetFrameEos
<1>. QED  BY <1>1, <1>2, <1>3, <1>4, <1>5, <1>6

LEMMA ControlFlags ==
  ASSUME Flags \subseteq BOOLEAN,
         \/ DPark \/ FlushDevice \/ Flush \/ Invalidate \/ SetUp \/ Reuse
         \/ HoldOn \/ Hold \/ Resume
  PROVE  (Flags \subseteq BOOLEAN)'
<1> USE DEF Flags, queueVars, eosVars, playerVars, historyVars, threadVars, flagVars
<1>1. CASE DPark
  BY <1>1, ZenonT(90) DEF DPark, DecodeThread!Park
<1>2. CASE FlushDevice
  BY <1>2, ZenonT(90) DEF FlushDevice, Asked
<1>3. CASE Flush
  BY <1>3, ZenonT(90) DEF Flush, Flushed, DecodeThread!Start
<1>4. CASE Invalidate
  BY <1>4, ZenonT(90) DEF Invalidate, Asked
<1>5. CASE SetUp
  BY <1>5, ZenonT(90) DEF SetUp, Asked
<1>6. CASE Reuse
  BY <1>6, ZenonT(90) DEF Reuse, Flushed, DecodeThread!Start
<1>7. CASE HoldOn
  BY <1>7, ZenonT(90) DEF HoldOn, Asked
<1>8. CASE Hold
  BY <1>8, ZenonT(90) DEF Hold, DecodeThread!Start
<1>9. CASE Resume
  BY <1>9, ZenonT(90) DEF Resume, DecodeThread!Start
<1>. QED  BY <1>1, <1>2, <1>3, <1>4, <1>5, <1>6, <1>7, <1>8, <1>9

LEMMA DecodeTypeOK == TypeOK /\ Places /\ DecodeFunc => TypeOK'
<1> SUFFICES ASSUME TypeOK, Places, DecodeFunc
             PROVE  TypeOK'
  OBVIOUS
<1>. (Flags \subseteq BOOLEAN)'
  BY DecodeFlags DEF TypeOK
<1> USE SizesAssumption, BoundsAssumption
        DEF TypeOK, DecodeSteps, InCodec, queueVars, eosVars, playerVars, historyVars,
            flagVars, keepInCall
<1>1. CASE DBegin
  BY <1>1 DEF DBegin, DecodeThread!Begin
<1>2. CASE DLoop
  BY <1>2 DEF DLoop
<1>3. CASE DExtract
  BY <1>3 DEF DExtract
<1>4. CASE DDequeue
  <2>1. CASE codec # <<>> /\ hand' = <<Head(codec)>> /\ codec' = Tail(codec) /\ dpc' = "push"
             /\ UNCHANGED bDecoderEOS
    <3>1. Head(codec) \in Packet /\ codec' \in Seq(Packet) /\ Len(codec') <= CodecSize
      BY <2>1
    <3>2. hand' \in Seq(Packet) /\ Len(hand') <= 1
      BY <2>1, <3>1
    <3>. QED  BY <1>4, <2>1, <3>1, <3>2 DEF DDequeue
  <2>2. CASE UNCHANGED <<hand, codec>> /\ dpc' = extracting
             /\ bDecoderEOS' = (bDecoderEOS \/ bSendEOS2Decoder)
    BY <1>4, <2>2 DEF DDequeue
  <2>. QED  BY <1>4, <2>1, <2>2 DEF DDequeue
<1>5. CASE DPush
  BY <1>5 DEF DPush, Places
<1>6. CASE DEnqueue
  <2>1. /\ mInputQueue # <<>>
        /\ Head(mInputQueue) \in Packet
        /\ Tail(mInputQueue) \in Seq(Packet)
        /\ Len(Tail(mInputQueue)) <= MAX_INPUT_SIZE
    BY <1>6 DEF DEnqueue, Places, ForPacket
  <2>2. mInputQueue' \in Seq(Packet) /\ Len(mInputQueue') <= MAX_INPUT_SIZE
    BY <1>6, <2>1 DEF DEnqueue
  <2>3. codec' \in Seq(Packet) /\ Len(codec') <= CodecSize
    <3>1. codec' = codec \/ (Len(codec) < CodecSize /\ codec' = Append(codec, Head(mInputQueue)))
      BY <1>6, PacketAnswered DEF Flags
    <3>2. CASE codec' = codec
      BY <3>2
    <3>3. CASE Len(codec) < CodecSize /\ codec' = Append(codec, Head(mInputQueue))
      <4>1. codec' \in Seq(Packet) /\ Len(codec') = Len(codec) + 1
        BY <2>1, <3>3
      <4>. QED  BY <3>3, <4>1
    <3>. QED  BY <3>1, <3>2, <3>3
  <2>4. owed' \subseteq Packet
    BY <1>6 DEF DEnqueue
  <2>. QED  BY <1>6, <2>2, <2>3, <2>4 DEF DEnqueue
<1>7. CASE DCheckInputEos \/ DCheckEmpty
  BY <1>7 DEF DCheckInputEos, DCheckEmpty
<1>8. CASE DEnqueueEos
  BY <1>8 DEF DEnqueueEos
<1>9. CASE DEnd
  BY <1>9 DEF DEnd, DecodeThread!End
<1>. QED  BY <1>1, <1>2, <1>3, <1>4, <1>5, <1>6, <1>7, <1>8, <1>9 DEF DecodeFunc

LEMMA NewPacketTypeOK ==
  ASSUME TypeOK, MaySend, NEW key \in BOOLEAN
  PROVE  NewPacket(key) \in Packet
BY BoundsAssumption DEF TypeOK, MaySend, NewPacket, Packet

LEMMA PlayerTypeOK ==
  ASSUME TypeOK, NEW key \in BOOLEAN,
         \/ DropPacket \/ SendPacket(key) \/ HoldPacket(key)
         \/ SendEos \/ GetFrame \/ GetFrameEos
  PROVE  TypeOK'
<1>. (Flags \subseteq BOOLEAN)'
  BY PlayerFlags DEF TypeOK
<1> USE SizesAssumption, BoundsAssumption
        DEF TypeOK, PlayerSteps, queueVars, eosVars, playerVars, historyVars, threadVars,
            flagVars, keepDecoding
<1>1. MaySend => NewPacket(key) \in Packet
  BY NewPacketTypeOK
<1>2. CASE DropPacket
  BY <1>2 DEF DropPacket, MaySend
<1>3. CASE SendPacket(key)
  <2>1. /\ mInputQueue' \in Seq(Packet) /\ Len(mInputQueue') <= MAX_INPUT_SIZE
        /\ owed' \subseteq Packet
        /\ sent' \in 0 .. MaxPackets
    BY <1>1, <1>3 DEF SendPacket, MaySend
  <2>. QED  BY <1>3, <2>1 DEF SendPacket
<1>4. CASE HoldPacket(key)
  <2>1. mHoldingQueue' \in Seq(Packet)
    BY <1>1, <1>4 DEF HoldPacket
  <2>2. codec' \in Seq(Packet) /\ Len(codec') <= CodecSize
    BY <1>4 DEF HoldPacket
  <2>3. sent' \in 0 .. MaxPackets
    BY <1>4 DEF HoldPacket, MaySend
  <2>. QED  BY <1>4, <2>1, <2>2, <2>3 DEF HoldPacket
<1>5. CASE SendEos
  BY <1>5 DEF SendEos
<1>6. CASE GetFrame
  <2>1. mOutputQueue' \in Seq(Packet) /\ Len(mOutputQueue') <= maxOutQueueSize
    <3>1. CASE mOutputQueue # <<>>
      <4>1. mOutputQueue' = Tail(mOutputQueue)
        BY <1>6, <3>1 DEF GetFrame
      <4>. QED  BY <3>1, <4>1, ElementsOfTail
    <3>2. CASE mOutputQueue = <<>>
      BY <1>6, <3>2 DEF GetFrame
    <3>. QED  BY <3>1, <3>2
  <2>2. owed' \subseteq Packet
    BY <1>6 DEF GetFrame
  <2>. QED  BY <1>6, <2>1, <2>2 DEF GetFrame
<1>7. CASE GetFrameEos
  BY <1>7 DEF GetFrameEos
<1>. QED  BY <1>2, <1>3, <1>4, <1>5, <1>6, <1>7

LEMMA ControlTypeOK ==
  ASSUME TypeOK, Places,
         \/ DPark \/ FlushDevice \/ Flush \/ Invalidate \/ SetUp \/ Reuse
         \/ HoldOn \/ Hold \/ Resume
  PROVE  TypeOK'
<1>. (Flags \subseteq BOOLEAN)'
  BY ControlFlags DEF TypeOK
<1> USE SizesAssumption, BoundsAssumption
        DEF TypeOK, PlayerSteps, queueVars, eosVars, playerVars, historyVars, threadVars,
            flagVars
<1>1. CASE DPark
  BY <1>1 DEF DPark, DecodeThread!Park
<1>2. CASE FlushDevice
  BY <1>2 DEF FlushDevice, Asked
<1>3. CASE Flush
  BY <1>3 DEF Flush, Flushed, DecodeThread!Start
<1>4. CASE Invalidate
  BY <1>4 DEF Invalidate, Asked
<1>5. CASE SetUp
  BY <1>5 DEF SetUp, Asked
<1>6. CASE Reuse
  BY <1>6 DEF Reuse, Flushed, DecodeThread!Start
<1>7. CASE HoldOn
  BY <1>7 DEF HoldOn, Asked
<1>8. CASE Hold
  BY <1>8 DEF Hold, DecodeThread!Start
<1>9. CASE Resume
  <2>1. mInputQueue' \in Seq(Packet) /\ Len(mInputQueue') <= MAX_INPUT_SIZE
    BY <1>9, ElementsOfConcat, ElementsOfPrefix DEF Resume
  <2>. QED  BY <1>9, <2>1 DEF Resume, DecodeThread!Start
<1>. QED  BY <1>1, <1>2, <1>3, <1>4, <1>5, <1>6, <1>7, <1>8, <1>9

-----------------------------------------------------------------------------
LEMMA InitPlaces == Init => Places /\ EosInOrder
BY DEF Init, Places, EosInOrder, ForPacket, PastInput, Extracting

LEMMA DecodePlaces == TypeOK /\ Places /\ EosInOrder /\ DecodeFunc => Places' /\ EosInOrder'
<1> SUFFICES ASSUME TypeOK, Places, EosInOrder, DecodeFunc
             PROVE  Places' /\ EosInOrder'
  OBVIOUS
<1> USE DEF TypeOK, Places, EosInOrder, ForPacket, PastInput, Extracting, DecodeSteps, InCodec,
            queueVars, eosVars, playerVars, historyVars, flagVars, keepInCall
<1>1. CASE DBegin
  BY <1>1 DEF DBegin, DecodeThread!Begin
<1>2. CASE DLoop
  BY <1>2 DEF DLoop
<1>3. CASE DExtract
  BY <1>3 DEF DExtract
<1>4. CASE DDequeue
  <2>1. CASE hand' = <<Head(codec)>> /\ dpc' = "push" /\ UNCHANGED bDecoderEOS
    BY <1>4, <2>1 DEF DDequeue
  <2>2. CASE dpc' = extracting /\ UNCHANGED <<hand, codec>>
             /\ bDecoderEOS' = (bDecoderEOS \/ bSendEOS2Decoder)
    <3>1. bDecoderEOS' => bSendEOS2Decoder
      BY <2>2
    <3>. QED  BY <1>4, <2>2, <3>1 DEF DDequeue
  <2>. QED  BY <1>4, <2>1, <2>2 DEF DDequeue
<1>5. CASE DPush
  BY <1>5 DEF DPush
<1>6. CASE DEnqueue
  <2>1. bDecoderEOS \in BOOLEAN /\ fresh \in BOOLEAN
    BY DEF Flags
  <2>2. UNCHANGED <<bDecoderEOS, bInputEOS, bSendEOS2Decoder, bHolding, held, hand, apc, valid,
                    mOutputQueue, mode, busy, extracting>>
        /\ dpc' = "loop" /\ mInputQueue # <<>>
    BY <1>6, <2>1, PacketAnswered DEF DEnqueue
  <2>. QED  BY <1>6, <2>2 DEF DEnqueue
<1>7. CASE DCheckInputEos
  BY <1>7 DEF DCheckInputEos
<1>8. CASE DCheckEmpty
  BY <1>8 DEF DCheckEmpty
<1>9. CASE DEnqueueEos
  <2>1. bSendEOS2Decoder' => bInputEOS /\ (~ held => mInputQueue = <<>>)
    BY <1>9 DEF DEnqueueEos
  <2>2. ~ bDecoderEOS
    BY <1>9 DEF DEnqueueEos
  <2>3. dpc' = "extract" /\ UNCHANGED <<mInputQueue, bInputEOS, held, extracting>>
    BY <1>9 DEF DEnqueueEos
  <2>4. bDecoderEOS' => bSendEOS2Decoder'
    BY <1>9, <2>2 DEF DEnqueueEos
  <2>. QED  BY <1>9, <2>1, <2>3, <2>4 DEF DEnqueueEos
<1>10. CASE DEnd
  BY <1>10 DEF DEnd, DecodeThread!End
<1>. QED  BY <1>1, <1>2, <1>3, <1>4, <1>5, <1>6, <1>7, <1>8, <1>9, <1>10 DEF DecodeFunc

LEMMA PlayerPlaces ==
  ASSUME TypeOK, Places, EosInOrder, NEW key \in BOOLEAN,
         \/ DropPacket \/ SendPacket(key) \/ HoldPacket(key)
         \/ SendEos \/ GetFrame \/ GetFrameEos
  PROVE  Places' /\ EosInOrder'
<1> USE DEF TypeOK, Places, EosInOrder, ForPacket, PastInput, Extracting, MaySend,
            queueVars, eosVars, playerVars, historyVars, threadVars, flagVars, keepDecoding
<1>1. CASE DropPacket
  BY <1>1 DEF DropPacket
<1>2. CASE SendPacket(key)
  <2>1. mInputQueue' # <<>>
    <3>1. NewPacket(key) \in Packet
      BY <1>2, NewPacketTypeOK DEF SendPacket
    <3>2. mInputQueue' = Append(mInputQueue, NewPacket(key))
      BY <1>2 DEF SendPacket
    <3>. QED  BY <3>1, <3>2, ElementsOfAppend
  <2>. QED  BY <1>2, <2>1 DEF SendPacket
<1>3. CASE HoldPacket(key)
  BY <1>3 DEF HoldPacket
<1>4. CASE SendEos
  BY <1>4 DEF SendEos
<1>5. CASE GetFrame
  <2>1. CASE mOutputQueue # <<>>
    <3>1. mOutputQueue' = Tail(mOutputQueue)
      BY <1>5, <2>1 DEF GetFrame
    <3>2. Len(mOutputQueue') < Len(mOutputQueue) /\ mOutputQueue' \in Seq(Packet)
      BY <2>1, <3>1, ElementsOfTail
    <3>. QED  BY <1>5, <2>1, <3>2, SizesAssumption DEF GetFrame
  <2>2. CASE mOutputQueue = <<>>
    BY <1>5, <2>2 DEF GetFrame
  <2>. QED  BY <2>1, <2>2
<1>6. CASE GetFrameEos
  BY <1>6 DEF GetFrameEos
<1>. QED  BY <1>1, <1>2, <1>3, <1>4, <1>5, <1>6

LEMMA ControlPlaces ==
  ASSUME TypeOK, Places, EosInOrder,
         \/ DPark \/ FlushDevice \/ Flush \/ Invalidate \/ SetUp \/ Reuse
         \/ HoldOn \/ Hold \/ Resume
  PROVE  Places' /\ EosInOrder'
<1> USE DEF TypeOK, Places, EosInOrder, ForPacket, PastInput, Extracting,
            queueVars, eosVars, playerVars, historyVars, threadVars, flagVars
<1>1. CASE DPark
  BY <1>1 DEF DPark, DecodeThread!Park
<1>2. CASE FlushDevice
  BY <1>2 DEF FlushDevice, Asked
<1>3. CASE Flush
  BY <1>3 DEF Flush, Flushed, Parked, DecodeThread!Start
<1>4. CASE Invalidate
  BY <1>4 DEF Invalidate, Asked
<1>5. CASE SetUp
  BY <1>5 DEF SetUp, Asked
<1>6. CASE Reuse
  BY <1>6 DEF Reuse, Flushed, Parked, DecodeThread!Start
<1>7. CASE HoldOn
  BY <1>7 DEF HoldOn, Asked
<1>8. CASE Hold
  BY <1>8 DEF Hold, Parked, DecodeThread!Start
<1>9. CASE Resume
  <2>1. mInputQueue # <<>> => mInputQueue' # <<>>
    BY <1>9, SizesAssumption DEF Resume
  <2>. QED  BY <1>9, <2>1 DEF Resume, DecodeThread!Start
<1>. QED  BY <1>1, <1>2, <1>3, <1>4, <1>5, <1>6, <1>7, <1>8, <1>9

-----------------------------------------------------------------------------
(***************************************************************************)
(* Every step: of the decode thread, of the player with packets and        *)
(* frames, and of the player with the thread.                              *)
(***************************************************************************)
IInv == TypeOK /\ Places /\ EosInOrder

LEMMA IInvStep == IInv /\ [Next]_vars => IInv'
<1> SUFFICES ASSUME IInv, [Next]_vars
             PROVE  IInv'
  OBVIOUS
<1>1. CASE DecodeFunc
  BY <1>1, DecodeTypeOK, DecodePlaces DEF IInv
<1>2. ASSUME NEW key \in BOOLEAN,
             \/ DropPacket \/ SendPacket(key) \/ HoldPacket(key)
             \/ SendEos \/ GetFrame \/ GetFrameEos
      PROVE  IInv'
  BY <1>2, PlayerTypeOK, PlayerPlaces DEF IInv
<1>3. CASE \/ DPark \/ FlushDevice \/ Flush \/ Invalidate \/ SetUp \/ Reuse
           \/ HoldOn \/ Hold \/ Resume
  BY <1>3, ControlTypeOK, ControlPlaces DEF IInv
<1>4. CASE UNCHANGED vars
  BY <1>4 DEF IInv, TypeOK, Flags, Places, EosInOrder, ForPacket, PastInput, Extracting, vars,
              queueVars, eosVars, threadVars, playerVars, historyVars, flagVars
<1>. QED  BY <1>1, <1>2, <1>3, <1>4 DEF Next, PlayerContinues

(* What the rest follows from: the two threads are where they can be, and  *)
(* the end of the stream is passed on in its order.                        *)
THEOREM Invariance == Spec => []IInv
<1>1. Init => IInv
  BY InitTypeOK, InitPlaces DEF IInv
<1>. QED  BY <1>1, IInvStep, PTL DEF Spec

(* The queues keep their bounds and types.                                 *)
THEOREM TypeCorrect == Spec => []TypeOK
BY Invariance, PTL DEF IInv

(* A key that comes while holding flushes the codec only when the decode   *)
(* thread is not in it.                                                    *)
THEOREM FlushesAlone == Spec => []FlushAlone
<1>1. IInv => extracting \in {"enqueue", "end"}
  BY DEF IInv, TypeOK
<1>2. IInv => FlushAlone
  BY <1>1 DEF IInv, Places, EosInOrder, ForPacket, PastInput, Extracting, FlushAlone, InCodec
<1>. QED  BY <1>2, Invariance, PTL

-----------------------------------------------------------------------------
(* The end of the stream is declared only when input and codec are empty.  *)
LEMMA EosDrainedStep == IInv /\ EosDrained /\ [Next]_vars => EosDrained'
<1> SUFFICES ASSUME IInv, EosDrained, [Next]_vars
             PROVE  EosDrained'
  OBVIOUS
<1> USE DEF IInv, TypeOK, Places, EosInOrder, ForPacket, PastInput, Extracting, EosDrained,
            queueVars, eosVars, threadVars, playerVars, historyVars, flagVars
<1>1. CASE DBegin \/ DLoop \/ DExtract \/ DCheckInputEos \/ DCheckEmpty \/ DEnd
  BY <1>1 DEF DBegin, DLoop, DExtract, DCheckInputEos, DCheckEmpty, DEnd,
              DecodeThread!Begin, DecodeThread!End, keepInCall
<1>2. CASE DDequeue
  BY <1>2 DEF DDequeue, keepInCall
<1>3. CASE DPush
  BY <1>3 DEF DPush, keepInCall
<1>4. CASE DEnqueue
  <2>1. bDecoderEOS \in BOOLEAN /\ fresh \in BOOLEAN
    BY DEF Flags
  <2>2. UNCHANGED <<bDecoderEOS, held>> /\ mInputQueue # <<>>
    BY <1>4, <2>1, PacketAnswered DEF DEnqueue
  <2>. QED  BY <2>2
<1>5. CASE DEnqueueEos
  BY <1>5 DEF DEnqueueEos, keepInCall
<1>6. ASSUME NEW key \in BOOLEAN,
             \/ DropPacket \/ SendPacket(key) \/ HoldPacket(key)
      PROVE  EosDrained'
  BY <1>6 DEF DropPacket, SendPacket, HoldPacket, MaySend, keepDecoding
<1>7. CASE SendEos \/ GetFrame \/ GetFrameEos
  BY <1>7 DEF SendEos, GetFrame, GetFrameEos, keepDecoding
<1>8. CASE Flush \/ Reuse
  BY <1>8 DEF Flush, Reuse, Flushed
<1>9. CASE DPark \/ FlushDevice \/ Invalidate \/ SetUp \/ HoldOn
  BY <1>9 DEF DPark, FlushDevice, Invalidate, SetUp, HoldOn, DecodeThread!Park
<1>10. CASE Hold \/ Resume
  BY <1>10 DEF Hold, Resume
<1>11. CASE UNCHANGED vars
  BY <1>11 DEF vars
<1>. QED  BY <1>1, <1>2, <1>3, <1>4, <1>5, <1>6, <1>7, <1>8, <1>9, <1>10, <1>11
          DEF Next, DecodeFunc, PlayerContinues

(* bDecoderEOS is set only when nothing is left in front of the output:    *)
(* the decode thread enqueues the null packet only after the last packet,  *)
(* and no packet is sent after it.                                         *)
THEOREM EosAfterDrain == Spec => []EosDrained
<1>1. Init => EosDrained
  BY DEF Init, EosDrained
<1>. QED  BY <1>1, Invariance, EosDrainedStep, PTL DEF Spec

-----------------------------------------------------------------------------
(***************************************************************************)
(* No stale frame: after a step of the decode thread or of the player,     *)
(* what a queue holds was in some queue before, or was sent just now.      *)
(***************************************************************************)
LEMMA DecodeKeepsFresh == IInv /\ NoStaleFrame /\ DecodeFunc => NoStaleFrame'
<1> SUFFICES ASSUME IInv, NoStaleFrame, DecodeFunc, valid', ~ Flushing'
             PROVE  \A q \in {mInputQueue, mHoldingQueue, codec, hand, mOutputQueue}' :
                      \A p \in Elements(q) : p.epoch = epoch'
  BY DEF NoStaleFrame
<1>1. UNCHANGED <<valid, apc, epoch, mHoldingQueue>>
  BY DEF DecodeFunc, DBegin, DLoop, DExtract, DDequeue, DPush, DEnqueue, DCheckInputEos,
         DCheckEmpty, DEnqueueEos, DEnd, queueVars, playerVars
<1>2. \A q \in {mInputQueue, mHoldingQueue, codec, hand, mOutputQueue} :
        \A p \in Elements(q) : p.epoch = epoch
  BY <1>1 DEF NoStaleFrame, Flushing
<1>3. /\ mInputQueue \in Seq(Packet) /\ mOutputQueue \in Seq(Packet)
      /\ codec \in Seq(Packet) /\ hand \in Seq(Packet)
  BY DEF IInv, TypeOK
<1>4. CASE DBegin \/ DLoop \/ DExtract \/ DCheckInputEos \/ DCheckEmpty \/ DEnqueueEos \/ DEnd
  BY <1>1, <1>2, <1>4 DEF DBegin, DLoop, DExtract, DCheckInputEos, DCheckEmpty, DEnqueueEos,
                          DEnd, queueVars
<1>5. CASE DDequeue
  <2>1. CASE codec # <<>> /\ hand' = <<Head(codec)>> /\ codec' = Tail(codec)
    <3>1. Elements(codec') \subseteq Elements(codec) /\ Head(codec) \in Elements(codec)
      BY <1>3, <2>1, ElementsOfTail
    <3>2. Elements(hand') = {Head(codec)}
      BY <2>1 DEF Elements
    <3>. QED  BY <1>1, <1>2, <1>5, <3>1, <3>2 DEF DDequeue
  <2>2. CASE UNCHANGED <<hand, codec>>
    BY <1>1, <1>2, <1>5, <2>2 DEF DDequeue
  <2>. QED  BY <1>5, <2>1, <2>2 DEF DDequeue
<1>6. CASE DPush
  <2>1. Elements(mOutputQueue') \subseteq Elements(mOutputQueue) \cup Elements(hand)
    BY <1>3, <1>6, ElementsOfConcat DEF DPush
  <2>2. Elements(hand') = {}
    BY <1>6, ElementsOfEmpty DEF DPush
  <2>. QED  BY <1>1, <1>2, <1>6, <2>1, <2>2 DEF DPush
<1>7. CASE DEnqueue
  <2>1. mInputQueue # <<>>
    BY <1>7 DEF DEnqueue, IInv, Places, ForPacket
  <2>2. /\ Head(mInputQueue) \in Packet /\ Head(mInputQueue) \in Elements(mInputQueue)
        /\ Elements(Tail(mInputQueue)) \subseteq Elements(mInputQueue)
    BY <1>3, <2>1, ElementsOfTail
  <2>3. Elements(Append(codec, Head(mInputQueue))) = Elements(codec) \cup {Head(mInputQueue)}
    BY <1>3, <2>2, ElementsOfAppend
  <2>4. Elements(mInputQueue') \subseteq Elements(mInputQueue)
    BY <1>7, <2>2 DEF DEnqueue
  <2>5. Elements(codec') \subseteq Elements(codec) \cup Elements(mInputQueue)
    BY <1>7, <2>2, <2>3 DEF DEnqueue
  <2>. QED  BY <1>1, <1>2, <1>7, <2>4, <2>5 DEF DEnqueue
<1>. QED  BY <1>4, <1>5, <1>6, <1>7 DEF DecodeFunc

LEMMA PlayerKeepsFresh ==
  ASSUME IInv, NoStaleFrame, NEW key \in BOOLEAN,
         \/ DropPacket \/ SendPacket(key) \/ HoldPacket(key)
         \/ SendEos \/ GetFrame \/ GetFrameEos
  PROVE  NoStaleFrame'
<1> SUFFICES ASSUME valid', ~ Flushing'
             PROVE  \A q \in {mInputQueue, mHoldingQueue, codec, hand, mOutputQueue}' :
                      \A p \in Elements(q) : p.epoch = epoch'
  BY DEF NoStaleFrame
<1>1. UNCHANGED <<valid, epoch, hand>> /\ apc \in {"idle", "chkEos"}
  BY DEF DropPacket, SendPacket, HoldPacket, SendEos, GetFrame, GetFrameEos, MaySend,
         queueVars, playerVars, keepDecoding
<1>2. \A q \in {mInputQueue, mHoldingQueue, codec, hand, mOutputQueue} :
        \A p \in Elements(q) : p.epoch = epoch
  BY <1>1 DEF NoStaleFrame, Flushing
<1>3. /\ mInputQueue \in Seq(Packet) /\ mOutputQueue \in Seq(Packet)
      /\ mHoldingQueue \in Seq(Packet)
      /\ (MaySend => NewPacket(key) \in Packet)
      /\ NewPacket(key).epoch = epoch
  BY NewPacketTypeOK DEF IInv, TypeOK, NewPacket
<1>4. CASE DropPacket \/ SendEos \/ GetFrameEos
  BY <1>1, <1>2, <1>4 DEF DropPacket, SendEos, GetFrameEos, queueVars
<1>5. CASE SendPacket(key)
  <2>1. Elements(mInputQueue') = Elements(mInputQueue) \cup {NewPacket(key)}
    BY <1>3, <1>5, ElementsOfAppend DEF SendPacket
  <2>. QED  BY <1>1, <1>2, <1>3, <1>5, <2>1 DEF SendPacket
<1>6. CASE HoldPacket(key)
  <2>1. Elements(mHoldingQueue') \subseteq Elements(mHoldingQueue) \cup {NewPacket(key)}
    <3>1. Append(<<>>, NewPacket(key)) = <<NewPacket(key)>>
      OBVIOUS
    <3>2. mHoldingQueue' = Append(<<>>, NewPacket(key))
          \/ mHoldingQueue' = Append(mHoldingQueue, NewPacket(key))
      BY <1>6 DEF HoldPacket
    <3>3. NewPacket(key) \in Packet
      BY <1>3, <1>6 DEF HoldPacket
    <3>4. Elements(Append(<<>>, NewPacket(key))) = {NewPacket(key)}
      BY <3>1 DEF Elements
    <3>5. Elements(Append(mHoldingQueue, NewPacket(key))) = Elements(mHoldingQueue) \cup {NewPacket(key)}
      BY <1>3, <3>3, ElementsOfAppend
    <3>. QED  BY <3>2, <3>4, <3>5
  <2>2. Elements(codec') \subseteq Elements(codec)
    BY <1>6, ElementsOfEmpty DEF HoldPacket
  <2>. QED  BY <1>1, <1>2, <1>3, <1>6, <2>1, <2>2 DEF HoldPacket
<1>7. CASE GetFrame
  <2>1. mOutputQueue' = mOutputQueue
        \/ (mOutputQueue # <<>> /\ mOutputQueue' = Tail(mOutputQueue))
    BY <1>7 DEF GetFrame
  <2>2. Elements(mOutputQueue') \subseteq Elements(mOutputQueue)
    BY <1>3, <2>1, ElementsOfTail
  <2>. QED  BY <1>1, <1>2, <1>7, <2>2 DEF GetFrame
<1>. QED  BY <1>4, <1>5, <1>6, <1>7

LEMMA ControlKeepsFresh ==
  ASSUME IInv, NoStaleFrame,
         \/ DPark \/ FlushDevice \/ Flush \/ Invalidate \/ SetUp \/ Reuse
         \/ HoldOn \/ Hold \/ Resume
  PROVE  NoStaleFrame'
<1> SUFFICES ASSUME valid', ~ Flushing'
             PROVE  \A q \in {mInputQueue, mHoldingQueue, codec, hand, mOutputQueue}' :
                      \A p \in Elements(q) : p.epoch = epoch'
  BY DEF NoStaleFrame
<1>1. /\ mInputQueue \in Seq(Packet) /\ mHoldingQueue \in Seq(Packet)
  BY DEF IInv, TypeOK
<1>2. CASE FlushDevice \/ Invalidate \/ SetUp
  BY <1>2 DEF FlushDevice, Invalidate, SetUp, Flushing
<1>3. CASE Flush \/ Reuse
  <2>1. hand' = <<>>
    BY <1>3 DEF Flush, Reuse, Flushed, Parked, IInv, Places
  <2>2. mInputQueue' = <<>> /\ mHoldingQueue' = <<>> /\ codec' = <<>> /\ mOutputQueue' = <<>>
    BY <1>3 DEF Flush, Reuse, Flushed
  <2>. QED  BY <2>1, <2>2, ElementsOfEmpty
<1>4. CASE DPark \/ HoldOn \/ Hold \/ Resume
  <2>1. UNCHANGED <<valid, epoch, codec, hand>> /\ ~ Flushing
    BY <1>4 DEF DPark, HoldOn, Hold, Resume, Flushing, queueVars, playerVars
  <2>2. \A q \in {mInputQueue, mHoldingQueue, codec, hand, mOutputQueue} :
          \A p \in Elements(q) : p.epoch = epoch
    BY <2>1 DEF NoStaleFrame
  <2>3. CASE DPark \/ HoldOn
    BY <2>1, <2>2, <2>3 DEF DPark, HoldOn, queueVars
  <2>4. CASE Hold
    <3>1. Elements(mHoldingQueue') \subseteq Elements(mHoldingQueue) \cup Elements(mInputQueue)
      BY <1>1, <2>4, ElementsOfConcat DEF Hold
    <3>2. Elements(mInputQueue') = {} /\ Elements(mOutputQueue') = {}
      BY <2>4, ElementsOfEmpty DEF Hold
    <3>. QED  BY <2>1, <2>2, <3>1, <3>2
  <2>5. CASE Resume
    <3> DEFINE all == mInputQueue \o mHoldingQueue
               n == IF Len(all) > MAX_INPUT_SIZE THEN MAX_INPUT_SIZE ELSE Len(all)
    <3>1. all \in Seq(Packet)
          /\ Elements(all) \subseteq Elements(mInputQueue) \cup Elements(mHoldingQueue)
      BY <1>1, ElementsOfConcat
    <3>2. n \in 0 .. Len(all)
      BY <3>1, SizesAssumption
    <3>3. mInputQueue' = SubSeq(all, 1, n) /\ mHoldingQueue' = <<>> /\ UNCHANGED mOutputQueue
      BY <2>5 DEF Resume
    <3>4. Elements(mInputQueue') \subseteq Elements(all)
      <4> HIDE DEF all, n
      <4>. QED  BY <3>1, <3>2, <3>3, ElementsOfPrefix
    <3>. QED  BY <2>1, <2>2, <3>1, <3>3, <3>4, ElementsOfEmpty
  <2>. QED  BY <1>4, <2>3, <2>4, <2>5
<1>. QED  BY <1>2, <1>3, <1>4

(* Nothing from before a flush, or from before the decoder was given back, *)
(* is in it when the player uses it again.                                 *)
THEOREM Fresh == Spec => []NoStaleFrame
<1>1. Init => NoStaleFrame
  BY ElementsOfEmpty DEF Init, NoStaleFrame
<1>2. IInv /\ NoStaleFrame /\ [Next]_vars => NoStaleFrame'
  <2> SUFFICES ASSUME IInv, NoStaleFrame, [Next]_vars
               PROVE  NoStaleFrame'
    OBVIOUS
  <2>1. CASE UNCHANGED vars
    BY <2>1 DEF vars, NoStaleFrame, Flushing, queueVars, playerVars
  <2>. QED  BY <2>1, DecodeKeepsFresh, PlayerKeepsFresh, ControlKeepsFresh
            DEF Next, PlayerContinues
<1>. QED  BY <1>1, <1>2, Invariance, PTL DEF Spec

-----------------------------------------------------------------------------
(***************************************************************************)
(* A key first: the first packet in line stays until the codec gets it.    *)
(***************************************************************************)
LEMMA HeadOfAppend ==
  ASSUME NEW S, NEW q \in Seq(S), NEW x \in S
  PROVE  Head(Append(q, x)) = IF q = <<>> THEN x ELSE Head(q)
OBVIOUS

LEMMA HeadOfPrefix ==
  ASSUME NEW S, NEW q \in Seq(S), q # <<>>, NEW n \in 1 .. Len(q)
  PROVE  SubSeq(q, 1, n) # <<>> /\ Head(SubSeq(q, 1, n)) = Head(q)
OBVIOUS

LEMMA PlayerKeepsKeyInLine ==
  ASSUME IInv, KeyInLine, NEW key \in BOOLEAN,
         \/ DropPacket \/ SendPacket(key) \/ HoldPacket(key)
         \/ SendEos \/ GetFrame \/ GetFrameEos
  PROVE  KeyInLine'
<1>1. CASE DropPacket \/ SendEos \/ GetFrame \/ GetFrameEos
  BY <1>1 DEF KeyInLine, DropPacket, SendEos, GetFrame, GetFrameEos, queueVars, historyVars,
              flagVars, keepDecoding
<1>2. MaySend => NewPacket(key) \in Packet /\ NewPacket(key).key = key
  BY NewPacketTypeOK DEF IInv, NewPacket
<1>3. mInputQueue \in Seq(Packet) /\ mHoldingQueue \in Seq(Packet)
  BY DEF IInv, TypeOK
<1>4. CASE SendPacket(key)
  <2>1. mInputQueue' = Append(mInputQueue, NewPacket(key)) /\ ~ bHolding /\ ~ bNeedKeyFrame'
        /\ UNCHANGED <<mHoldingQueue, bHolding, fresh>> /\ (bNeedKeyFrame => key) /\ MaySend
    BY <1>4 DEF SendPacket, keepDecoding
  <2>2. mInputQueue' # <<>>
        /\ Head(mInputQueue') = IF mInputQueue = <<>> THEN NewPacket(key) ELSE Head(mInputQueue)
    BY <1>2, <1>3, <2>1, ElementsOfAppend, HeadOfAppend
  <2>. QED  BY <1>2, <2>1, <2>2 DEF KeyInLine
<1>5. CASE HoldPacket(key)
  <2> DEFINE before == IF key THEN <<>> ELSE mHoldingQueue
  <2>1. mHoldingQueue' = Append(before, NewPacket(key)) /\ bHolding /\ ~ bNeedKeyFrame'
        /\ UNCHANGED <<mInputQueue, bHolding>> /\ (bNeedKeyFrame => key) /\ MaySend
        /\ fresh' = (fresh \/ key)
    BY <1>5 DEF HoldPacket, keepDecoding
  <2>2. before \in Seq(Packet)
    BY <1>3
  <2>3. mHoldingQueue' # <<>>
        /\ Head(mHoldingQueue') = IF before = <<>> THEN NewPacket(key) ELSE Head(before)
    <3> HIDE DEF before
    <3>. QED  BY <1>2, <2>1, <2>2, ElementsOfAppend, HeadOfAppend
  <2>4. bHolding'
    BY <2>1
  <2>5. Head(mHoldingQueue').key \/ ~ fresh'
    BY <1>2, <2>1, <2>3 DEF KeyInLine
  <2>. QED  BY <2>1, <2>3, <2>4, <2>5 DEF KeyInLine
<1>. QED  BY <1>1, <1>4, <1>5

LEMMA ControlKeepsKeyInLine ==
  ASSUME IInv, KeyInLine,
         \/ DPark \/ FlushDevice \/ Flush \/ Invalidate \/ SetUp \/ Reuse
         \/ HoldOn \/ Hold \/ Resume
  PROVE  KeyInLine'
<1>1. mInputQueue \in Seq(Packet) /\ mHoldingQueue \in Seq(Packet)
  BY DEF IInv, TypeOK
<1>2. CASE DPark \/ FlushDevice \/ Invalidate \/ SetUp \/ HoldOn
  BY <1>2 DEF KeyInLine, DPark, FlushDevice, Invalidate, SetUp, HoldOn, queueVars, historyVars,
              flagVars
<1>3. CASE Flush \/ Reuse
  BY <1>3 DEF KeyInLine, Flush, Reuse, Flushed
<1>4. CASE Hold
  <2>1. ~ bHolding
    BY <1>4 DEF Hold, IInv, Places
  <2>2. mHoldingQueue' = mInputQueue
    BY <1>1, <1>4, <2>1 DEF Hold, KeyInLine
  <2>. QED  BY <1>4, <2>1, <2>2 DEF Hold, KeyInLine, historyVars
<1>5. CASE Resume
  <2> DEFINE n == IF Len(mHoldingQueue) > MAX_INPUT_SIZE THEN MAX_INPUT_SIZE ELSE Len(mHoldingQueue)
  <2>1. bHolding /\ mInputQueue = <<>>
    BY <1>5 DEF Resume, IInv, Places
  <2>2. mInputQueue \o mHoldingQueue = mHoldingQueue
    BY <1>1, <2>1
  <2>3. mInputQueue' = SubSeq(mHoldingQueue, 1, n) /\ mHoldingQueue' = <<>> /\ ~ bHolding'
        /\ UNCHANGED <<bNeedKeyFrame, fresh>>
    BY <1>5, <2>2 DEF Resume, historyVars
  <2>4. CASE mHoldingQueue = <<>>
    <3>1. n = 0
      BY <2>4, SizesAssumption
    <3>2. mInputQueue' = <<>>
      BY <2>3, <2>4, <3>1
    <3>. QED  BY <2>1, <2>3, <2>4, <3>2 DEF KeyInLine
  <2>5. CASE mHoldingQueue # <<>>
    <3>1. n \in 1 .. Len(mHoldingQueue)
      BY <1>1, <2>5, SizesAssumption
    <3>2. mInputQueue' # <<>> /\ Head(mInputQueue') = Head(mHoldingQueue)
      <4> HIDE DEF n
      <4>. QED  BY <1>1, <2>3, <2>5, <3>1, HeadOfPrefix
    <3>. QED  BY <2>1, <2>3, <2>5, <3>2 DEF KeyInLine
  <2>. QED  BY <2>4, <2>5
<1>. QED  BY <1>2, <1>3, <1>4, <1>5

LEMMA DecodeKeepsKeyInLine == IInv /\ KeyInLine /\ DecodeFunc => KeyInLine'
<1> SUFFICES ASSUME IInv, KeyInLine, DecodeFunc
             PROVE  KeyInLine'
  OBVIOUS
<1>1. CASE DBegin \/ DLoop \/ DExtract \/ DDequeue \/ DPush \/ DCheckInputEos \/ DCheckEmpty
           \/ DEnqueueEos \/ DEnd
  BY <1>1 DEF KeyInLine, DBegin, DLoop, DExtract, DDequeue, DPush, DCheckInputEos, DCheckEmpty,
              DEnqueueEos, DEnd, queueVars, historyVars, flagVars
<1>2. CASE DEnqueue
  <2>1. mInputQueue # <<>> /\ ~ bHolding
    BY <1>2 DEF DEnqueue, IInv, Places, ForPacket
  <2>. QED  BY <1>2, <2>1 DEF DEnqueue, KeyInLine, flagVars
<1>. QED  BY <1>1, <1>2 DEF DecodeFunc

(* After a flush the first packet the codec gets is a key.                 *)
THEOREM KeyFirst == Spec => []DecodesFromKey
<1>1. Init => KeyInLine
  BY DEF Init, KeyInLine
<1>2. IInv /\ KeyInLine /\ [Next]_vars => KeyInLine'
  <2> SUFFICES ASSUME IInv, KeyInLine, [Next]_vars
               PROVE  KeyInLine'
    OBVIOUS
  <2>1. CASE UNCHANGED vars
    BY <2>1 DEF vars, KeyInLine, queueVars, historyVars, flagVars
  <2>. QED  BY <2>1, DecodeKeepsKeyInLine, PlayerKeepsKeyInLine, ControlKeepsKeyInLine
            DEF Next, PlayerContinues
<1>3. IInv /\ KeyInLine => DecodesFromKey
  BY DEF IInv, Places, KeyInLine, DecodesFromKey
<1>. QED  BY <1>1, <1>2, <1>3, Invariance, PTL DEF Spec

-----------------------------------------------------------------------------
(***************************************************************************)
(* Conservation.  The way of a packet is cut into its parts: what is in    *)
(* them, that each is in order, and that one is before the next.           *)
(***************************************************************************)
LEMMA OrderOfConcat ==
  ASSUME NEW q \in Seq(Packet), NEW r \in Seq(Packet)
  PROVE  /\ q \o r \in Seq(Packet)
         /\ Elements(q \o r) = Elements(q) \cup Elements(r)
         /\ InOrder(q) /\ InOrder(r) /\ Before(q, r) => InOrder(q \o r)
<1>1. /\ q \o r \in Seq(Packet)
      /\ Len(q \o r) = Len(q) + Len(r)
      /\ \A k \in 1 .. Len(q \o r) : (q \o r)[k] = IF k <= Len(q) THEN q[k] ELSE r[k - Len(q)]
  OBVIOUS
<1>2. Elements(q \o r) = Elements(q) \cup Elements(r)
  <2>1. Elements(q \o r) \subseteq Elements(q) \cup Elements(r)
    BY ElementsOfConcat
  <2>2. ASSUME NEW k \in DOMAIN q
        PROVE  q[k] \in Elements(q \o r)
    BY <1>1 DEF Elements
  <2>3. ASSUME NEW k \in DOMAIN r
        PROVE  r[k] \in Elements(q \o r)
    <3>1. Len(q) + k \in DOMAIN (q \o r) /\ (q \o r)[Len(q) + k] = r[k]
      BY <1>1
    <3>. QED  BY <3>1 DEF Elements
  <2>. QED  BY <2>1, <2>2, <2>3 DEF Elements
<1>3. ASSUME InOrder(q), InOrder(r), Before(q, r),
             NEW i \in DOMAIN (q \o r), NEW j \in DOMAIN (q \o r), i < j
      PROVE  (q \o r)[i].n < (q \o r)[j].n
  <2>1. CASE j <= Len(q)
    BY <1>1, <1>3, <2>1 DEF InOrder
  <2>2. CASE i > Len(q)
    <3>1. /\ i - Len(q) \in DOMAIN r /\ j - Len(q) \in DOMAIN r
          /\ i - Len(q) < j - Len(q)
          /\ (q \o r)[i] = r[i - Len(q)] /\ (q \o r)[j] = r[j - Len(q)]
      BY <1>1, <1>3, <2>2
    <3>. QED  BY <1>3, <3>1 DEF InOrder
  <2>3. CASE i <= Len(q) /\ j > Len(q)
    <3>1. i \in DOMAIN q /\ j - Len(q) \in DOMAIN r
          /\ (q \o r)[i] = q[i] /\ (q \o r)[j] = r[j - Len(q)]
      BY <1>1, <1>3, <2>3
    <3>. QED  BY <1>3, <3>1 DEF Before, Elements
  <2>. QED  BY <1>1, <2>1, <2>2, <2>3
<1>. QED  BY <1>1, <1>2, <1>3 DEF InOrder

LEMMA OrderOfTail ==
  ASSUME NEW q \in Seq(Packet), q # <<>>, InOrder(q)
  PROVE  /\ Tail(q) \in Seq(Packet) /\ InOrder(Tail(q))
         /\ Head(q) \in Packet /\ Head(q) \in Elements(q)
         /\ Elements(Tail(q)) = Elements(q) \ {Head(q)}
         /\ \A p \in Elements(Tail(q)) : Head(q).n < p.n
<1>1. /\ Tail(q) \in Seq(Packet) /\ Len(Tail(q)) = Len(q) - 1 /\ Len(q) >= 1
      /\ \A k \in 1 .. Len(Tail(q)) : Tail(q)[k] = q[k + 1]
      /\ Head(q) = q[1] /\ Head(q) \in Packet
  OBVIOUS
<1>2. InOrder(Tail(q))
  BY <1>1 DEF InOrder
<1>3. \A p \in Elements(Tail(q)) : Head(q).n < p.n /\ p \in Elements(q)
  BY <1>1 DEF InOrder, Elements
<1>4. \A p \in Elements(q) : p = Head(q) \/ p \in Elements(Tail(q))
  <2> SUFFICES ASSUME NEW k \in DOMAIN q, k # 1
               PROVE  q[k] \in Elements(Tail(q))
    BY <1>1 DEF Elements
  <2>1. k - 1 \in DOMAIN Tail(q) /\ Tail(q)[k - 1] = q[k]
    BY <1>1
  <2>. QED  BY <2>1 DEF Elements
<1>5. Head(q) \notin Elements(Tail(q))
  <2> SUFFICES ASSUME Head(q) \in Elements(Tail(q))
               PROVE  FALSE
    OBVIOUS
  <2>1. Head(q).n < Head(q).n /\ Head(q).n \in Int
    BY <1>1, <1>3 DEF Packet
  <2>. QED  BY <2>1
<1>6. Head(q) \in Elements(q)
  BY <1>1 DEF Elements
<1>. QED  BY <1>1, <1>2, <1>3, <1>4, <1>5, <1>6

LEMMA OrderOfAppend ==
  ASSUME NEW q \in Seq(Packet), NEW x \in Packet, InOrder(q), \A p \in Elements(q) : p.n < x.n
  PROVE  /\ Append(q, x) \in Seq(Packet) /\ InOrder(Append(q, x))
         /\ Elements(Append(q, x)) = Elements(q) \cup {x}
<1>1. /\ Append(q, x) \in Seq(Packet)
      /\ Len(Append(q, x)) = Len(q) + 1
      /\ \A k \in 1 .. Len(q) : Append(q, x)[k] = q[k]
      /\ Append(q, x)[Len(q) + 1] = x
  OBVIOUS
<1>2. InOrder(Append(q, x))
  BY <1>1 DEF InOrder, Elements
<1>. QED  BY <1>1, <1>2, ElementsOfAppend

LEMMA OrderOfNone == InOrder(<<>>) /\ (\A q : Before(<<>>, q) /\ Before(q, <<>>))
BY DEF InOrder, Before, Elements

LEMMA OrderOfOne ==
  ASSUME NEW x
  PROVE  InOrder(<<x>>) /\ Elements(<<x>>) = {x}
BY DEF InOrder, Elements

(* The parts together are the whole way.                                   *)
LEMMA OnItsWayConserved ==
  ASSUME IInv, OnItsWay
  PROVE  LET all == mOutputQueue \o hand \o codec \o mInputQueue IN
         /\ Elements(all) = owed
         /\ \A i, j \in DOMAIN all : i < j => all[i].n < all[j].n
<1>1. /\ mInputQueue \in Seq(Packet) /\ mOutputQueue \in Seq(Packet)
      /\ codec \in Seq(Packet) /\ hand \in Seq(Packet)
  BY DEF IInv, TypeOK
<1> DEFINE one == mOutputQueue \o hand
           two == one \o codec
           all == two \o mInputQueue
<1>2. /\ one \in Seq(Packet) /\ InOrder(one)
      /\ Elements(one) = Elements(mOutputQueue) \cup Elements(hand)
  BY <1>1, OrderOfConcat DEF OnItsWay
<1>3. Before(one, codec) /\ Before(one, mInputQueue)
  BY <1>2 DEF OnItsWay, Before
<1> HIDE DEF one
<1>4. /\ two \in Seq(Packet) /\ InOrder(two)
      /\ Elements(two) = Elements(one) \cup Elements(codec)
  BY <1>1, <1>2, <1>3, OrderOfConcat DEF OnItsWay
<1>5. Before(two, mInputQueue)
  BY <1>3, <1>4 DEF OnItsWay, Before
<1> HIDE DEF two
<1>6. InOrder(all) /\ Elements(all) = Elements(two) \cup Elements(mInputQueue)
  BY <1>1, <1>4, <1>5, OrderOfConcat DEF OnItsWay
<1>7. Elements(all) = owed
  BY <1>2, <1>4, <1>6 DEF OnItsWay
<1>. QED  BY <1>6, <1>7 DEF InOrder, one, two

LEMMA DecodeKeepsOwing == IInv /\ Owing /\ DecodeFunc => Owing'
<1> SUFFICES ASSUME IInv, Owing, DecodeFunc
             PROVE  Owing'
  OBVIOUS
<1>1. UNCHANGED <<valid, apc, held, sent>> /\ (Flushing' <=> Flushing)
  BY DEF DecodeFunc, DBegin, DLoop, DExtract, DDequeue, DPush, DEnqueue, DCheckInputEos,
         DCheckEmpty, DEnqueueEos, DEnd, playerVars, historyVars, Flushing
<1>2. owed = {} => owed' = {}
  BY DEF DecodeFunc, DBegin, DLoop, DExtract, DDequeue, DPush, DEnqueue, DCheckInputEos,
         DCheckEmpty, DEnqueueEos, DEnd, historyVars
<1> SUFFICES ASSUME OnItsWay
             PROVE  OnItsWay'
  BY <1>1, <1>2 DEF Owing
<1>3. /\ mInputQueue \in Seq(Packet) /\ mOutputQueue \in Seq(Packet)
      /\ codec \in Seq(Packet) /\ hand \in Seq(Packet)
      /\ hand # <<>> => dpc = "push"
      /\ owed \subseteq Packet
  BY DEF IInv, TypeOK, Places
<1>4. CASE DBegin \/ DLoop \/ DExtract \/ DCheckInputEos \/ DCheckEmpty \/ DEnqueueEos \/ DEnd
  BY <1>1, <1>4 DEF DBegin, DLoop, DExtract, DCheckInputEos, DCheckEmpty, DEnqueueEos, DEnd,
                    queueVars, historyVars, OnItsWay
<1>5. CASE DDequeue
  <2>1. CASE codec # <<>> /\ hand' = <<Head(codec)>> /\ codec' = Tail(codec)
    <3>1. UNCHANGED <<mInputQueue, mOutputQueue, owed>>
      BY <1>5 DEF DDequeue, historyVars
    <3>2. hand = <<>>
      BY <1>3, <1>5 DEF DDequeue
    <3>3. /\ InOrder(codec') /\ Head(codec) \in Elements(codec)
          /\ Elements(codec') = Elements(codec) \ {Head(codec)}
          /\ \A p \in Elements(codec') : Head(codec).n < p.n
      BY <1>3, <2>1, OrderOfTail DEF OnItsWay
    <3>4. InOrder(hand') /\ Elements(hand') = {Head(codec)}
      BY <2>1, OrderOfOne
    <3>5. owed' = Elements(mOutputQueue') \cup Elements(hand') \cup Elements(codec')
                  \cup Elements(mInputQueue')
      BY <3>1, <3>2, <3>3, <3>4, ElementsOfEmpty DEF OnItsWay
    <3>6. Before(mOutputQueue', hand') /\ Before(mOutputQueue', codec') /\ Before(hand', codec')
          /\ Before(hand', mInputQueue') /\ Before(codec', mInputQueue')
      BY <3>1, <3>3, <3>4 DEF OnItsWay, Before
    <3>. QED  BY <1>1, <3>1, <3>3, <3>4, <3>5, <3>6 DEF OnItsWay, Before
  <2>2. CASE UNCHANGED <<hand, codec>>
    BY <1>1, <1>5, <2>2 DEF DDequeue, historyVars, OnItsWay
  <2>. QED  BY <1>5, <2>1, <2>2 DEF DDequeue
<1>6. CASE DPush
  <2>1. mOutputQueue' = mOutputQueue \o hand /\ hand' = <<>>
        /\ UNCHANGED <<mInputQueue, codec, owed>>
    BY <1>6 DEF DPush, historyVars
  <2>2. InOrder(mOutputQueue') /\ Elements(mOutputQueue') = Elements(mOutputQueue) \cup Elements(hand)
    BY <1>3, <2>1, OrderOfConcat DEF OnItsWay
  <2>3. Elements(hand') = {} /\ InOrder(hand') /\ (\A q : Before(hand', q) /\ Before(q, hand'))
    BY <2>1, OrderOfNone, ElementsOfEmpty
  <2>4. Before(mOutputQueue', codec') /\ Before(mOutputQueue', mInputQueue')
    BY <2>1, <2>2 DEF OnItsWay, Before
  <2>. QED  BY <1>1, <2>1, <2>2, <2>3, <2>4 DEF OnItsWay
<1>7. CASE DEnqueue
  <2> DEFINE p == Head(mInputQueue)
  <2>1. mInputQueue # <<>> /\ UNCHANGED <<mOutputQueue, hand>>
    BY <1>7 DEF DEnqueue, IInv, Places, ForPacket
  <2>2. /\ InOrder(Tail(mInputQueue))
        /\ p \in Packet /\ p \in Elements(mInputQueue)
        /\ Elements(Tail(mInputQueue)) = Elements(mInputQueue) \ {p}
        /\ \A r \in Elements(Tail(mInputQueue)) : p.n < r.n
    BY <1>3, <2>1, OrderOfTail DEF OnItsWay
  <2>3. \A r \in Elements(mOutputQueue) \cup Elements(hand) \cup Elements(codec) : r.n < p.n
    BY <2>2 DEF OnItsWay, Before
  <2>4. CASE mInputQueue' = Tail(mInputQueue) /\ codec' = Append(codec, p) /\ UNCHANGED owed
    <3> HIDE DEF p
    <3>1. InOrder(codec') /\ Elements(codec') = Elements(codec) \cup {p}
      BY <1>3, <2>2, <2>3, <2>4, OrderOfAppend DEF OnItsWay
    <3>2. owed' = Elements(mOutputQueue') \cup Elements(hand') \cup Elements(codec')
                  \cup Elements(mInputQueue')
      BY <2>1, <2>2, <2>4, <3>1 DEF OnItsWay
    <3>3. Before(mOutputQueue', codec') /\ Before(hand', codec') /\ Before(codec', mInputQueue')
          /\ Before(mOutputQueue', mInputQueue') /\ Before(hand', mInputQueue')
      BY <2>1, <2>2, <2>3, <2>4, <3>1 DEF OnItsWay, Before
    <3>. QED  BY <1>1, <2>1, <2>2, <2>4, <3>1, <3>2, <3>3 DEF OnItsWay
  <2>5. CASE UNCHANGED <<mInputQueue, codec, owed>>
    BY <1>1, <2>1, <2>5 DEF OnItsWay
  <2>6. CASE mInputQueue' = Tail(mInputQueue) /\ owed' = owed \ {p} /\ UNCHANGED codec
    <3> HIDE DEF p
    <3>1. p \notin Elements(mOutputQueue) \cup Elements(hand) \cup Elements(codec)
      <4>1. p.n \in Int
        BY <2>2 DEF Packet
      <4>2. ~ (p.n < p.n)
        BY <4>1
      <4>. QED  BY <2>3, <4>2
    <3>2. owed' = Elements(mOutputQueue') \cup Elements(hand') \cup Elements(codec')
                  \cup Elements(mInputQueue')
      BY <2>1, <2>2, <2>6, <3>1 DEF OnItsWay
    <3>3. Before(codec', mInputQueue') /\ Before(mOutputQueue', mInputQueue')
          /\ Before(hand', mInputQueue')
      BY <2>1, <2>2, <2>6 DEF OnItsWay, Before
    <3>. QED  BY <1>1, <2>1, <2>2, <2>6, <3>2, <3>3 DEF OnItsWay
  <2>7. bDecoderEOS \in BOOLEAN /\ fresh \in BOOLEAN
    BY DEF IInv, TypeOK, Flags
  <2>. QED  BY <1>7, <2>4, <2>5, <2>6, <2>7, PacketAnswered
<1>. QED  BY <1>4, <1>5, <1>6, <1>7 DEF DecodeFunc

LEMMA PlayerKeepsOwing ==
  ASSUME IInv, Owing, NEW key \in BOOLEAN,
         \/ DropPacket \/ SendPacket(key) \/ HoldPacket(key)
         \/ SendEos \/ GetFrame \/ GetFrameEos
  PROVE  Owing'
<1>1. UNCHANGED <<valid, held, hand>> /\ valid /\ ~ Flushing /\ ~ Flushing'
  BY DEF DropPacket, SendPacket, HoldPacket, SendEos, GetFrame, GetFrameEos, MaySend, queueVars,
         playerVars, historyVars, keepDecoding, Flushing, IInv, Places
<1>2. CASE HoldPacket(key)
  BY <1>1, <1>2 DEF HoldPacket, IInv, Places, Owing
<1> SUFFICES ASSUME ~ HoldPacket(key), OnItsWay
             PROVE  OnItsWay'
  BY <1>1, <1>2 DEF Owing
<1>3. /\ mInputQueue \in Seq(Packet) /\ mOutputQueue \in Seq(Packet)
      /\ owed \subseteq Packet /\ sent \in Nat
  BY DEF IInv, TypeOK
<1>4. CASE SendEos \/ GetFrameEos
  BY <1>4 DEF SendEos, GetFrameEos, queueVars, historyVars, playerVars, OnItsWay
<1>5. CASE DropPacket
  <2>1. sent' = sent + 1 /\ UNCHANGED <<queueVars, owed>>
    BY <1>5 DEF DropPacket, historyVars
  <2>2. \A p \in owed : p.n <= sent'
    BY <1>3, <2>1 DEF OnItsWay, Packet
  <2>. QED  BY <2>1, <2>2 DEF OnItsWay, queueVars
<1>6. CASE SendPacket(key)
  <2> DEFINE x == NewPacket(key)
  <2>1. /\ mInputQueue' = Append(mInputQueue, x) /\ owed' = owed \cup {x} /\ sent' = sent + 1
        /\ UNCHANGED <<mOutputQueue, codec>> /\ MaySend
    BY <1>6 DEF SendPacket
  <2>2. x \in Packet /\ x.n = sent + 1
    BY <2>1, NewPacketTypeOK DEF IInv, NewPacket
  <2> HIDE DEF x
  <2>3. \A p \in owed : p.n < x.n /\ p.n <= sent + 1
    BY <1>3, <2>2 DEF OnItsWay, Packet
  <2>4. InOrder(mInputQueue') /\ Elements(mInputQueue') = Elements(mInputQueue) \cup {x}
    BY <1>3, <2>1, <2>2, <2>3, OrderOfAppend DEF OnItsWay
  <2>5. Before(mOutputQueue', mInputQueue') /\ Before(hand', mInputQueue')
        /\ Before(codec', mInputQueue')
    BY <1>1, <2>1, <2>3, <2>4 DEF OnItsWay, Before
  <2>6. \A p \in owed' : p.n <= sent'
    BY <1>3, <2>1, <2>2, <2>3
  <2>. QED  BY <1>1, <2>1, <2>4, <2>5, <2>6 DEF OnItsWay
<1>7. CASE GetFrame
  <2>1. UNCHANGED <<mInputQueue, codec, sent>>
    BY <1>7 DEF GetFrame
  <2>2. CASE mOutputQueue = <<>>
    BY <1>1, <1>7, <2>1, <2>2 DEF GetFrame, OnItsWay
  <2>3. CASE mOutputQueue # <<>>
    <3> DEFINE p == Head(mOutputQueue)
    <3>1. mOutputQueue' = Tail(mOutputQueue) /\ owed' = owed \ {p}
      BY <1>7, <2>3 DEF GetFrame
    <3>2. /\ InOrder(Tail(mOutputQueue)) /\ p \in Packet /\ p \in Elements(mOutputQueue)
          /\ Elements(Tail(mOutputQueue)) = Elements(mOutputQueue) \ {p}
      BY <1>3, <2>3, OrderOfTail DEF OnItsWay
    <3> HIDE DEF p
    <3>3. p \notin Elements(hand) \cup Elements(codec) \cup Elements(mInputQueue)
      <4>1. p.n \in Int
        BY <3>2 DEF Packet
      <4>2. ~ (p.n < p.n)
        BY <4>1
      <4>. QED  BY <3>2, <4>2 DEF OnItsWay, Before
    <3>4. owed' = Elements(mOutputQueue') \cup Elements(hand') \cup Elements(codec')
                  \cup Elements(mInputQueue')
      BY <1>1, <2>1, <3>1, <3>2, <3>3 DEF OnItsWay
    <3>5. Before(mOutputQueue', hand') /\ Before(mOutputQueue', codec')
          /\ Before(mOutputQueue', mInputQueue')
      BY <1>1, <2>1, <3>1, <3>2 DEF OnItsWay, Before
    <3>. QED  BY <1>1, <2>1, <3>1, <3>2, <3>4, <3>5 DEF OnItsWay
  <2>. QED  BY <2>2, <2>3
<1>. QED  BY <1>4, <1>5, <1>6, <1>7

LEMMA ControlKeepsOwing ==
  ASSUME IInv, Owing,
         \/ DPark \/ FlushDevice \/ Flush \/ Invalidate \/ SetUp \/ Reuse
         \/ HoldOn \/ Hold \/ Resume
  PROVE  Owing'
<1>1. CASE DPark
  BY <1>1 DEF DPark, queueVars, playerVars, historyVars, Owing, OnItsWay, Flushing
<1>2. CASE FlushDevice \/ Invalidate \/ SetUp
  BY <1>2 DEF FlushDevice, Invalidate, SetUp, historyVars, Owing, Flushing
<1>3. CASE Flush \/ Reuse
  <2>1. hand' = <<>> /\ mInputQueue' = <<>> /\ codec' = <<>> /\ mOutputQueue' = <<>>
    BY <1>3 DEF Flush, Reuse, Flushed, Parked, IInv, Places
  <2>2. owed = {} /\ UNCHANGED owed /\ valid'
    BY <1>3 DEF Flush, Reuse, Owing, Flushing, IInv, Places
  <2>. QED  BY <2>1, <2>2, OrderOfNone, ElementsOfEmpty DEF Owing, OnItsWay
<1>4. CASE HoldOn \/ Hold \/ Resume
  <2>1. held'
    BY <1>4 DEF HoldOn, Hold, Resume, historyVars, IInv, Places
  <2>2. UNCHANGED <<valid, owed>> /\ ~ Flushing /\ ~ Flushing'
    BY <1>4 DEF HoldOn, Hold, Resume, playerVars, historyVars, Flushing
  <2>. QED  BY <2>1, <2>2 DEF Owing
<1>. QED  BY <1>1, <1>2, <1>3, <1>4

(* Every accepted packet whose frame is not out is on its way, once, and   *)
(* all of them in the order in which they were sent.                       *)
THEOREM NothingLost == Spec => []Conservation
<1>1. Init => Owing
  BY ElementsOfEmpty, OrderOfNone DEF Init, Owing, OnItsWay, Flushing
<1>2. IInv /\ Owing /\ [Next]_vars => Owing'
  <2> SUFFICES ASSUME IInv, Owing, [Next]_vars
               PROVE  Owing'
    OBVIOUS
  <2>1. CASE UNCHANGED vars
    BY <2>1 DEF vars, Owing, OnItsWay, Flushing, queueVars, playerVars, historyVars
  <2>. QED  BY <2>1, DecodeKeepsOwing, PlayerKeepsOwing, ControlKeepsOwing
            DEF Next, PlayerContinues
<1>3. IInv /\ Owing => Conservation
  BY OnItsWayConserved DEF Owing, Conservation
<1>. QED  BY <1>1, <1>2, <1>3, Invariance, PTL DEF Spec
=============================================================================
