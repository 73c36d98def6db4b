----------------------------- MODULE UdsProofs -----------------------------
(***************************************************************************)
(* Theorems about Uds: the types of a connection, and that bytes in a      *)
(* reader always have somebody who will read them, for any messages, sizes *)
(* of parts, reads and sockets and any number of workers.                  *)
(***************************************************************************)
EXTENDS Uds, SequenceTheorems, WellFoundedInduction, TLAPS

-----------------------------------------------------------------------------
(* Sequences of bytes *)

\* The beginning and the rest of a sequence are sequences.
LEMMA Parts ==
  ASSUME NEW S, NEW s \in Seq(S), NEW n \in Nat
  PROVE  /\ First(s, n) \in Seq(S) /\ After(s, n) \in Seq(S)
         /\ Len(First(s, n)) <= n
  <1> DEFINE k == IF n < Len(s) THEN n ELSE Len(s)
  <1>1. Len(s) \in Nat /\ k \in 0 .. Len(s) /\ k <= n
    BY LenProperties
  <1>2. \A i \in 1 .. Len(s) : s[i] \in S
    BY ElementOfSeq
  <1>3. SubSeq(s, 1, k) \in Seq(S) /\ Len(SubSeq(s, 1, k)) = k
    <2>1. \A i \in 1 .. k : s[i] \in S
      BY <1>1, <1>2
    <2> HIDE DEF k
    <2>2. /\ SubSeq(s, 1, k) \in Seq(S)
          /\ Len(SubSeq(s, 1, k)) = IF 1 <= k THEN k - 1 + 1 ELSE 0
      BY <1>1, <2>1, SubSeqProperties
    <2> QED BY <1>1, <2>2
  <1>4. SubSeq(s, n + 1, Len(s)) \in Seq(S)
    <2>1. \A i \in n + 1 .. Len(s) : s[i] \in S
      BY <1>1, <1>2
    <2> QED BY <1>1, <2>1, SubSeqProperties
  <1> QED
    BY <1>1, <1>3, <1>4 DEF First, After

\* A frame is a sequence of bytes.
LEMMA FrameType ==
  ASSUME NEW m \in Message
  PROVE  Frame(m) \in Bytes
  <1> DEFINE n == MetaLength + JsonLength[m] + BinaryLength[m]
  <1>1. n \in Nat
    BY FrameAssumption
  <1>2. \A i \in 1 .. n : [of |-> m, at |-> i] \in Byte
    BY <1>1 DEF Byte
  <1>3. [i \in 1 .. n |-> [of |-> m, at |-> i]] \in Seq(Byte)
    <2> HIDE DEF n
    <2> QED BY <1>1, <1>2
  <1> QED
    BY <1>3 DEF Frame, Bytes

-----------------------------------------------------------------------------
(* What read_block returns *)

Results == {"frame", "null", "Invalid JSON.", "Invalid meta.",
            "The maximum size of the meta has been exceeded."}

Reads == [res : Results, req : Req]

\* The binary part is taken off the buffer, or nothing is.
LEMMA ReadBinaryType ==
  ASSUME NEW r \in Req
  PROVE  ReadBinary(r) \in Reads
  <1>1. /\ First(r.buff, r.binary_length) \in Seq(Byte)
        /\ After(r.buff, r.binary_length) \in Seq(Byte)
    <2>1. r.buff \in Seq(Byte) /\ r.binary_length \in Nat
      BY DEF Req
    <2> QED BY <2>1, Parts
  <1> QED
    BY <1>1 DEF ReadBinary, Reads, Result, Results, Req

\* The JSON is taken off the buffer, then the binary part; or nothing is, or the
\* buffer is emptied.
LEMMA ReadJsonType ==
  ASSUME NEW r \in Req
  PROVE  ReadJson[r] \in Reads
  <1> DEFINE taken == [r EXCEPT !.ctx = CHOOSE m \in Jsons(r) : TRUE,
                                !.buff = After(r.buff, r.json_length)]
  <1>1. ReadJson[r] =
          IF Len(r.buff) < r.json_length THEN ReadBinary(r)
          ELSE IF Jsons(r) = {} THEN Result("Invalid JSON.", Cleared(r))
          ELSE IF r.binary_length = 0 THEN Result("frame", taken) ELSE ReadBinary(taken)
    BY DEF ReadJson
  <1>2. Jsons(r) # {} => taken \in Req
    <2>1. r.buff \in Seq(Byte) /\ r.json_length \in Nat
      BY DEF Req
    <2>2. After(r.buff, r.json_length) \in Seq(Byte)
      BY <2>1, Parts
    <2>3. Jsons(r) # {} => (CHOOSE m \in Jsons(r) : TRUE) \in Message
      BY DEF Jsons
    <2> QED BY <2>2, <2>3 DEF Req
  <1>3. Cleared(r) \in Req
    BY EmptySeq DEF Cleared, Req
  <1> HIDE DEF taken
  <1>4. Jsons(r) # {} => ReadBinary(taken) \in Reads /\ Result("frame", taken) \in Reads
    BY <1>2, ReadBinaryType DEF Reads, Result, Results
  <1>5. Result("Invalid JSON.", Cleared(r)) \in Reads
    BY <1>3 DEF Reads, Result, Results
  <1> QED
    BY <1>1, <1>4, <1>5, ReadBinaryType

\* The first of the places of a ":" is one of them.
LEMMA MetaEndType ==
  ASSUME NEW r \in Req, Colons(r) # {}
  PROVE  MetaEnd(r) \in Nat
  <1>1. Colons(r) \subseteq Nat
    BY LenProperties DEF Colons, Req
  <1> DEFINE R == {p \in Nat \X Nat : p[1] < p[2]}
  <1>2. IsWellFoundedOn(R, Nat)
    BY NatLessThanWellFounded DEF OpToRel
  <1>3. PICK i \in Colons(r) : \A j \in Colons(r) : ~(<<j, i>> \in R)
    <2> HIDE DEF R
    <2> QED BY <1>1, <1>2, WFMin
  <1>4. \A j \in Colons(r) : i <= j
    <2> SUFFICES ASSUME NEW j \in Colons(r) PROVE i <= j
      OBVIOUS
    <2>1. i \in Nat /\ j \in Nat /\ <<j, i>> \notin R
      BY <1>1, <1>3
    <2>2. <<j, i>> \in Nat \X Nat
      BY <2>1
    <2>3. ~(<<j, i>>[1] < <<j, i>>[2])
      BY <2>1, <2>2
    <2> QED BY <2>1, <2>3
  <1> QED
    BY <1>1, <1>4 DEF MetaEnd

\* A read is a result and a reader.
LEMMA ReadBlockType ==
  ASSUME NEW r \in Req
  PROVE  ReadBlock(r) \in Reads
  <1>1. Cleared(r) \in Req
    BY EmptySeq DEF Cleared, Req
  <1>2. CASE r.has_meta
    BY <1>2, ReadJsonType DEF ReadBlock, ReadBody
  <1>3. CASE ~r.has_meta /\ (Colons(r) = {} \/ Metas(r) = {})
    BY <1>1, <1>3 DEF ReadBlock, ReadBody, Reads, Result, Results
  <1>4. CASE ~r.has_meta /\ Colons(r) # {} /\ Metas(r) # {}
    <2> DEFINE m == CHOOSE m \in Metas(r) : TRUE
               begun == [r EXCEPT !.has_meta = TRUE,
                                  !.json_length = JsonLength[m],
                                  !.binary_length = BinaryLength[m],
                                  !.buff = After(r.buff, MetaEnd(r))]
    <2>1. m \in Message
      BY <1>4 DEF Metas
    <2>2. JsonLength[m] \in Nat /\ BinaryLength[m] \in Nat
      BY <2>1, FrameAssumption
    <2>3. After(r.buff, MetaEnd(r)) \in Seq(Byte)
      BY <1>4, MetaEndType, Parts DEF Req
    <2>4. ReadBlock(r) = ReadJson[begun]
      BY <1>4 DEF ReadBlock, ReadBody
    <2> HIDE DEF m
    <2>5. begun \in Req
      BY <2>2, <2>3 DEF Req
    <2> QED BY <2>4, <2>5, ReadJsonType
  <1> QED
    BY <1>2, <1>3, <1>4

-----------------------------------------------------------------------------
(* Types *)

\* The socket never holds more than it has room for.
Fits == Len(down) <= Capacity

\* The actions, one by one.
LEMMA Steps ==
  ASSUME [Next]_vars
  PROVE  \/ \E m \in Sends : Send(m)
         \/ Resume \/ TakeChunk \/ Write \/ Read \/ ReadTurn \/ Disconnect
         \/ \E m \in Pushes : Push(m)
         \/ Stop \/ Data \/ Turn
         \/ \E m \in Handled : Return(m)
         \/ UNCHANGED vars
  BY DEF Next, Native, JavaScript, Rest

\* A message given to the channel.
LEMMA ChannelType ==
  ASSUME NEW m \in Message, TypeOK
  PROVE  Append(sent, m) \in Seq(Message) /\ Append(rx, Frame(m)) \in Seq(Bytes)
  <1>1. Frame(m) \in Bytes
    BY FrameType
  <1> QED
    BY <1>1, AppendProperties DEF TypeOK

\* The steps of the write task, and of those who give it messages.
LEMMA TypeWriter ==
  ASSUME TypeOK, Fits, (\E m \in Sends : Send(m)) \/ Resume \/ TakeChunk \/ Write
  PROVE  TypeOK' /\ Fits'
  <1>1. CASE \E m \in Sends : Send(m)
    <2>1. PICK m \in Sends : Send(m)
      BY <1>1
    <2>2. sent' \in Seq(Message) /\ rx' \in Seq(Bytes)
      BY <2>1, ChannelType, UdsAssumption DEF Send
    <2> QED
      BY <2>1, <2>2 DEF Send, TypeOK, Fits, writer, javascript, pushing, readTask
  <1>2. CASE Resume
    BY <1>2 DEF Resume, TypeOK, Fits, channel, javascript, pushing, readTask
  <1>3. CASE TakeChunk
    <2>1. chunk' \in Bytes /\ rx' \in Seq(Bytes)
      BY <1>3, HeadTailProperties DEF TakeChunk, TypeOK
    <2> QED
      BY <1>3, <2>1 DEF TakeChunk, TypeOK, Fits, javascript, pushing, readTask
  <1>4. CASE Write
    <2> DEFINE n == Capacity - Len(down)
    <2>1. n \in Nat
      <3>1. Len(down) \in Nat
        BY LenProperties DEF TypeOK, Bytes
      <3> QED BY <3>1, UdsAssumption DEF Fits
    <2>2. /\ First(chunk, n) \in Seq(Byte) /\ After(chunk, n) \in Seq(Byte)
          /\ Len(First(chunk, n)) <= n
      <3> HIDE DEF n
      <3> QED BY <2>1, Parts DEF TypeOK, Bytes
    <2>3. /\ down \o First(chunk, n) \in Seq(Byte)
          /\ Len(down \o First(chunk, n)) = Len(down) + Len(First(chunk, n))
      <3> HIDE DEF n
      <3> QED BY <2>2, ConcatProperties DEF TypeOK, Bytes
    <2>4. Len(down) \in Nat /\ Len(First(chunk, n)) \in Nat
      BY <2>2, LenProperties DEF TypeOK, Bytes
    <2>5. Len(down \o First(chunk, n)) <= Capacity
      BY <2>2, <2>3, <2>4, UdsAssumption
    <2>6. writing' \in BOOLEAN
      BY <1>4 DEF Write
    <2> QED
      BY <1>4, <2>2, <2>3, <2>5, <2>6
      DEF Write, TypeOK, Fits, Bytes, channel, javascript, pushing, readTask
  <1> QED
    BY <1>1, <1>2, <1>3, <1>4

\* Bytes taken off a stream and added to a reader.
LEMMA AddType ==
  ASSUME NEW r \in Req, NEW s \in Bytes, NEW n \in ReadSizes
  PROVE  Add(r, First(s, n)) \in Req /\ After(s, n) \in Bytes /\ Len(After(s, n)) <= Len(s)
  <1>1. n \in Nat /\ s \in Seq(Byte) /\ r.buff \in Seq(Byte)
    BY UdsAssumption DEF Bytes, Req
  <1>2. First(s, n) \in Seq(Byte) /\ After(s, n) \in Seq(Byte)
    BY <1>1, Parts
  <1>3. r.buff \o First(s, n) \in Seq(Byte)
    BY <1>1, <1>2, ConcatProperties
  <1>4. Len(After(s, n)) <= Len(s)
    BY <1>1, LenProperties, ElementOfSeq, SubSeqProperties DEF After
  <1> QED
    BY <1>2, <1>3, <1>4 DEF Add, Req, Bytes

\* A reader that has given its frame is a reader, and the call has its types.
LEMMA ResetType ==
  ASSUME NEW r \in Req
  PROVE  Reset(r) \in Req
  BY EmptySeq DEF Reset, NewReq, Req

LEMMA CallType ==
  ASSUME NEW r \in Req, NEW S, r.ctx \in S
  PROVE  Call(r) \in [ctx : S, bytes : Bytes]
  BY DEF Call, Req, Bytes

\* The steps of the read task.
LEMMA TypeReadTask ==
  ASSUME TypeOK, Fits, Read \/ ReadTurn \/ Disconnect
  PROVE  TypeOK' /\ Fits'
  <1>1. CASE Read
    <2>1. PICK n \in ReadSizes : reader' = Add(reader, First(up, n)) /\ up' = After(up, n)
      BY <1>1 DEF Read
    <2>2. reader' \in Req /\ up' \in Bytes
      BY <2>1, AddType DEF TypeOK
    <2> QED
      BY <1>1, <2>2 DEF Read, TypeOK, Fits, channel, writer, javascript, pushing
  <1>2. CASE ReadTurn
    <2>1. PICK read \in {ReadBlock(reader)} : Serve(read) \/ Spin(read) \/ Refuse(read)
      BY <1>2 DEF ReadTurn
    <2>2. read.req \in Req
      BY <2>1, ReadBlockType DEF TypeOK, Reads
    <2>3. LoopOn(read.req) \in {"waiting", "looping"}
      BY DEF LoopOn
    <2>4. CASE Serve(read)
      <3>1. reader' \in Req /\ reading' \in {"waiting", "looping", "ended"}
        BY <2>2, <2>3, <2>4, ResetType DEF Serve
      <3>2. /\ sent' \in Seq(Message) /\ rx' \in Seq(Bytes)
            /\ served' \in Seq([ctx : Served, bytes : Bytes])
        <4>1. CASE read.req.ctx \in Served
          <5>1. Reply[read.req.ctx] \in Message
            BY <4>1, UdsAssumption
          <5>2. Call(read.req) \in [ctx : Served, bytes : Bytes]
            BY <2>2, <4>1, CallType
          <5>3. served' = Append(served, Call(read.req))
            BY <2>4, <4>1 DEF Serve
          <5>4. served' \in Seq([ctx : Served, bytes : Bytes])
            BY <5>2, <5>3, AppendProperties DEF TypeOK
          <5> QED BY <2>4, <4>1, <5>1, <5>4, ChannelType DEF Serve
        <4>2. CASE read.req.ctx \notin Served
          BY <2>4, <4>2 DEF Serve, channel, TypeOK
        <4> QED BY <4>1, <4>2
      <3>3. torn' \subseteq {"req", "reader"}
        BY <2>4 DEF Serve, Tear, TypeOK
      <3> QED
        BY <2>4, <3>1, <3>2, <3>3 DEF Serve, TypeOK, Fits, writer, javascript, pushing
    <2>5. CASE Spin(read)
      BY <2>2, <2>3, <2>5 DEF Spin, TypeOK, Fits, channel, writer, javascript, pushing
    <2>6. CASE Refuse(read)
      BY <2>2, <2>6 DEF Refuse, TypeOK, Fits, channel, writer, javascript, pushing
    <2> QED BY <2>1, <2>4, <2>5, <2>6
  <1>3. CASE Disconnect
    BY <1>3 DEF Disconnect, TypeOK, Fits, channel, writer, javascript, pushing
  <1> QED
    BY <1>1, <1>2, <1>3

\* The steps of JavaScript.
LEMMA TypeJavaScript ==
  ASSUME TypeOK, Fits,
         \/ \E m \in Pushes : Push(m)
         \/ Stop \/ Data \/ Turn
         \/ \E m \in Handled : Return(m)
  PROVE  TypeOK' /\ Fits'
  <1> USE DEF native, channel, writer, javascript, pushing, readTask
  <1>1. CASE \E m \in Pushes : Push(m)
    <2>1. PICK m \in Pushes : Push(m)
      BY <1>1
    <2>2. m \in Message /\ Frame(m) \in Seq(Byte)
      BY FrameType, UdsAssumption DEF Bytes
    <2>3. pushed' \in Seq(Message) /\ up' \in Bytes
      BY <2>1, <2>2, AppendProperties, ConcatProperties DEF Push, TypeOK, Bytes
    <2> QED
      BY <2>1, <2>3 DEF Push, TypeOK, Fits
  <1>2. CASE Stop
    BY <1>2 DEF Stop, TypeOK, Fits
  <1>3. CASE Data
    <2>1. PICK n \in ReadSizes : req' = Add(req, First(down, n)) /\ down' = After(down, n)
      BY <1>3 DEF Data
    <2>2. req' \in Req /\ down' \in Bytes /\ Len(down') <= Len(down)
      BY <2>1, AddType DEF TypeOK
    <2>3. Len(down) \in Nat /\ Len(down') \in Nat
      BY <2>2, LenProperties DEF TypeOK, Bytes
    <2>4. Len(down') <= Capacity
      BY <2>2, <2>3, UdsAssumption DEF Fits
    <2> QED
      BY <1>3, <2>2, <2>4 DEF Data, TypeOK, Fits
  <1>4. CASE Turn
    <2>1. PICK read \in {ReadBlock(req)} : Dispatch(read) \/ Incomplete(read) \/ Reject(read)
      BY <1>4 DEF Turn
    <2>2. read.req \in Req /\ read.res \in Results
      BY <2>1, ReadBlockType DEF TypeOK, Reads
    <2>3. CASE Dispatch(read)
      <3>1. req' \in Req /\ looping' \in BOOLEAN
        BY <2>2, <2>3, ResetType DEF Dispatch, IsEmpty
      <3>2. handling' \subseteq Handled /\ dispatched' \in Seq([ctx : Handled, bytes : Bytes])
        <4>1. CASE read.req.ctx \in Handled
          <5>1. Call(read.req) \in [ctx : Handled, bytes : Bytes]
            BY <2>2, <4>1, CallType
          <5>2. dispatched' = Append(dispatched, Call(read.req))
            BY <2>3, <4>1 DEF Dispatch
          <5>3. dispatched' \in Seq([ctx : Handled, bytes : Bytes])
            BY <5>1, <5>2, AppendProperties DEF TypeOK
          <5> QED BY <2>3, <4>1, <5>3 DEF Dispatch, TypeOK
        <4>2. CASE read.req.ctx \notin Handled
          BY <2>3, <4>2 DEF Dispatch, TypeOK
        <4> QED BY <4>1, <4>2
      <3>3. torn' \subseteq {"req", "reader"}
        BY <2>3 DEF Dispatch, Tear, TypeOK
      <3> QED
        BY <2>3, <3>1, <3>2, <3>3 DEF Dispatch, TypeOK, Fits
    <2>4. CASE Incomplete(read)
      BY <2>2, <2>4 DEF Incomplete, TypeOK, Fits, IsEmpty
    <2>5. CASE Reject(read)
      <3>1. exited' \in Results \ {"frame", "null"}
        BY <2>2, <2>5 DEF Reject
      <3> QED BY <2>2, <2>5, <3>1 DEF Reject, Results, TypeOK, Fits
    <2> QED BY <2>1, <2>3, <2>4, <2>5
  <1>5. CASE \E m \in Handled : Return(m)
    BY <1>5 DEF Return, TypeOK, Fits, IsEmpty
  <1> QED
    BY <1>1, <1>2, <1>3, <1>4, <1>5

LEMMA TypeInit == Init => TypeOK /\ Fits
  <1> SUFFICES ASSUME Init PROVE TypeOK /\ Fits
    OBVIOUS
  <1>1. << >> \in Bytes /\ << >> \in Seq(Message) /\ << >> \in Seq(Bytes)
        /\ << >> \in Seq([ctx : Handled, bytes : Bytes])
        /\ << >> \in Seq([ctx : Served, bytes : Bytes])
    BY EmptySeq DEF Bytes
  <1>2. NewReq \in Req
    BY EmptySeq DEF NewReq, Req
  <1>3. Fits
    BY EmptySeq, UdsAssumption DEF Init, Fits
  <1> QED BY <1>1, <1>2, <1>3 DEF Init, TypeOK

\* Every variable keeps its type, whatever the messages, the lengths of their parts,
\* the reads and the workers.
THEOREM TypeCorrect == Spec => [](TypeOK /\ Fits)
  <1>1. TypeOK /\ Fits /\ [Next]_vars => (TypeOK /\ Fits)'
    <2> SUFFICES ASSUME TypeOK, Fits, [Next]_vars PROVE (TypeOK /\ Fits)'
      OBVIOUS
    <2>1. CASE UNCHANGED vars
      BY <2>1 DEF vars, TypeOK, Fits
    <2> QED
      BY <2>1, Steps, TypeWriter, TypeReadTask, TypeJavaScript
  <1> QED
    BY <1>1, TypeInit, PTL DEF Spec

-----------------------------------------------------------------------------
(* Nobody is left behind *)

\* The steps of the native end: the read task stops looping only with an empty reader.
LEMMA StrandedNative ==
  ASSUME NoStrandedFrame,
         \/ \E m \in Sends : Send(m)
         \/ Resume \/ TakeChunk \/ Write \/ Read \/ ReadTurn \/ Disconnect
  PROVE  NoStrandedFrame'
  <1> USE DEF NoStrandedFrame, Running, channel, writer, javascript, pushing, readTask
  <1>1. CASE (\E m \in Sends : Send(m)) \/ Resume \/ TakeChunk \/ Write
    <2>1. UNCHANGED <<req, looping, handling, reading, reader, exited>>
      BY <1>1 DEF Send, Resume, TakeChunk, Write
    <2> QED BY <2>1 DEF IsEmpty
  <1>2. CASE Read
    BY <1>2 DEF Read, IsEmpty
  <1>3. CASE Disconnect
    BY <1>3 DEF Disconnect, IsEmpty
  <1>4. CASE ReadTurn
    <2>1. PICK read \in {ReadBlock(reader)} :
            Running /\ (Serve(read) \/ Spin(read) \/ Refuse(read))
      BY <1>4 DEF ReadTurn
    <2>2. CASE Serve(read)
      BY <2>1, <2>2 DEF Serve, Reset, LoopOn, IsEmpty, NewReq
    <2>3. CASE Spin(read)
      BY <2>1, <2>3 DEF Spin, LoopOn, IsEmpty
    <2>4. CASE Refuse(read)
      BY <2>4 DEF Refuse
    <2> QED BY <2>1, <2>2, <2>3, <2>4
  <1> QED
    BY <1>1, <1>2, <1>3, <1>4

\* The steps of JavaScript: the loop of a data event stops with an empty reader, or
\* suspended in front of a handler that will bring it back.
LEMMA StrandedJavaScript ==
  ASSUME TypeOK, NoStrandedFrame,
         \/ \E m \in Pushes : Push(m)
         \/ Stop \/ Data \/ Turn
         \/ \E m \in Handled : Return(m)
  PROVE  NoStrandedFrame'
  <1> USE DEF NoStrandedFrame, Running, Idle, native, channel, writer, javascript,
              pushing, readTask
  <1>1. CASE (\E m \in Pushes : Push(m)) \/ Stop
    <2>1. UNCHANGED <<req, looping, handling, reading, reader, exited>>
      BY <1>1 DEF Push, Stop
    <2> QED BY <2>1 DEF IsEmpty
  <1>2. CASE Data
    BY <1>2 DEF Data, IsEmpty
  <1>3. CASE \E m \in Handled : Return(m)
    BY <1>3 DEF Return, IsEmpty
  <1>4. CASE Turn
    <2>1. PICK read \in {ReadBlock(req)} :
            Running /\ (Dispatch(read) \/ Incomplete(read) \/ Reject(read))
      BY <1>4 DEF Turn
    <2>2. CASE Dispatch(read)
      BY <2>1, <2>2 DEF Dispatch, Reset, IsEmpty, NewReq
    <2>3. CASE Incomplete(read)
      BY <2>1, <2>3 DEF Incomplete, IsEmpty
    <2>4. CASE Reject(read)
      <3>1. read.res \in Results /\ exited' = read.res
        BY <2>1, <2>4, ReadBlockType DEF Reject, TypeOK, Reads
      <3> QED BY <3>1 DEF Results
    <2> QED BY <2>1, <2>2, <2>3, <2>4
  <1> QED
    BY <1>1, <1>2, <1>3, <1>4

\* Bytes stay in the reader of JavaScript only while a data event is in its loop or
\* suspended in front of it, those of the read task only while it loops
\* (index.ts:275-294, uds.rs:364-412).
THEOREM NoFrameStranded == Spec => []NoStrandedFrame
  <1>1. Init => NoStrandedFrame
    BY DEF Init, NewReq, IsEmpty, NoStrandedFrame
  <1>2. TypeOK /\ NoStrandedFrame /\ [Next]_vars => NoStrandedFrame'
    <2> SUFFICES ASSUME TypeOK, NoStrandedFrame, [Next]_vars PROVE NoStrandedFrame'
      OBVIOUS
    <2>1. CASE UNCHANGED vars
      BY <2>1 DEF vars, NoStrandedFrame, Running, IsEmpty
    <2> QED
      BY <2>1, Steps, StrandedNative, StrandedJavaScript
  <1> QED
    BY <1>1, <1>2, TypeCorrect, PTL DEF Spec
=============================================================================
