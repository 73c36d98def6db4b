----------------------------- MODULE FrameReader -----------------------------
(***************************************************************************)
(* UnixDomainSocketReq: the incremental reader of frames                   *)
(* "<json length>+<binary length>:<json><binary>" from a byte stream, the  *)
(* same in native/src/ipc/uds.rs and in src/ipc/uds/index.ts (which leaves *)
(* the buffer alone where a meta is refused; the process then exits). The  *)
(* reader is a record; each method is an operator on it.                   *)
(*                                                                         *)
(* A byte is known by the frame it was written for and its place there, so *)
(* bytes joined across a frame boundary are told from an intact part.      *)
(***************************************************************************)
EXTENDS Naturals, Sequences

CONSTANTS
  Message,       \* messages, each written as one frame
  MetaLength,    \* bytes of the meta, the closing ":" included
  JsonLength,    \* JsonLength[m]: bytes of the JSON of m
  BinaryLength,  \* BinaryLength[m]: bytes that follow it
  BodyColons,    \* BodyColons[m]: places behind the meta of m that hold a ":"
  MaxMeta,       \* longest buffer that may lack a ":" (8192)
  None           \* absent value

ASSUME FrameAssumption ==
  /\ MetaLength \in Nat \ {0}
  /\ JsonLength \in [Message -> Nat \ {0}]
  /\ BinaryLength \in [Message -> Nat]
  /\ BodyColons \in [Message -> SUBSET (Nat \ {0})]
  /\ MaxMeta \in Nat
  /\ MetaLength <= MaxMeta
  /\ None \notin Message

Byte == [of : Message, at : Nat]

\* The frame that push writes for m, and its parts.
Frame(m) == [i \in 1 .. MetaLength + JsonLength[m] + BinaryLength[m] |->
               [of |-> m, at |-> i]]
Meta(m) == SubSeq(Frame(m), 1, MetaLength)
Json(m) == SubSeq(Frame(m), MetaLength + 1, MetaLength + JsonLength[m])
Binary(m) == SubSeq(Frame(m), MetaLength + JsonLength[m] + 1, Len(Frame(m)))

First(s, n) == SubSeq(s, 1, IF n < Len(s) THEN n ELSE Len(s))
After(s, n) == SubSeq(s, n + 1, Len(s))

Req == [has_meta : BOOLEAN, json_length : Nat, binary_length : Nat,
        ctx : Message \cup {None}, binary : Seq(Byte), buff : Seq(Byte)]

NewReq == [has_meta |-> FALSE, json_length |-> 0, binary_length |-> 0,
           ctx |-> None, binary |-> << >>, buff |-> << >>]

\* Bug: the new bytes take the place of those not read yet.
AddBug(req, bytes) == [req EXCEPT !.buff = bytes]

Add(req, bytes) == [req EXCEPT !.buff = @ \o bytes]

IsEmpty(req) == req.buff = << >>

\* Places of a ":", of a meta or of what follows one.
IsColon(byte) ==
  byte.at = MetaLength \/ \E i \in BodyColons[byte.of] : byte.at = MetaLength + i
Colons(req) == {i \in DOMAIN req.buff : IsColon(req.buff[i])}
MetaEnd(req) == CHOOSE i \in Colons(req) : \A j \in Colons(req) : i <= j

\* The meta before it; text of a JSON or binary part is not taken for one by accident.
Metas(req) == {m \in Message : First(req.buff, MetaEnd(req)) = Meta(m)}
Jsons(req) == {m \in Message : First(req.buff, req.json_length) = Json(m)}

\* Results of a read: a whole frame (1), no frame yet (null), an error string.
Result(res, req) == [res |-> res, req |-> req]
Cleared(req) == [req EXCEPT !.buff = << >>]

\* Bug: one byte of the binary part stays in the buffer.
ReadBinaryBug(req) ==
  IF req.binary_length # 0 /\ Len(req.buff) >= req.binary_length
  THEN Result("frame", [req EXCEPT
         !.binary = First(req.buff, req.binary_length),
         !.buff = After(req.buff, req.binary_length - 1)])
  ELSE Result("null", req)

\* The binary part: the last step of read_body, also in front of a JSON that is not
\* all there. Then ctx is still None (the topic is "", and has no handler).
ReadBinary(req) ==
  IF req.binary_length # 0 /\ Len(req.buff) >= req.binary_length
  THEN Result("frame", [req EXCEPT
         !.binary = First(req.buff, req.binary_length),
         !.buff = After(req.buff, req.binary_length)])
  ELSE Result("null", req)

\* The JSON part. A frame whose JSON was taken by an earlier call is not
\* remembered: json_length still holds and the next bytes are parsed as JSON.
ReadJson[req \in Req] ==
  IF Len(req.buff) < req.json_length THEN ReadBinary(req)
  ELSE IF Jsons(req) = {} THEN Result("Invalid JSON.", Cleared(req))
  ELSE LET taken == [req EXCEPT
             !.ctx = CHOOSE m \in Jsons(req) : TRUE,
             !.buff = After(req.buff, req.json_length)]
       IN  IF req.binary_length = 0 THEN Result("frame", taken)
                                    ELSE ReadBinary(taken)

ReadBody(req) ==
  IF req.has_meta THEN ReadJson[req]
  ELSE IF Colons(req) = {}
       THEN IF Len(req.buff) > MaxMeta
            THEN Result("The maximum size of the meta has been exceeded.",
                        Cleared(req))
            ELSE Result("null", req)
  ELSE IF Metas(req) = {} THEN Result("Invalid meta.", Cleared(req))
  ELSE LET m == CHOOSE m \in Metas(req) : TRUE
       IN  ReadJson[[req EXCEPT !.has_meta = TRUE,
                                !.json_length = JsonLength[m],
                                !.binary_length = BinaryLength[m],
                                !.buff = After(req.buff, MetaEnd(req))]]

\* has_body is set only together with the result "frame", and the caller then
\* calls reset: read_block always reads a body.
ReadBlock(req) == ReadBody(req)

\* Bugs: the binary part, or the mark that a meta was read, outlives its frame.
ResetBinaryBug(req) == [NewReq EXCEPT !.buff = req.buff, !.binary = req.binary]
ResetMetaBug(req) == [NewReq EXCEPT !.buff = req.buff, !.has_meta = req.has_meta,
                                    !.json_length = req.json_length]

Reset(req) == [NewReq EXCEPT !.buff = req.buff]

-----------------------------------------------------------------------------
(* What the properties of readers speak of *)

\* The JSON of the frame was taken by an earlier call.
AwaitsBinary(req) == req.has_meta /\ req.ctx # None

\* Bytes the reader has taken of the frame it is in.
Taken(req) == IF ~req.has_meta THEN 0
              ELSE IF req.ctx = None THEN MetaLength ELSE MetaLength + req.json_length

\* The buffer is the beginning of what is left of some frame, and not all of it.
Begun(req) ==
  /\ ~IsEmpty(req)
  /\ \E m \in Message : LET left == After(Frame(m), Taken(req))
                        IN  Len(req.buff) < Len(left) /\ First(left, Len(req.buff)) = req.buff
=============================================================================
