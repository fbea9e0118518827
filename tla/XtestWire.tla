------------------------------- MODULE XtestWire -------------------------------
(***************************************************************************)
(* The frames between the daemon and its guardian                          *)
(* (xtest_guardian/protocol.rs).  A frame is a sequence of bytes: a header *)
(* of 17, and the fields of the message in a fixed order, big-endian.  A   *)
(* message is its kind and its fields; a number is its big-endian bytes,   *)
(* and a field with alternatives is its tag and the number that follows,   *)
(* of no bytes if none does.                                               *)
(***************************************************************************)
EXTENDS Integers, Sequences, SequencesExt

Magic == <<79, 83, 88, 71>>
ProtocolVersion == 1
HeaderBytes == 17
MaxFrameBytes == 128
Bad == [kind |-> 0, fields |-> << >>]   \* the error of decode_frame

----------------------------------------------------------------------------
(* Fields.                                                                 *)

\* PreparedToken: session, epoch, token id, evdev code, X11 keycode.
Token == <<"id", "id", "u64", "u16", "u8">>

RequestKinds == 1..9
ResponseKinds == 101..110

\* The fields of a kind, in the order of encode_message.
Format(kind) ==
  CASE kind = 1 -> <<"id", "u64">>                                  \* Hello
    [] kind = 2 -> <<"u64", "u16", "u64">>                          \* PrepareKey
    [] kind = 3 -> <<"u64">> \o Token \o <<"u64">>                  \* ExecuteDown
    [] kind = 4 -> <<"u64">> \o Token \o <<"deadline">>             \* KeyUp
    [] kind = 5 -> <<"u64", "u64", "deadline">>                     \* Synchronize
    [] kind \in {6, 7} -> <<"u64">> \o Token \o <<"u64", "u64">>    \* Transfer, Committed
    [] kind = 8 -> <<"u64", "u64">>                                 \* CancelAndDrain
    [] kind = 9 -> <<"u64">>                                        \* ReleaseAllAndExit
    [] kind = 101 -> <<"id", "id", "u32", "id">>                    \* Ready
    [] kind = 102 -> <<"u64">> \o Token                             \* Prepared
    [] kind \in 103..107 -> <<"u64", "u64">>                        \* the acknowledgements
    [] kind = 108 -> <<"u64", "proof">>                             \* Drained
    [] kind = 109 -> <<"proof">>                                    \* Stopped
    [] kind = 110 -> <<"fatal">>                                    \* Fatal

\* Bytes of a plain field.
Width == [u8 |-> 1, u16 |-> 2, u32 |-> 4, u64 |-> 8, id |-> 16]

\* ReleaseDeadline, WireTerminalProof and FatalCode: their tags, and the field
\* that follows one ("" for none).
Follows ==
  [deadline |-> <<"u64", "u64">>, proof |-> <<"", "u64", "u16">>,
   fatal |-> <<"", "", "", "", "", "", "">>]

\* push_u8 to push_u64 and to_be_bytes, for numbers below 256.
Push(value, width) == [i \in 1..width |-> IF i = width THEN value ELSE 0]

\* encode_release_deadline, encode_terminal_proof, encode_fatal_code, push_bytes.
EncodeField(type, value) == IF type \in DOMAIN Width THEN value ELSE <<value[1]>> \o value[2]

\* The decoder: where it stands, what it has read, and whether it may go on.
ReadArray(d, bytes, width) ==
  IF d.offset + width <= Len(bytes)
  THEN [offset |-> d.offset + width, ok |-> d.ok,
        value |-> SubSeq(bytes, d.offset + 1, d.offset + width)]
  ELSE [offset |-> d.offset, ok |-> FALSE, value |-> << >>]

\* read_u8 to read_u64, decode_release_deadline, decode_terminal_proof and
\* decode_fatal_code: a tag outside its range is an error.
DecodeField(d, bytes, type) ==
  IF type \in DOMAIN Width
  THEN LET r == ReadArray(d, bytes, Width[type])
       IN [offset |-> r.offset, ok |-> r.ok, fields |-> Append(d.fields, r.value)]
  ELSE LET tag == ReadArray(d, bytes, 1)
           known == tag.ok /\ tag.value[1] \in DOMAIN Follows[type]
           rest == IF known THEN Follows[type][tag.value[1]] ELSE ""
           r == IF rest = "" THEN [tag EXCEPT !.value = << >>]
                ELSE ReadArray([d EXCEPT !.offset = tag.offset], bytes, Width[rest])
       IN [offset |-> r.offset, ok |-> known /\ r.ok,
           fields |-> Append(d.fields, <<IF known THEN tag.value[1] ELSE 0, r.value>>)]

----------------------------------------------------------------------------
(* Frames.                                                                 *)

EncodeMessage(m) ==
  FoldLeftDomain(LAMBDA acc, i : acc \o EncodeField(Format(m.kind)[i], m.fields[i]),
                 << >>, m.fields)

\* encode_frame.
EncodeFrame(sequence, m) ==
  LET payload == EncodeMessage(m)
  IN Magic \o Push(ProtocolVersion, 2) \o <<m.kind>> \o Push(Len(payload), 2)
     \o sequence \o payload

\* Mutant: bytes after the last field are ignored.
DecodePrefix(kind, payload) ==
  IF kind \notin RequestKinds \cup ResponseKinds THEN Bad
  ELSE LET d == FoldLeft(LAMBDA acc, type : IF acc.ok THEN DecodeField(acc, payload, type) ELSE acc,
                         [offset |-> 0, ok |-> TRUE, fields |-> << >>], Format(kind))
       IN IF d.ok THEN [kind |-> kind, fields |-> d.fields] ELSE Bad

\* decode_message and finish: every field is there and no byte is left over.
DecodeMessage(kind, payload) ==
  IF kind \notin RequestKinds \cup ResponseKinds THEN Bad
  ELSE LET d == FoldLeft(LAMBDA acc, type : IF acc.ok THEN DecodeField(acc, payload, type) ELSE acc,
                         [offset |-> 0, ok |-> TRUE, fields |-> << >>], Format(kind))
       IN IF d.ok /\ d.offset = Len(payload) THEN [kind |-> kind, fields |-> d.fields] ELSE Bad

\* decode_frame: the sequence and the message, or Bad.
DecodeFrame(frame) ==
  LET sequence == SubSeq(frame, 10, 17)
      valid == /\ HeaderBytes <= Len(frame) /\ Len(frame) <= MaxFrameBytes
               /\ SubSeq(frame, 1, 4) = Magic
               /\ SubSeq(frame, 5, 6) = Push(ProtocolVersion, 2)
               /\ 256 * frame[8] + frame[9] = Len(frame) - HeaderBytes
               /\ sequence # Push(0, 8)
  IN [sequence |-> sequence,
      message |-> IF valid THEN DecodeMessage(frame[7], SubSeq(frame, 18, Len(frame))) ELSE Bad]

----------------------------------------------------------------------------
(* Messages and damaged frames to check the decoder on.                    *)

\* The tags of a kind, and fields that are told apart by their last byte.
Tags(kind) == UNION {DOMAIN Follows[type] : type \in Range(Format(kind)) \cap DOMAIN Follows}

Field(type, tag, i) ==
  IF type \in DOMAIN Width THEN Push(i, Width[type])
  ELSE <<tag, IF Follows[type][tag] = "" THEN << >> ELSE Push(i, Width[Follows[type][tag]])>>

Messages ==
  UNION {{[kind |-> k, fields |-> [i \in DOMAIN Format(k) |-> Field(Format(k)[i], tag, i)]] :
            tag \in IF Tags(k) = {} THEN {0} ELSE Tags(k)} :
         k \in RequestKinds \cup ResponseKinds}

\* A byte changed, or the payload one byte shorter or longer with a length in
\* the header that agrees.
Damaged(frame) ==
  LET resized(f) == [f EXCEPT ![9] = Len(f) - HeaderBytes]
  IN {[frame EXCEPT ![p] = b] : p \in 1..Len(frame), b \in {0, 1, 2, 3, 104}}
     \cup {resized(Append(frame, 0)), resized(SubSeq(frame, 1, Len(frame) - 1)),
           Append(frame, 0), SubSeq(frame, 1, Len(frame) - 1)}

\* A frame of a message is read as that message, and a damaged frame is turned
\* down or is the frame of just the message that is read: no bytes are ignored
\* and no two frames mean the same.
EveryFrameIsExact ==
  \A m \in Messages :
    LET frame == EncodeFrame(Push(1, 8), m)
    IN /\ DecodeFrame(frame) = [sequence |-> Push(1, 8), message |-> m]
       /\ \A f \in Damaged(frame) :
            LET r == DecodeFrame(f)
            IN r.message = Bad \/ EncodeFrame(r.sequence, r.message) = f
================================================================================
