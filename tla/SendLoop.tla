------------------------------ MODULE SendLoop ------------------------------
(***************************************************************************)
(* The two loops around send(2) of this repository: sendMessage of         *)
(* tcpserver/src/socket.hpp, which the server and the client daemon send   *)
(* their packets with, and sendMessage of src/tcppipe.hpp, for strings.    *)
(* The kernel takes as much of what a send offers as it likes.             *)
(***************************************************************************)
EXTENDS Integers

CONSTANTS
  MaxLen,       \* MAX_PAYLOAD_LEN and max_buffer_len
  SendSizes     \* the sizes of messages

ASSUME SendLoopAssumption == MaxLen \in Nat \ {0} /\ SendSizes \subseteq Nat

VARIABLES
  loop,         \* the function: "packet" or "string"
  size,         \* dataSize, or content.size()
  pos,          \* the bytes the kernel has taken
  past,         \* history: the end of the furthest range given to send
  whole,        \* history: every send took all it was offered
  result,       \* what the function for strings returns
  done

sendVars == <<loop, size, pos, past, whole, result, done>>

SendInit ==
  /\ loop \in {"packet", "string"} /\ size \in SendSizes
  /\ pos = 0 /\ past = 0 /\ whole = TRUE
  /\ result = FALSE /\ done = FALSE

(* A send of len bytes, of which the kernel takes some.                    *)
Offer(len) ==
  /\ \E taken \in 1 .. len :
       /\ pos' = pos + taken
       /\ whole' = (whole /\ taken = len)
  /\ past' = IF pos + len > past THEN pos + len ELSE past
  /\ UNCHANGED <<loop, size>>
-----------------------------------------------------------------------------
(* Broken variant of Room.                                                 *)
RoomSum(res) == IF res >= MaxLen THEN MaxLen ELSE MaxLen + res

(* bufLen: near the end it is what the data leaves of MAX_PAYLOAD_LEN, and *)
(* not what is left of the data.                                           *)
Room(res) == IF res >= MaxLen THEN MaxLen ELSE MaxLen - res

(* A send that fails is repeated: it changes nothing.                      *)
PacketSends ==
  /\ loop = "packet" /\ ~done /\ pos < size
  /\ Offer(Room(size - pos))
  /\ UNCHANGED <<result, done>>

PacketEnds ==
  /\ loop = "packet" /\ ~done /\ pos >= size
  /\ done' = TRUE
  /\ UNCHANGED <<loop, size, pos, past, whole, result>>

(* A string shorter than the buffer: one send, which may fail.             *)
StringShort ==
  /\ loop = "string" /\ ~done /\ size < MaxLen
  /\ \/ Offer(size) /\ result' = (pos' = size)
     \/ /\ result' = FALSE \/ (size = 0 /\ result' = TRUE)
        /\ UNCHANGED <<loop, size, pos, past, whole>>
  /\ done' = TRUE

(* A longer one: a whole buffer from pos on, whatever is left of it.       *)
StringSends ==
  /\ loop = "string" /\ ~done /\ size >= MaxLen /\ pos < size
  /\ Offer(MaxLen)
  /\ UNCHANGED <<result, done>>

(* The end of the loop, or its break on a send that fails.                 *)
StringEnds ==
  /\ loop = "string" /\ ~done /\ size >= MaxLen
  /\ result' = (pos = size)
  /\ done' = TRUE
  /\ UNCHANGED <<loop, size, pos, past, whole>>

SendNext == PacketSends \/ PacketEnds \/ StringShort \/ StringSends \/ StringEnds

SendSpec == SendInit /\ [][SendNext]_sendVars
-----------------------------------------------------------------------------
(* The positions never become negative, whatever send returned.            *)
SendTypeOK ==
  /\ loop \in {"packet", "string"} /\ size \in SendSizes
  /\ pos \in Nat /\ past \in Nat
  /\ whole \in BOOLEAN /\ result \in BOOLEAN /\ done \in BOOLEAN

(* The packet loop never offers an empty range, which the kernel would     *)
(* take without any progress: a loop whose sends succeed comes to its end. *)
NeverOffersNothing ==
  loop = "packet" /\ pos < size => Room(size - pos) \in 1 .. MaxLen

(* Neither loop stays within its data, but a range given to send runs past *)
(* the end of it by less than one buffer.                                  *)
PastIsBounded == past < size + MaxLen

(* The packets of the server and the client, whose size is the buffer's,   *)
(* are sent exactly and never overread unless the kernel takes a part.     *)
PacketsAreExact ==
  loop = "packet" /\ size = MaxLen /\ whole => past <= size /\ pos <= size

(* A string is reported as sent only when the kernel took exactly it.      *)
TrueIsExact == loop = "string" /\ result => pos = size

(* What the two loops guarantee whatever the sizes and the kernel are: how *)
(* far they read, that they go on, and what exact packets and true answers *)
(* mean.                                                                   *)
LoopsAreBounded ==
  /\ SendTypeOK
  /\ NeverOffersNothing /\ PastIsBounded /\ PacketsAreExact /\ TrueIsExact
=============================================================================
