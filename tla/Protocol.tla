------------------------------ MODULE Protocol ------------------------------
(***************************************************************************)
(* class Protocol of src/tcppipe.hpp, and TcpClient::send(destination,     *)
(* data), which builds a message.  parse is the way back; nothing calls it *)
(* yet.  A string is a sequence of the tokens that the two tell apart: the *)
(* comma, the words before the four fields, and anything else.             *)
(***************************************************************************)
EXTENDS Integers, Sequences

CONSTANTS
  Tokens,       \* of a destination and of data; a comma is the token "comma"
  MaxLen        \* bound: tokens in each

Strings == UNION {[1 .. n -> Tokens] : n \in 0 .. MaxLen}

VARIABLES
  destination, data,    \* what send is called with
  message,              \* what build makes of it
  result                \* what parse makes of that: none yet, an exception,
                        \* or the four fields

vars == <<destination, data, message, result>>

Init ==
  /\ destination \in Strings /\ data \in Strings
  /\ message = <<>> /\ result = [is |-> "none"]
-----------------------------------------------------------------------------
Build(f) ==
  <<"service:">> \o f[1] \o <<"comma">> \o <<"from:">> \o f[2] \o <<"comma">>
    \o <<"to:">> \o f[3] \o <<"comma">> \o <<"content:">> \o f[4]

Least(S) == CHOOSE i \in S : \A j \in S : i <= j
Places(s, t) == {i \in DOMAIN s : s[i] = t}

(* The first three pieces of a message that has a comma behind each.       *)
Split(s) ==
  LET cut1 == Least(Places(s, "comma"))
      cut2 == Least(Places(s, "comma") \ {cut1})
      cut3 == Least(Places(s, "comma") \ {cut1, cut2})
  IN  << SubSeq(s, 1, cut1 - 1),
         SubSeq(s, cut1 + 1, cut2 - 1),
         SubSeq(s, cut2 + 1, cut3 - 1) >>

Has(s, t) == Places(s, t) # {}
From(s, t) == SubSeq(s, Least(Places(s, t)), Len(s))

Thrown == [is |-> "thrown"]

(* Broken variant of Parse.                                                *)
ParseWhole(s) ==
  LET v == Split(s) IN
  IF Has(v[1], "service:") /\ Has(v[2], "from:") /\ Has(v[3], "to:")
       /\ Has(s, "content:")
  THEN [is |-> "fields",
        service |-> From(v[1], "service:"), from |-> From(v[2], "from:"),
        to |-> From(v[3], "to:"), content |-> From(s, "content:")]
  ELSE Thrown

(* parse: substr throws at the position find answers when a word is not    *)
(* there.  The content is looked for in the piece of the destination.      *)
Parse(s) ==
  LET v == Split(s) IN
  IF Has(v[1], "service:") /\ Has(v[2], "from:") /\ Has(v[3], "to:")
       /\ Has(v[3], "content:")
  THEN [is |-> "fields",
        service |-> From(v[1], "service:"), from |-> From(v[2], "from:"),
        to |-> From(v[3], "to:"), content |-> From(v[3], "content:")]
  ELSE Thrown

(* The address of the socket has no comma and none of the words. *)
Send ==
  /\ message = <<>>
  /\ message' = Build(<< <<"forward">>, <<"address">>, destination, data >>)
  /\ UNCHANGED <<destination, data, result>>

Receive ==
  /\ message # <<>> /\ result.is = "none"
  /\ result' = Parse(message)
  /\ UNCHANGED <<destination, data, message>>

Next == Send \/ Receive

Spec == Init /\ [][Next]_vars
-----------------------------------------------------------------------------
(* The destination up to its first comma: the rest is behind the piece.    *)
Piece ==
  IF Has(destination, "comma")
  THEN SubSeq(destination, 1, Least(Places(destination, "comma")) - 1)
  ELSE destination

(* What build made, parse throws on, unless the destination has the word   *)
(* content: in it; then the content it finds is the rest of the            *)
(* destination, and the data that was sent has no part in it.              *)
DataNeverArrives ==
  /\ result.is = "thrown" => ~Has(Piece, "content:")
  /\ result.is = "fields" =>
       Has(Piece, "content:") /\ result.content = From(Piece, "content:")
=============================================================================
