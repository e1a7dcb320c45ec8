--------------------------- MODULE MCAnswerReader ---------------------------
(* AnswerReader on streams of a few frames of each kind.                     *)
EXTENDS AnswerReader

F(k, l) == [kind |-> k, len |-> l]

Sent == {F("beat", 3), F("write", 8), F("exception", 5), F("read", 7), F("read", 9)}

(* Altered bytes may look like any of these, or like a tcp package, which    *)
(* may be longer than the buffer.                                            *)
AnyBytes == Sent \cup {F("read", 20), F("tcp", 12), F("tcp", 30)}
=============================================================================
