----------------------------- MODULE FrameQueue -----------------------------
(* What reading from a DTU promises: the frames it sent are handled one by   *)
(* one, in the order sent, none split, joined or handled twice.  When the    *)
(* line alters bytes, frames may be lost, but an answer that is parsed is    *)
(* still one that was sent.  Nothing is promised of a reader that is broken. *)
EXTENDS Sequences, Integers

CONSTANTS Frames, Answers   \* Answers: the frames with values in them

VARIABLES
    sent,     \* the frames sent and not handled
    parsed,   \* the answer in the last frame handled
    noisy,    \* the line has altered something
    broken    \* the reader's own behaviour is undefined

vars == <<sent, parsed, noisy, broken>>

Init ==
    /\ sent \in Seq(Frames) /\ parsed = {} /\ (sent = <<>> \/ noisy)
    /\ ~broken

Send ==
    /\ \E f \in Frames : sent' = Append(sent, f)
    /\ noisy' \in {noisy, TRUE} /\ UNCHANGED <<parsed, broken>>

Handle ==
    /\ sent # <<>> /\ sent' = Tail(sent)
    /\ parsed' = {Head(sent)} \cap Answers
    /\ UNCHANGED <<noisy, broken>>

Lose ==
    /\ noisy /\ parsed' \in {parsed, {}}
    /\ \E k \in 0..Len(sent) : sent' = SubSeq(sent, k + 1, Len(sent))
    /\ UNCHANGED <<noisy, broken>>

(* Only a line that has altered something breaks the reader; it stays so.    *)
Broken == noisy /\ broken'

Next == Send \/ Handle \/ Lose \/ Broken

Spec == Init /\ [][Next]_vars
=============================================================================
