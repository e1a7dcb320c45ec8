---------------------------- MODULE AnswerReader ----------------------------
(* How a session cuts the bytes of a DTU into packages: readReg and          *)
(* checkReg for the registration package, then read, checkMsg and checkMP    *)
(* for heartbeats and Modbus answers.  The socket hands over any number of   *)
(* the bytes asked for.                                                      *)
(*                                                                           *)
(* The bytes that checkMsg looks at come from a frame of the DTU; a frame is *)
(* abstracted to its kind and length.                                        *)
EXTENDS Integers, Sequences

CONSTANTS
    Frames,     \* the frames a DTU sends once it is registered
    Altered,    \* what the first bytes of an altered frame may look like
    Buffer,     \* the bytes _data has room for: BUFSIZE
    MaxFrames,  \* bound: frames sent after the registration package
    Faults      \* see FaultKinds

(* early: the DTU sends a heartbeat before it registers.  noise: the line    *)
(* alters bytes of a frame.                                                  *)
FaultKinds == {"early", "noise"}

Kinds == {"reg", "beat", "write", "exception", "read", "tcp"}

(* len: the bytes of the frame; of a "tcp" frame what its header says.       *)
Frame == [kind : Kinds, len : Nat]

RegistSize == 19
HeaderLen == 3
TcpHeaderLen == 7
TcpLimit == 65535   \* its length takes two bytes

Registration == [kind |-> "reg", len |-> RegistSize]
Heartbeat == [kind |-> "beat", len |-> HeaderLen]

ASSUME ReaderAssumption ==
    /\ Frames \subseteq Frame /\ Altered \subseteq Frame
    /\ \A f \in Frames : f.kind \in {"beat", "write", "exception", "read"}
    /\ \A f \in Frames \cup Altered :
         /\ f.kind = "beat" => f.len = HeaderLen
         /\ f.kind = "write" => f.len = 8
         /\ f.kind = "exception" => f.len = 5
         /\ f.kind = "read" => f.len \in 6..260
         /\ f.kind = "tcp" => f.len \in 0..TcpLimit
    /\ Buffer \in Nat /\ Buffer >= RegistSize
    /\ \A f \in Frames : f.len <= Buffer
    /\ MaxFrames \in Nat /\ Faults \subseteq FaultKinds

VARIABLES
    stream,   \* the frames of which some bytes have not been taken
    intact,   \* for each of them: the line has not altered it
    off,      \* bytes of the first one that earlier packages have taken
    n,        \* bytes in the buffer: _data_pos - _data
    want,     \* bytes asked of the socket; 0 when no read is outstanding
    phase,    \* "reg": onReadReg reads; "run": onRead does; "closed";
              \* "overrun": a read has written past _data
    looks,    \* what the header in the buffer looks like, when it is there
    parsed,   \* the answer in the last package that was taken
    sends,    \* frames sent so far
    noisy     \* history: the line has altered something, or the DTU has not
              \* begun with its registration

vars == <<stream, intact, off, n, want, phase, looks, parsed, sends, noisy>>

TypeOK ==
    /\ stream \in Seq(Frame) /\ intact \in Seq(BOOLEAN)
    /\ Len(intact) = Len(stream)
    /\ off \in Nat /\ n \in Nat /\ want \in Nat
    /\ phase \in {"reg", "run", "closed", "overrun"}
    /\ looks \subseteq Frames \cup Altered /\ \A f, g \in looks : f = g
    /\ parsed \subseteq Frames /\ \A f, g \in parsed : f = g
    /\ sends \in 0..MaxFrames /\ noisy \in BOOLEAN

Init ==
    /\ \/ stream = <<Registration>>
       \/ "early" \in Faults /\ stream = <<Heartbeat, Registration>>
    /\ \E ok \in {TRUE, "noise" \notin Faults} :
         /\ intact = [i \in 1..Len(stream) |-> ok]
         /\ noisy = (~ok \/ stream[1] # Registration)
    /\ off = 0 /\ n = 0 /\ want = RegistSize
    /\ phase = "reg" /\ looks = {} /\ parsed = {} /\ sends = 0

-----------------------------------------------------------------------------
(* The bytes of the first i frames of s.                                     *)
Ends(s) ==
    LET sum[i \in 0..Len(s)] == IF i = 0 THEN 0 ELSE sum[i - 1] + s[i].len
    IN sum

Upto(k) == Ends(stream)[k]

Available == Upto(Len(stream)) - off - n

(* The buffer begins where a frame does, and the frame is as sent.           *)
InStep == off = 0 /\ intact[1]

(* k bytes have been taken, and with them the frames they end.               *)
Consume(k) ==
    LET gone == CHOOSE j \in 0..Len(stream) :
                    /\ Upto(j) <= off + k
                    /\ j < Len(stream) => off + k < Upto(j + 1)
    IN /\ stream' = SubSeq(stream, gone + 1, Len(stream))
       /\ intact' = SubSeq(intact, gone + 1, Len(stream))
       /\ off' = off + k - Upto(gone)

(* Mutant: the difference is taken the wrong way round.                      *)
More_Swapped(k, size) ==
    /\ n' = k /\ want' = k - size
    /\ UNCHANGED <<stream, intact, off, phase, parsed>>

(* The package is not complete: the rest of it is asked for.                 *)
More(k, size) ==
    /\ n' = k /\ want' = size - k
    /\ UNCHANGED <<stream, intact, off, phase, parsed>>

(* Mutant: the next package is not asked for.                                *)
Restart_NoRead(k) == Consume(k) /\ n' = 0 /\ want' = 0

(* memset, and the next package is asked for with read(3).                   *)
Restart(k) == Consume(k) /\ n' = 0 /\ want' = HeaderLen

Close ==
    /\ phase' = "closed" /\ want' = 0
    /\ UNCHANGED <<stream, intact, off, n, parsed>>

(* The k bytes do not fit into _data: read has asked for what the header     *)
(* says, and nothing has compared that with BUFSIZE.                         *)
Overrun(k) ==
    /\ phase' = "overrun" /\ n' = k /\ want' = 0
    /\ UNCHANGED <<stream, intact, off, parsed>>

-----------------------------------------------------------------------------
(* The DTU sends a frame, and the line may alter it.                         *)
Send ==
    /\ sends < MaxFrames
    /\ \E f \in Frames : stream' = Append(stream, f)
    /\ \E ok \in {TRUE, "noise" \notin Faults} :
         intact' = Append(intact, ok) /\ noisy' = (noisy \/ ~ok)
    /\ sends' = sends + 1
    /\ UNCHANGED <<off, n, want, phase, looks, parsed>>

(* The socket hands over some of the bytes asked for: how many there can be  *)
(* in the buffer then.                                                       *)
Received == LET all == n + Available IN {k \in (n + 1)..(n + want) : k <= all}

(* checkReg: strncmp looks for "HTLZ" at the start of the package, which has *)
(* no checksum.                                                              *)
OnReadReg ==
    /\ phase = "reg"
    /\ \E k \in Received :
        IF k < RegistSize THEN More(k, RegistSize)
        ELSE \/ /\ off = 0 /\ stream[1].kind = "reg"
                /\ Restart(k) /\ phase' = "run" /\ UNCHANGED parsed
             \/ ~(InStep /\ stream[1].kind = "reg") /\ Close
    /\ UNCHANGED <<looks, sends, noisy>>

(* The header in the buffer is that of a frame, or of anything.              *)
Header == IF looks # {} THEN looks ELSE IF InStep THEN {stream[1]} ELSE Altered

(* Mutant: the length of an answer leaves out the checksum.                  *)
Size_NoCrc(f, k) == IF f.kind = "read" THEN f.len - 2 ELSE f.len

(* checkMP: how long a package is.  The length in the header of a tcp        *)
(* package does not count that header, but is compared as if it did.         *)
Size(f, k) ==
    IF f.kind # "tcp" THEN f.len
    ELSE IF k < TcpHeaderLen \/ f.len < TcpHeaderLen THEN TcpHeaderLen
    ELSE f.len

(* Mutant: the checksum is not compared.                                     *)
Accepts_NoCrc(f) == TRUE

(* crc16 agrees for an answer that is as sent, and for no other.  Neither a  *)
(* write nor a tcp answer is checked.                                        *)
Accepts(f) == f.kind \in {"read", "exception"} => InStep /\ f = stream[1]

IsAnswer(f) == f.kind = "read"

(* onRead, checkMsg, and process.                                            *)
OnRead ==
    /\ phase = "run"
    /\ \E k \in Received :
        IF k > Buffer THEN Overrun(k) /\ UNCHANGED looks
        ELSE IF k < HeaderLen THEN More(k, HeaderLen) /\ UNCHANGED looks
        ELSE \E f \in Header :
            \/ k < Size(f, k) /\ looks' = {f} /\ More(k, Size(f, k))
            \/ /\ k >= Size(f, k) /\ Accepts(f)
               /\ Restart(k) /\ looks' = {}
               /\ parsed' = {g \in {f} : IsAnswer(g)}
               /\ UNCHANGED phase
            \/ k >= Size(f, k) /\ ~Accepts(f) /\ Close /\ UNCHANGED looks
    /\ UNCHANGED <<sends, noisy>>

(* After that the behaviour is undefined: even an answer that nobody sent    *)
(* may be taken for one.                                                     *)
Undefined ==
    /\ phase = "overrun"
    /\ \E f \in Frames : parsed' = {f}
    /\ UNCHANGED <<stream, intact, off, n, want, phase, looks, sends, noisy>>

Next == Send \/ OnReadReg \/ OnRead \/ Undefined

Spec == Init /\ [][Next]_vars

(* Bytes that have arrived are handed over, and completions run.             *)
FairSpec == Spec /\ WF_vars(OnReadReg \/ OnRead)

-----------------------------------------------------------------------------
(* While the line alters nothing, the buffer begins with a frame and no byte *)
(* of the next one is ever asked for, and none that _data has no room for:   *)
(* checkMsg's lengths are those on the wire, however the socket splits them. *)
OneFrame ==
    ~noisy =>
        /\ phase # "overrun" /\ n + want <= Buffer
        /\ phase = "run" =>
             /\ off = 0 /\ n + want > 0
             /\ stream # <<>> => n + want <= stream[1].len

(* The frames of the stream that were sent behind the registration package.  *)
Later ==
    LET first == IF sends < Len(stream) THEN Len(stream) - sends + 1 ELSE 1
    IN SubSeq(stream, first, Len(stream))

(* The session implements FrameQueue: whatever the line does, an answer that *)
(* is parsed is one the DTU sent, and with a good line nothing is lost, for  *)
(* as long as no altered header makes a read write past _data.               *)
Queue == INSTANCE FrameQueue WITH
    Answers <- {f \in Frames : IsAnswer(f)},
    sent    <- Later,
    noisy   <- noisy \/ phase = "closed",
    broken  <- phase = "overrun"
QueueSpec == Queue!Spec

(* A frame that has arrived is not left waiting for bytes that never come,   *)
(* unless the line altered something (which an overrun takes) or the session *)
(* is closed.                                                                *)
Drained == stream # <<>> ~> (stream = <<>> \/ noisy \/ phase = "closed")
=============================================================================
