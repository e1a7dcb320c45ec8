--------------------------- MODULE SessionRegistry ---------------------------
(* The life of the ClientSessions of a server: accepting, registering a DTU, *)
(* the heartbeat deadline, closing, and destroying a session when its last   *)
(* completion has run; and the two maps, did_to_cs and sid_to_cs, in which   *)
(* the agent thread finds the sessions.  What the poll thread asks slaves is *)
(* left to PollSession; here it sets the slave timer, writes, and waits for  *)
(* _mutex, by which it may keep the session from being destroyed.  The agent *)
(* thread only reads the maps and is left to Operations.                     *)
(*                                                                           *)
(* A session is kept alive by the shared_ptr in each completion that is      *)
(* outstanding (Handles); the maps hold plain pointers.                      *)
EXTENDS Integers, FiniteSets

CONSTANTS
    NSess,      \* bound: connections accepted, in the order 1..NSess
    Dtu,        \* the devices that connect
    Absent,     \* no entry in a map
    Null,       \* an entry that operator[] inserted: a null pointer
    Workers,    \* threads of the pool
    MaxBytes,   \* bound: complete packages received
    MaxSweeps,  \* bound: sweeps of the poll threads
    Onward,     \* where a sweep may go on after a range, see OnwardTo
    Faults      \* see FaultKinds

(* drop: the network fails.  refuse: the platform does not register a DTU.   *)
(* overlap: a DTU connects again while the server still has its connection   *)
(* open.  slowStart: a new poll thread need not run at once.  accept: the    *)
(* acceptor fails, or the peer is gone before its address is asked.          *)
FaultKinds == {"drop", "refuse", "overlap", "slowStart", "accept"}

(* The next range of the slave, the next slave, or the end of the sweep.     *)
OnwardTo == {"send", "gate", "sleep"}

Sess == 1..NSess

ASSUME RegistryAssumption ==
    /\ NSess \in Nat /\ Workers \in Nat \ {0} /\ MaxBytes \in Nat
    /\ MaxSweeps \in Nat
    /\ Faults \subseteq FaultKinds /\ Onward \subseteq OnwardTo
    /\ Absent \notin Sess /\ Null \notin Sess /\ Absent # Null

VARIABLES
    accepting, \* an async_accept is outstanding
    life,    \* of the session object
    dtu,     \* the DTU at the other end
    reg,     \* "new"; "named": _did is set; "known": _sid is set too
    open,    \* _sock is open
    isClose, \* _is_close
    disc,    \* _is_disconnect
    active,  \* the Timer is active
    thr,     \* the poll thread
    mutex,   \* _mutex is locked
    flag,    \* _flag: the slave being polled has timed out
    heard,   \* _receHeartBeat
    rd,      \* the outstanding read and its completion
    dl,      \* the wait on _deadline and its completion
    st,      \* the wait on _deadline_timer and its completion
    wr,      \* the outstanding write, or where onWrite is
    io,      \* where the handler is that holds _io_mutex
    cl,      \* where Close is
    didTo, sidTo, \* did_to_cs and sid_to_cs; a null in sid_to_cs is Absent
    bytes, sweeps, \* packages received and sweeps begun so far
    died,    \* the process is dead
    late,    \* history: sessions that registered after they were closed
    met      \* history: DTUs with two sessions with completions outstanding

countVars == <<bytes, sweeps>>
procVars == <<accepting, died>>
pollVars == <<thr, mutex, flag>>
sockVars == <<open, isClose, disc, active>>
doneVars == <<rd, dl, st, wr>>
mapVars  == <<didTo, sidTo>>
histVars == <<late, met>>
vars == <<life, dtu, reg, sockVars, pollVars, heard, doneVars, io, cl,
          mapVars, countVars, procVars, histVars>>

TypeOK ==
    /\ life \in [Sess -> {"free", "live", "joining", "gone"}]
    /\ dtu \in [Sess -> Dtu \cup {Absent}]
    /\ reg \in [Sess -> {"new", "named", "known"}]
    /\ open \in [Sess -> BOOLEAN] /\ isClose \in [Sess -> BOOLEAN]
    /\ disc \in [Sess -> BOOLEAN] /\ active \in [Sess -> BOOLEAN]
    /\ thr \in [Sess -> {"none", "created", "sleep", "gate", "sweep", "send",
                         "write", "ended"}]
    /\ mutex \in [Sess -> BOOLEAN] /\ flag \in [Sess -> BOOLEAN]
    /\ heard \in [Sess -> BOOLEAN]
    /\ rd \in [Sess -> {"none", "wait", "bytes", "error"}]
    /\ dl \in [Sess -> {"none", "wait", "due", "cancelled"}]
    /\ st \in [Sess -> {"none", "wait", "cancelled"}]
    /\ wr \in [Sess -> {"none", "wait", "look"}]
    /\ io \in [Sess -> {"idle", "info", "did", "sid", "decide"}]
    /\ cl \in [Sess -> {"none", "did", "sid", "shut", "cancelled"}]
    /\ didTo \in [Dtu -> Sess \cup {Absent, Null}]
    /\ sidTo \in [Dtu -> Sess \cup {Absent}]
    /\ bytes \in 0..MaxBytes /\ sweeps \in 0..MaxSweeps
    /\ accepting \in BOOLEAN /\ died \in BOOLEAN
    /\ late \subseteq Sess /\ met \subseteq Dtu

Init ==
    /\ life = [s \in Sess |-> "free"] /\ dtu = [s \in Sess |-> Absent]
    /\ reg = [s \in Sess |-> "new"]
    /\ open = [s \in Sess |-> FALSE] /\ isClose = [s \in Sess |-> FALSE]
    /\ disc = [s \in Sess |-> FALSE] /\ active = [s \in Sess |-> FALSE]
    /\ thr = [s \in Sess |-> "none"] /\ heard = [s \in Sess |-> FALSE]
    /\ rd = [s \in Sess |-> "none"] /\ dl = [s \in Sess |-> "none"]
    /\ mutex = [s \in Sess |-> FALSE] /\ flag = [s \in Sess |-> FALSE]
    /\ st = [s \in Sess |-> "none"] /\ wr = [s \in Sess |-> "none"]
    /\ io = [s \in Sess |-> "idle"] /\ cl = [s \in Sess |-> "none"]
    /\ didTo = [d \in Dtu |-> Absent] /\ sidTo = [d \in Dtu |-> Absent]
    /\ bytes = 0 /\ sweeps = 0 /\ accepting = TRUE /\ died = FALSE
    /\ late = {} /\ met = {}

-----------------------------------------------------------------------------
(* The completions that keep s alive, the one being run included.            *)
Handles(s) ==
    \/ rd[s] # "none" \/ dl[s] # "none" \/ st[s] # "none" \/ wr[s] # "none"
    \/ io[s] # "idle" \/ cl[s] # "none"

(* The pool threads that are not free: they run a completion, or a           *)
(* destructor that waits for the poll thread.                                *)
Busy == {s \in Sess : \/ io[s] # "idle" \/ cl[s] # "none" \/ wr[s] = "look"
                      \/ life[s] = "joining"
                      \/ life[s] = "live" /\ ~Handles(s)}

(* A completion of s that takes _io_mutex can start.                         *)
CanRun(s) == io[s] = "idle" /\ cl[s] = "none" /\ Cardinality(Busy \ {s}) < Workers

(* toClose: stop the Timer the first time, and run Close.                    *)
ToClose(s) ==
    /\ cl' = [cl EXCEPT ![s] = "did"]
    /\ disc' = [disc EXCEPT ![s] = TRUE]
    /\ active' = [active EXCEPT ![s] = active[s] /\ disc[s]]

(* operator[] of did_to_cs, which inserts a null when there is no entry.     *)
Lookup(d) == didTo' = [didTo EXCEPT ![d] = IF @ = Absent THEN Null ELSE @]

-----------------------------------------------------------------------------
(* ProcessAccept and init, and the next async_accept.                        *)
Accept(s) ==
    /\ accepting
    /\ life[s] = "free" /\ \A t \in 1..(s - 1) : life[t] # "free"
    /\ Cardinality(Busy) < Workers
    /\ \E d \in Dtu :
        /\ \/ "overlap" \in Faults
           \/ \A t \in Sess : dtu[t] = d => ~open[t]
        /\ dtu' = [dtu EXCEPT ![s] = d]
        /\ met' = IF \E t \in Sess : dtu[t] = d /\ Handles(t)
                  THEN met \cup {d} ELSE met
    /\ life' = [life EXCEPT ![s] = "live"]
    /\ open' = [open EXCEPT ![s] = TRUE]
    /\ IF "slowStart" \in Faults
       THEN thr' = [thr EXCEPT ![s] = "created"] /\ UNCHANGED active
       ELSE /\ thr' = [thr EXCEPT ![s] = "sleep"]
            /\ active' = [active EXCEPT ![s] = TRUE]
    /\ dl' = [dl EXCEPT ![s] = "wait"] /\ rd' = [rd EXCEPT ![s] = "wait"]
    /\ UNCHANGED <<reg, isClose, disc, mutex, flag, heard, st, wr, io, cl,
                   mapVars, countVars, procVars, late>>

(* An error of async_accept, or of remote_endpoint in setClientInfo: no new  *)
(* async_accept follows, and the session that was to be used is destroyed,   *)
(* which joins a thread that was never created.  That is undefined: it fails,*)
(* or the process dies.                                                      *)
AcceptFails ==
    /\ "accept" \in Faults /\ accepting /\ Cardinality(Busy) < Workers
    /\ accepting' = FALSE /\ died' \in BOOLEAN
    /\ UNCHANGED <<life, dtu, reg, sockVars, pollVars, heard, doneVars, io,
                   cl, mapVars, bytes, sweeps, histVars>>

(* func: the poll thread starts, and with it the Timer.                      *)
ThreadStart(s) ==
    /\ thr[s] = "created"
    /\ thr' = [thr EXCEPT ![s] = "sleep"]
    /\ active' = [active EXCEPT ![s] = TRUE]
    /\ UNCHANGED <<life, dtu, reg, open, isClose, disc, mutex, flag, heard,
                   doneVars, io, cl, mapVars, countVars, procVars, histVars>>

(* Timer::loop wakes up: end, or run operator() when there is a slave.       *)
Wake(s) ==
    /\ thr[s] = "sleep"
    /\ IF active[s]
       THEN /\ reg[s] = "known" /\ io[s] \notin {"did", "sid"}
            /\ sweeps < MaxSweeps /\ sweeps' = sweeps + 1
            /\ thr' = [thr EXCEPT ![s] = "gate"]
       ELSE thr' = [thr EXCEPT ![s] = "ended"] /\ UNCHANGED sweeps
    /\ UNCHANGED <<life, dtu, reg, sockVars, mutex, flag, heard, doneVars, io,
                   cl, mapVars, bytes, procVars, histVars>>

(* Lines 439 to 443: wait until nobody uses the line, and leave the sweep    *)
(* when the session is closing.                                              *)
Gate(s) ==
    /\ thr[s] = "gate" /\ ~mutex[s]
    /\ thr' = [thr EXCEPT ![s] = IF isClose[s] THEN "sleep" ELSE "sweep"]
    /\ UNCHANGED <<life, dtu, reg, sockVars, mutex, flag, heard, doneVars, io,
                   cl, mapVars, countVars, procVars, histVars>>

(* _flag = 0, and setTimer_1, whose shared_from_this throws when nothing     *)
(* owns the session any more; nobody catches it.                             *)
Arm(s) ==
    /\ thr[s] = "sweep"
    /\ flag' = [flag EXCEPT ![s] = FALSE]
    /\ IF life[s] = "live" /\ Handles(s)
       THEN st' = [st EXCEPT ![s] = "wait"] /\ UNCHANGED died
       ELSE died' = TRUE /\ UNCHANGED st
    /\ UNCHANGED accepting
    /\ thr' = [thr EXCEPT ![s] = "send"]
    /\ UNCHANGED <<life, dtu, reg, sockVars, mutex, heard, rd, dl, wr, io, cl,
                   mapVars, countVars, histVars>>

(* Lines 508 to 524: wait for _mutex, for the next range of the slave.  When *)
(* the slave has timed out it is left with _mutex free, to the next slave or *)
(* to the end of the sweep; when the session is closing, with _mutex locked. *)
PollLock(s) ==
    /\ thr[s] = "send" /\ ~mutex[s]
    /\ IF flag[s]
       THEN /\ \E next \in Onward \ {"send"} :
                 thr' = [thr EXCEPT ![s] = next]
            /\ UNCHANGED mutex
       ELSE /\ mutex' = [mutex EXCEPT ![s] = TRUE]
            /\ thr' = [thr EXCEPT ![s] = IF isClose[s] THEN "sleep" ELSE "write"]
    /\ UNCHANGED <<life, dtu, reg, sockVars, flag, heard, doneVars, io, cl,
                   mapVars, countVars, procVars, histVars>>

(* write, under _io_mutex; bound: one write of a session is outstanding.  On *)
(* to the next range, the next slave, or the end of the sweep.               *)
PollWrite(s) ==
    /\ thr[s] = "write" /\ io[s] = "idle"
    /\ wr[s] = "none"
    /\ IF open[s] THEN wr' = [wr EXCEPT ![s] = "wait"] ELSE UNCHANGED wr
    /\ \E next \in Onward : thr' = [thr EXCEPT ![s] = next]
    /\ UNCHANGED <<life, dtu, reg, sockVars, mutex, flag, heard, rd, dl, st,
                   io, cl, mapVars, countVars, procVars, histVars>>

PollStep(s) == Wake(s) \/ Gate(s) \/ Arm(s) \/ PollLock(s) \/ PollWrite(s)

(* The slave timer fires, and frees _mutex unless it has done so for this    *)
(* slave, or it was cancelled, and does nothing.                             *)
SlaveTimer(s) ==
    /\ st[s] # "none" /\ Cardinality(Busy) < Workers
    /\ st' = [st EXCEPT ![s] = "none"]
    /\ IF st[s] = "wait" /\ ~flag[s]
       THEN /\ mutex' = [mutex EXCEPT ![s] = FALSE]
            /\ flag' = [flag EXCEPT ![s] = TRUE]
       ELSE UNCHANGED <<mutex, flag>>
    /\ UNCHANGED <<life, dtu, reg, sockVars, thr, heard, rd, dl, wr, io,
                   cl, mapVars, countVars, procVars, histVars>>

-----------------------------------------------------------------------------
(* A package arrives, or the connection breaks.                              *)
Receive(s) ==
    /\ rd[s] = "wait" /\ open[s]
    /\ \/ /\ bytes < MaxBytes
          /\ bytes' = bytes + 1 /\ rd' = [rd EXCEPT ![s] = "bytes"]
       \/ /\ "drop" \in Faults
          /\ rd' = [rd EXCEPT ![s] = "error"] /\ UNCHANGED bytes
    /\ UNCHANGED <<life, dtu, reg, sockVars, pollVars, heard, dl, st, wr, io,
                   cl, mapVars, sweeps, procVars, histVars>>

(* onReadReg and onRead up to the point where they have looked at what was   *)
(* read.  A session whose DTU is registered to another one is closed.  The   *)
(* end of process frees _mutex; a heartbeat does not.                        *)
OnRead(s) ==
    /\ rd[s] \in {"bytes", "error"} /\ CanRun(s)
    /\ heard' = [heard EXCEPT ![s] = TRUE]
    /\ \/ /\ rd[s] = "bytes" /\ reg[s] = "new"  \* checkReg accepts
          /\ reg' = [reg EXCEPT ![s] = "named"]
          /\ isClose' = [isClose EXCEPT ![s] = FALSE]
          /\ rd' = [rd EXCEPT ![s] = "none"] /\ io' = [io EXCEPT ![s] = "info"]
          /\ UNCHANGED <<mutex, didTo>>
       \/ /\ rd[s] = "bytes" /\ reg[s] # "new"
          /\ Lookup(dtu[s])
          /\ \E malformed \in {FALSE, "drop" \in Faults} :
               isClose' = [isClose EXCEPT ![s] = malformed \/ didTo[dtu[s]] # s]
          /\ rd' = [rd EXCEPT ![s] = IF open[s] /\ ~isClose'[s]
                                     THEN "wait" ELSE "none"]
          /\ \E answer \in BOOLEAN : mutex' = [mutex EXCEPT ![s] =
                                          @ /\ ~(answer /\ ~isClose'[s])]
          /\ io' = [io EXCEPT ![s] = "decide"]
          /\ UNCHANGED reg
       \/ /\ rd[s] = "error" \/ (reg[s] = "new" /\ "drop" \in Faults)
          /\ isClose' = [isClose EXCEPT ![s] = TRUE]
          /\ rd' = [rd EXCEPT ![s] = "none"] /\ io' = [io EXCEPT ![s] = "decide"]
          /\ UNCHANGED <<reg, mutex, didTo>>
    /\ UNCHANGED <<life, dtu, open, disc, active, thr, flag, dl, st, wr, cl,
                   sidTo, countVars, procVars, histVars>>

(* regDev: getDevInfo answers ...                                            *)
GetDevInfo(s) ==
    /\ io[s] = "info"
    /\ \/ /\ reg' = [reg EXCEPT ![s] = "known"]
          /\ io' = [io EXCEPT ![s] = "did"] /\ UNCHANGED isClose
       \/ /\ "refuse" \in Faults
          /\ isClose' = [isClose EXCEPT ![s] = TRUE]
          /\ io' = [io EXCEPT ![s] = "decide"] /\ UNCHANGED reg
    /\ UNCHANGED <<life, dtu, open, disc, active, pollVars, heard, doneVars,
                   cl, mapVars, countVars, procVars, histVars>>

(* ... and the session is entered in one map ...                             *)
SetDid(s) ==
    /\ io[s] = "did"
    /\ didTo' = [didTo EXCEPT ![dtu[s]] = s]
    /\ late' = IF open[s] THEN late ELSE late \cup {s}
    /\ io' = [io EXCEPT ![s] = "sid"]
    /\ UNCHANGED <<life, dtu, reg, sockVars, pollVars, heard, doneVars, cl,
                   sidTo, countVars, procVars, met>>

(* Mutant: the session is entered in one map only.                           *)
EnterSid_Not(s) == UNCHANGED sidTo

EnterSid(s) == sidTo' = [sidTo EXCEPT ![dtu[s]] = s]

(* ... then in the other, the child devices are loaded and read(3) starts.   *)
SetSid(s) ==
    /\ io[s] = "sid" /\ EnterSid(s)
    /\ rd' = [rd EXCEPT ![s] = IF open[s] THEN "wait" ELSE "none"]
    /\ io' = [io EXCEPT ![s] = "decide"]
    /\ UNCHANGED <<life, dtu, reg, sockVars, pollVars, heard, dl, st, wr, cl,
                   didTo, countVars, procVars, histVars>>

(* The end of onReadReg and onRead tests _is_close, which onWrite may have   *)
(* changed meanwhile.                                                        *)
OnReadDecide(s) ==
    /\ io[s] = "decide" /\ cl[s] = "none"
    /\ io' = [io EXCEPT ![s] = "idle"]
    /\ IF isClose[s] THEN ToClose(s) ELSE UNCHANGED <<cl, disc, active>>
    /\ UNCHANGED <<life, dtu, reg, open, isClose, pollVars, heard, doneVars,
                   mapVars, countVars, procVars, histVars>>

OnReadStep(s) == OnRead(s) \/ GetDevInfo(s) \/ SetDid(s) \/ SetSid(s)
                   \/ OnReadDecide(s)

-----------------------------------------------------------------------------
Expire(s) ==
    /\ dl[s] = "wait"
    /\ dl' = [dl EXCEPT ![s] = "due"]
    /\ UNCHANGED <<life, dtu, reg, sockVars, pollVars, heard, rd, st, wr, io,
                   cl, mapVars, countVars, procVars, histVars>>

(* Mutant: the deadline is not set again.                                    *)
Rearm_Forgotten(s) == dl' = [dl EXCEPT ![s] = "none"]

Rearm(s) == dl' = [dl EXCEPT ![s] = "wait"]

(* checkDeadline.  It does not know whether the session is closed already.   *)
CheckDeadline(s) ==
    /\ dl[s] \in {"due", "cancelled"} /\ CanRun(s)
    /\ \/ /\ dl[s] = "due" /\ heard[s]
          /\ heard' = [heard EXCEPT ![s] = FALSE] /\ Rearm(s)
          /\ UNCHANGED <<cl, disc, active>>
       \/ /\ dl[s] = "due" /\ ~heard[s]
          /\ dl' = [dl EXCEPT ![s] = "none"] /\ ToClose(s)
          /\ UNCHANGED heard
       \/ /\ dl[s] = "cancelled"
          /\ dl' = [dl EXCEPT ![s] = "none"]
          /\ UNCHANGED <<heard, cl, disc, active>>
    /\ UNCHANGED <<life, dtu, reg, open, isClose, pollVars, rd, st, wr, io,
                   mapVars, countVars, procVars, histVars>>

(* onWrite, which takes no lock.                                             *)
OnWriteBegin(s) ==
    /\ wr[s] = "wait" /\ Cardinality(Busy \ {s}) < Workers
    /\ isClose' = [isClose EXCEPT ![s] = FALSE]
    /\ wr' = [wr EXCEPT ![s] = "look"]
    /\ UNCHANGED <<life, dtu, reg, open, disc, active, pollVars, heard, rd,
                   dl, st, io, cl, mapVars, countVars, procVars, histVars>>

OnWriteEnd(s) ==
    /\ wr[s] = "look" /\ cl[s] = "none"
    /\ wr' = [wr EXCEPT ![s] = "none"]
    /\ \/ /\ "drop" \in Faults \/ ~open[s]  \* the write failed
          /\ isClose' = [isClose EXCEPT ![s] = TRUE] /\ UNCHANGED didTo
       \/ /\ Lookup(dtu[s])
          /\ isClose' = [isClose EXCEPT ![s] = @ \/ didTo[dtu[s]] # s]
    /\ IF isClose'[s] THEN ToClose(s) ELSE UNCHANGED <<cl, disc, active>>
    /\ UNCHANGED <<life, dtu, reg, open, pollVars, heard, rd, dl, st, io,
                   sidTo, countVars, procVars, histVars>>

-----------------------------------------------------------------------------
(* Mutant: the entry stays.                                                  *)
EraseDid_Keep(s) == UNCHANGED didTo

(* Close erases by key, whoever is registered under it.                      *)
EraseDid(s) ==
    didTo' = IF reg[s] = "new" THEN didTo ELSE [didTo EXCEPT ![dtu[s]] = Absent]

(* Mutant: the entry is overwritten by a null pointer.                       *)
EraseSid_StoreNull(s) ==
    sidTo' = IF reg[s] = "known" THEN [sidTo EXCEPT ![dtu[s]] = Null] ELSE sidTo

EraseSid(s) ==
    sidTo' = IF reg[s] = "known" THEN [sidTo EXCEPT ![dtu[s]] = Absent] ELSE sidTo

(* Mutant: the read is not cancelled.                                        *)
CancelRead_Not(s) == UNCHANGED rd

CancelRead(s) == rd' = [rd EXCEPT ![s] = IF @ = "wait" THEN "error" ELSE @]

CloseDid(s) ==
    /\ cl[s] = "did" /\ EraseDid(s)
    /\ cl' = [cl EXCEPT ![s] = "sid"]
    /\ UNCHANGED <<life, dtu, reg, sockVars, pollVars, heard, doneVars, io,
                   sidTo, countVars, procVars, histVars>>

(* When the socket is still open: cancel the read, close it and cancel the   *)
(* deadline, which has no effect on an expiration that is queued ...         *)
CloseSock(s) ==
    /\ cl[s] = "sid" /\ EraseSid(s) /\ CancelRead(s)
    /\ open' = [open EXCEPT ![s] = FALSE]
    /\ dl' = [dl EXCEPT ![s] = IF @ = "wait" /\ open[s] THEN "cancelled" ELSE @]
    /\ cl' = [cl EXCEPT ![s] = IF open[s] THEN "shut" ELSE "none"]
    /\ UNCHANGED <<life, dtu, reg, isClose, disc, active, pollVars, heard, st,
                   wr, io, didTo, countVars, procVars, histVars>>

(* ... then the slave timer, whose expiration may be queued as well ...      *)
CloseTimer(s) ==
    /\ cl[s] = "shut"
    /\ \E queued \in BOOLEAN :
         st' = [st EXCEPT ![s] = IF @ = "wait" /\ ~queued THEN "cancelled" ELSE @]
    /\ cl' = [cl EXCEPT ![s] = "cancelled"]
    /\ UNCHANGED <<life, dtu, reg, sockVars, pollVars, heard, rd, dl, wr, io,
                   mapVars, countVars, procVars, histVars>>

(* ... and free _mutex.                                                      *)
CloseUnlock(s) ==
    /\ cl[s] = "cancelled"
    /\ mutex' = [mutex EXCEPT ![s] = FALSE]
    /\ cl' = [cl EXCEPT ![s] = "none"]
    /\ UNCHANGED <<life, dtu, reg, sockVars, thr, flag, heard, doneVars, io,
                   mapVars, countVars, procVars, histVars>>

CloseStep(s) == CloseDid(s) \/ CloseSock(s) \/ CloseTimer(s) \/ CloseUnlock(s)

(* The last completion has run: the destructor waits for the poll thread ... *)
Destroy(s) ==
    /\ life[s] = "live" /\ ~Handles(s)
    /\ life' = [life EXCEPT ![s] = "joining"]
    /\ UNCHANGED <<dtu, reg, sockVars, pollVars, heard, doneVars, io, cl, mapVars,
                   countVars, procVars, histVars>>

(* ... and the memory is freed.                                              *)
Joined(s) ==
    /\ life[s] = "joining" /\ thr[s] = "ended"
    /\ life' = [life EXCEPT ![s] = "gone"]
    /\ UNCHANGED <<dtu, reg, sockVars, pollVars, heard, doneVars, io, cl, mapVars,
                   countVars, procVars, histVars>>

-----------------------------------------------------------------------------
Next ==
    /\ ~died
    /\ \/ AcceptFails
       \/ \E s \in Sess :
            \/ Accept(s) \/ ThreadStart(s) \/ PollStep(s) \/ SlaveTimer(s)
            \/ Receive(s) \/ OnReadStep(s) \/ Expire(s) \/ CheckDeadline(s)
            \/ OnWriteBegin(s) \/ OnWriteEnd(s) \/ CloseStep(s)
            \/ Destroy(s) \/ Joined(s)

Spec == Init /\ [][Next]_vars

(* Threads that can run do run, timers expire, and queued completions get a  *)
(* thread of the pool in the end.                                            *)
Fairness ==
    \A s \in Sess :
        /\ WF_vars(~died /\ (ThreadStart(s) \/ PollStep(s)))
        /\ WF_vars(~died /\ (CloseStep(s) \/ Destroy(s) \/ Joined(s)))
        /\ WF_vars(~died /\ OnWriteEnd(s)) /\ WF_vars(~died /\ Expire(s))
        /\ SF_vars(~died /\ OnWriteBegin(s)) /\ SF_vars(~died /\ OnReadStep(s))
        /\ SF_vars(~died /\ CheckDeadline(s)) /\ SF_vars(~died /\ SlaveTimer(s))

FairSpec == Spec /\ Fairness

-----------------------------------------------------------------------------
(* No connection is forgotten: while the socket is open, the deadline is     *)
(* running, or its handler is waiting to run, or the session is being        *)
(* closed.  checkDeadline and Close share the deadline between them.         *)
Watched ==
    \A s \in Sess : open[s] => dl[s] \in {"wait", "due"} \/ cl[s] # "none"

(* The maps point to sessions that some completion keeps alive, except to    *)
(* one that registered after it had been closed.                             *)
MapsOwned ==
    \A d \in Dtu : \A s \in Sess \ late :
        didTo[d] = s \/ sidTo[d] = s => life[s] = "live" /\ Handles(s)

(* While a DTU has never had two sessions with completions outstanding, its  *)
(* session is found under both names from the end of its registration until  *)
(* it begins to close.                                                       *)
Reachable ==
    \A s \in Sess : /\ reg[s] = "known" /\ open[s] /\ cl[s] = "none"
                    /\ io[s] \in {"idle", "decide"} /\ dtu[s] \notin met
        => didTo[dtu[s]] = s /\ sidTo[dtu[s]] = s

(* client_session.h:107: Close clears the global structures, so a session    *)
(* that is gone cannot be found.                                             *)
NoDangling ==
    \A d \in Dtu : \A s \in Sess :
        didTo[d] = s \/ sidTo[d] = s => life[s] # "gone"

(* The destructor of s waits for its poll thread, which waits in line 439 or *)
(* 508 for _mutex.  No completion is left to free it.                        *)
Stuck(s) == life[s] = "joining" /\ thr[s] \in {"gate", "send"} /\ mutex[s]

(* func starts the Timer after toClose has stopped it: the poll thread goes  *)
(* on for ever.                                                              *)
Restarted(s) == disc[s] /\ active[s]

(* A connection that falls silent is closed in the end, and its session      *)
(* destroyed, whatever its handlers, its timers and its poll thread are      *)
(* about, unless its own poll thread cannot end, or the destructors of other *)
(* sessions, which wait for theirs, have taken all threads of the pool.      *)
Reclaimed ==
    \A s \in Sess : life[s] = "live" ~>
        \/ life[s] = "gone" \/ died
        \/ Stuck(s) \/ Restarted(s)
        \/ Cardinality({t \in Sess : Stuck(t) \/ Restarted(t)}) >= Workers
=============================================================================
