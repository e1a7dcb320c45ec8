----------------------- MODULE SessionRegistry_proofs -----------------------
(* Proofs about SessionRegistry, for any number of sessions and DTUs.        *)
EXTENDS SessionRegistry, TLAPS

(* The types that the proof of Watched needs.                                *)
DeadlineType ==
    /\ open \in [Sess -> BOOLEAN]
    /\ dl \in [Sess -> {"none", "wait", "due", "cancelled"}]
    /\ cl \in [Sess -> {"none", "did", "sid", "shut", "cancelled"}]
    /\ life \in [Sess -> {"free", "live", "joining", "gone"}]

(* What Close does after it has closed the socket, it does to a session that *)
(* has been accepted and is closed.                                          *)
Shut ==
    \A s \in Sess :
        /\ open[s] => life[s] # "free"
        /\ cl[s] \in {"shut", "cancelled"} => ~open[s] /\ life[s] # "free"

WatchInv == DeadlineType /\ Watched /\ Shut

LEMMA WatchInit == Init => WatchInv
  BY DEF Init, WatchInv, DeadlineType, Watched, Shut

(* The actions that do not touch the deadline.                               *)
Elsewhere(s) ==
    \/ ThreadStart(s) \/ PollStep(s) \/ SlaveTimer(s) \/ Receive(s)
    \/ OnRead(s) \/ GetDevInfo(s) \/ SetDid(s) \/ SetSid(s)
    \/ OnWriteBegin(s) \/ Destroy(s) \/ Joined(s)

LEMMA ElsewhereLeaves ==
    ASSUME NEW s \in Sess, Elsewhere(s), WatchInv
    PROVE  /\ UNCHANGED <<open, dl, cl>>
           /\ life' \in [Sess -> {"free", "live", "joining", "gone"}]
           /\ \A t \in Sess : life'[t] = "free" => life[t] = "free"
<1>1. UNCHANGED <<open, dl, cl>>
  BY DEF Elsewhere, sockVars, doneVars, ThreadStart, PollStep, Wake, Gate, Arm,
         PollLock, PollWrite, SlaveTimer, Receive, OnRead, GetDevInfo, SetDid, SetSid,
         OnWriteBegin, Destroy, Joined
<1>2. \/ UNCHANGED life \/ life' = [life EXCEPT ![s] = "joining"]
      \/ life' = [life EXCEPT ![s] = "gone"]
  BY DEF Elsewhere, ThreadStart, PollStep, Wake, Gate, Arm, PollLock, PollWrite,
         SlaveTimer, Receive, OnRead, GetDevInfo, SetDid, SetSid, OnWriteBegin,
         Destroy, Joined
<1> QED
  BY <1>1, <1>2 DEF WatchInv, DeadlineType

(* toClose keeps a session watched.                                          *)
LEMMA ToCloseWatches ==
    ASSUME NEW s \in Sess, WatchInv, UNCHANGED <<open, life>>, cl[s] = "none",
           ToClose(s) \/ UNCHANGED cl,
           \/ UNCHANGED dl
           \/ dl' = [dl EXCEPT ![s] = "none"] /\ ToClose(s)
    PROVE  WatchInv'
<1>1. /\ cl' \in [Sess -> {"none", "did", "sid", "shut", "cancelled"}]
      /\ \A t \in Sess : \/ cl'[t] = cl[t]
                         \/ cl[t] = "none" /\ cl'[t] = "did"
  BY DEF WatchInv, DeadlineType, ToClose
<1>2. dl' \in [Sess -> {"none", "wait", "due", "cancelled"}]
  BY DEF WatchInv, DeadlineType
<1>3. \A t \in Sess : dl'[t] = dl[t] \/ cl'[t] # "none"
  BY DEF WatchInv, DeadlineType, ToClose
<1> QED
  BY <1>1, <1>2, <1>3 DEF WatchInv, DeadlineType, Watched, Shut

LEMMA WatchStep == WatchInv /\ [Next]_vars => WatchInv'
<1> SUFFICES ASSUME WatchInv, [Next]_vars PROVE WatchInv'
  OBVIOUS
<1>1. CASE UNCHANGED vars
  BY <1>1 DEF WatchInv, DeadlineType, Watched, Shut, vars, sockVars, doneVars
<1>2. ASSUME NEW s \in Sess, Elsewhere(s) PROVE WatchInv'
  BY <1>2, ElsewhereLeaves DEF WatchInv, DeadlineType, Watched, Shut
<1>3. ASSUME NEW s \in Sess, Accept(s) PROVE WatchInv'
  <2>1. /\ open' = [open EXCEPT ![s] = TRUE] /\ dl' = [dl EXCEPT ![s] = "wait"]
        /\ UNCHANGED cl /\ life[s] = "free" /\ life' = [life EXCEPT ![s] = "live"]
    BY <1>3 DEF Accept
  <2> QED
    BY <2>1 DEF WatchInv, DeadlineType, Watched, Shut
<1>4. ASSUME NEW s \in Sess, Expire(s) PROVE WatchInv'
  BY <1>4 DEF Expire, WatchInv, DeadlineType, Watched, Shut, sockVars
<1>5. ASSUME NEW s \in Sess, OnReadDecide(s) PROVE WatchInv'
  BY <1>5, ToCloseWatches DEF OnReadDecide, doneVars
<1>6. ASSUME NEW s \in Sess, OnWriteEnd(s) PROVE WatchInv'
  BY <1>6, ToCloseWatches DEF OnWriteEnd
<1>7. ASSUME NEW s \in Sess, CheckDeadline(s) PROVE WatchInv'
  <2>1. cl[s] = "none" /\ UNCHANGED <<open, life>>
    BY <1>7 DEF CheckDeadline, CanRun
  <2>2. CASE dl' = [dl EXCEPT ![s] = "wait"] /\ UNCHANGED cl
    BY <2>1, <2>2 DEF WatchInv, DeadlineType, Watched, Shut
  <2>3. CASE dl' = [dl EXCEPT ![s] = "none"] /\ ToClose(s)
    BY <2>1, <2>3, ToCloseWatches
  <2>4. CASE dl[s] = "cancelled" /\ dl' = [dl EXCEPT ![s] = "none"] /\ UNCHANGED cl
    <3>1. ~open[s]
      BY <2>1, <2>4 DEF WatchInv, Watched
    <3> QED
      BY <2>1, <2>4, <3>1 DEF WatchInv, DeadlineType, Watched, Shut
  <2> QED
    BY <1>7, <2>2, <2>3, <2>4 DEF CheckDeadline, Rearm
<1>8. ASSUME NEW s \in Sess, CloseDid(s) PROVE WatchInv'
  BY <1>8 DEF CloseDid, WatchInv, DeadlineType, Watched, Shut, sockVars, doneVars
<1>9. ASSUME NEW s \in Sess, CloseSock(s) PROVE WatchInv'
  <2>1. /\ open' = [open EXCEPT ![s] = FALSE] /\ UNCHANGED life
        /\ cl' = [cl EXCEPT ![s] = IF open[s] THEN "shut" ELSE "none"]
        /\ dl' = [dl EXCEPT ![s] = IF @ = "wait" /\ open[s] THEN "cancelled" ELSE @]
    BY <1>9 DEF CloseSock
  <2>2. dl' \in [Sess -> {"none", "wait", "due", "cancelled"}]
        /\ \A t \in Sess \ {s} : dl'[t] = dl[t]
    BY <2>1 DEF WatchInv, DeadlineType
  <2> QED
    BY <2>1, <2>2 DEF WatchInv, DeadlineType, Watched, Shut
<1>10. ASSUME NEW s \in Sess, CloseTimer(s) \/ CloseUnlock(s) PROVE WatchInv'
  <2>1. /\ UNCHANGED <<open, dl, life>> /\ cl[s] \in {"shut", "cancelled"}
        /\ \/ cl' = [cl EXCEPT ![s] = "cancelled"]
           \/ cl' = [cl EXCEPT ![s] = "none"]
    BY <1>10 DEF CloseTimer, CloseUnlock, sockVars, doneVars
  <2> QED
    BY <2>1 DEF WatchInv, DeadlineType, Watched, Shut
<1>11. CASE AcceptFails
  BY <1>11 DEF AcceptFails, WatchInv, DeadlineType, Watched, Shut, sockVars, doneVars
<1> QED
  BY <1>1, <1>2, <1>3, <1>4, <1>5, <1>6, <1>7, <1>8, <1>9, <1>10, <1>11
     DEF Next, Elsewhere, OnReadStep, CloseStep

(* An open connection is never forgotten: its deadline is running or its     *)
(* handler is to run, or it is being closed.                                 *)
THEOREM AlwaysWatched == Spec => []Watched
<1>1. WatchInv => Watched
  BY DEF WatchInv
<1> QED
  BY <1>1, WatchInit, WatchStep, PTL DEF Spec

-----------------------------------------------------------------------------
Where ==
    {"none", "created", "sleep", "gate", "sweep", "send", "write", "ended"}

(* What a session is in a map for: it is open, so that by Watched some       *)
(* completion keeps it alive, and it is entered under its own name, so that  *)
(* its Close erases it.                                                      *)
MapType ==
    /\ WatchInv
    /\ dtu \in [Sess -> Dtu \cup {Absent}]
    /\ reg \in [Sess -> {"new", "named", "known"}]
    /\ thr \in [Sess -> Where]
    /\ wr \in [Sess -> {"none", "wait", "look"}]
    /\ io \in [Sess -> {"idle", "info", "did", "sid", "decide"}]
    /\ didTo \in [Dtu -> Sess \cup {Absent, Null}]
    /\ sidTo \in [Dtu -> Sess \cup {Absent}]

Registering == {"info", "did", "sid"}

Sweeping == {"gate", "sweep", "send", "write"}

(* While a session registers, nothing else of it can close it.               *)
Undisturbed(s) ==
    /\ io[s] = "info" => reg[s] = "named"
    /\ io[s] \in {"did", "sid"} => reg[s] = "known"
    /\ io[s] \in Registering => cl[s] = "none"
    /\ reg[s] # "known" \/ io[s] \in Registering =>
         wr[s] = "none" /\ thr[s] \notin Sweeping
    /\ io[s] = "sid" /\ s \notin late => open[s]

Entered(s) ==
    \A d \in Dtu :
        /\ didTo[d] = s \/ sidTo[d] = s =>
             open[s] /\ reg[s] = "known" /\ dtu[s] = d
        /\ didTo[d] = s => cl[s] # "sid"

Session(s) ==
    /\ open[s] => life[s] = "live"
    /\ Undisturbed(s)
    /\ s \notin late => Entered(s)

MapInv == MapType /\ \A s \in Sess : Session(s)

LEMMA Nobody == Absent \notin Sess /\ Null \notin Sess
  BY RegistryAssumption

LEMMA MapInit == Init => MapInv
<1> SUFFICES ASSUME Init PROVE MapInv
  OBVIOUS
<1>1. MapType
  <2>1. WatchInv
    BY WatchInit
  <2> QED
    BY <2>1 DEF Init, MapType, Where
<1>2. \A s \in Sess : Session(s)
  BY Nobody DEF Init, Session, Undisturbed, Entered, Registering, Sweeping
<1> QED
  BY <1>1, <1>2 DEF MapInv

LEMMA MapsOwnedFollows == MapInv => MapsOwned
<1> SUFFICES ASSUME MapInv, NEW d \in Dtu, NEW s \in Sess \ late,
                    didTo[d] = s \/ sidTo[d] = s
             PROVE  life[s] = "live" /\ Handles(s)
  BY DEF MapsOwned
<1>1. open[s] /\ life[s] = "live"
  BY DEF MapInv, Session, Entered
<1> QED
  BY <1>1 DEF MapInv, MapType, WatchInv, Watched, Handles

(* The actions that change neither maps nor sockets nor who registers.       *)
Plain(s) ==
    \/ ThreadStart(s) \/ Arm(s) \/ SlaveTimer(s) \/ Receive(s) \/ Expire(s)

LEMMA PlainMaps ==
    ASSUME NEW s \in Sess, MapInv, WatchInv', Plain(s)
    PROVE  MapInv'
<1> USE DEF MapInv, MapType, Session, Undisturbed, Entered, Registering, Sweeping, Where
<1>1. /\ UNCHANGED <<life, dtu, reg, wr, io, cl, open, didTo, sidTo, late>>
      /\ thr' \in [Sess -> Where]
  BY DEF Plain, ThreadStart, Arm, SlaveTimer, Receive, Expire, sockVars, pollVars,
         doneVars, mapVars, histVars
<1>2. \A t \in Sess : thr'[t] \in Sweeping => thr[t] \in Sweeping
  BY DEF pollVars, Plain, ThreadStart, Arm, SlaveTimer, Receive, Expire
<1> QED
  BY <1>1, <1>2

LEMMA SweepMaps ==
    ASSUME NEW s \in Sess, MapInv, WatchInv',
           Wake(s) \/ Gate(s) \/ PollLock(s) \/ PollWrite(s)
    PROVE  MapInv'
<1> USE DEF MapInv, MapType, Session, Undisturbed, Entered, Registering, Sweeping, Where
<1>1. UNCHANGED <<life, dtu, reg, io, cl, open, didTo, sidTo, late>>
  BY DEF Wake, Gate, PollLock, PollWrite, sockVars, doneVars, mapVars, histVars
<1>2. /\ thr' \in [Sess -> Where]
      /\ \A t \in Sess \ {s} : thr'[t] = thr[t]
      /\ thr'[s] \in Sweeping =>
           \/ thr[s] \in Sweeping
           \/ reg[s] = "known" /\ io[s] \notin {"did", "sid"}
  BY RegistryAssumption DEF Wake, Gate, PollLock, PollWrite, OnwardTo
<1>3. /\ wr' \in [Sess -> {"none", "wait", "look"}]
      /\ \A t \in Sess \ {s} : wr'[t] = wr[t]
      /\ wr'[s] = wr[s] \/ thr[s] \in Sweeping
  BY DEF Wake, Gate, PollLock, PollWrite, doneVars
<1> QED
  BY <1>1, <1>2, <1>3

LEMMA AcceptMaps ==
    ASSUME NEW s \in Sess, MapInv, WatchInv', Accept(s)
    PROVE  MapInv'
<1> USE DEF MapInv, MapType, Session, Undisturbed, Entered, Registering, Sweeping, Where
<1>1. /\ UNCHANGED <<reg, wr, io, cl, didTo, sidTo, late>>
      /\ life' = [life EXCEPT ![s] = "live"] /\ open' = [open EXCEPT ![s] = TRUE]
      /\ \E d \in Dtu : dtu' = [dtu EXCEPT ![s] = d]
      /\ \/ thr' = [thr EXCEPT ![s] = "created"]
         \/ thr' = [thr EXCEPT ![s] = "sleep"]
      /\ life[s] = "free"
  BY DEF Accept, mapVars
<1>2. /\ dtu' \in [Sess -> Dtu \cup {Absent}]
      /\ thr' \in [Sess -> Where]
  BY <1>1
<1>3. \A t \in Sess \ {s} : /\ life'[t] = life[t] /\ open'[t] = open[t]
                            /\ dtu'[t] = dtu[t] /\ thr'[t] = thr[t]
  BY <1>1
<1>4. thr'[s] \in {"created", "sleep"} /\ life'[s] = "live" /\ open'[s]
  BY <1>1 DEF WatchInv, DeadlineType
<1>5. ~open[s]
  BY <1>1
<1>6. Session(s)'
  BY <1>1, <1>4, <1>5
<1> QED
  BY <1>1, <1>2, <1>3, <1>6

LEMMA ReadMaps ==
    ASSUME NEW s \in Sess, MapInv, WatchInv', OnRead(s) \/ GetDevInfo(s)
    PROVE  MapInv'
<1> USE DEF MapInv, MapType, Session, Undisturbed, Entered, Registering, Sweeping, Where
<1>1. UNCHANGED <<life, dtu, thr, wr, cl, open, sidTo, late>>
  BY DEF pollVars, OnRead, GetDevInfo, sockVars, doneVars, mapVars, histVars
<1>2. /\ reg' \in [Sess -> {"new", "named", "known"}]
      /\ io' \in [Sess -> {"idle", "info", "did", "sid", "decide"}]
      /\ \A t \in Sess \ {s} : reg'[t] = reg[t] /\ io'[t] = io[t]
  BY DEF OnRead, GetDevInfo
<1>3. /\ didTo' \in [Dtu -> Sess \cup {Absent, Null}]
      /\ \A d \in Dtu : didTo'[d] = didTo[d] \/ didTo'[d] = Null
  BY DEF OnRead, GetDevInfo, Lookup, mapVars
<1>4. \/ io'[s] = "decide" /\ reg'[s] = reg[s]
      \/ io'[s] = "info" /\ reg[s] = "new" /\ reg'[s] = "named" /\ cl[s] = "none"
      \/ io[s] = "info" /\ io'[s] = "did" /\ reg'[s] = "known"
  BY DEF OnRead, GetDevInfo, CanRun
<1>5. Session(s)'
  BY <1>1, <1>2, <1>3, <1>4, Nobody
<1>6. \A t \in Sess \ {s} : Session(t)'
  BY <1>1, <1>2, <1>3, Nobody
<1> QED
  BY <1>1, <1>2, <1>3, <1>5, <1>6

(* An entry made or erased under one name leaves the other entries alone.    *)
LEMMA EntryOf ==
    ASSUME NEW f, NEW D, NEW V, NEW k, NEW v \in V, f \in [D -> V]
    PROVE  /\ [f EXCEPT ![k] = v] \in [D -> V]
           /\ \A d \in D : [f EXCEPT ![k] = v][d] = IF d = k THEN v ELSE f[d]
<1>1. [f EXCEPT ![k] = v] \in [D -> V]
  OBVIOUS
<1>2. \A d \in D : [f EXCEPT ![k] = v][d] = IF d = k THEN v ELSE f[d]
  OBVIOUS
<1> QED
  BY <1>1, <1>2

(* The two halves of the registration: a session that is entered while it is *)
(* closed becomes late.                                                      *)
LEMMA SetDidMaps ==
    ASSUME NEW s \in Sess, MapInv, WatchInv', SetDid(s)
    PROVE  MapInv'
<1> USE DEF MapInv, MapType, Session, Undisturbed, Entered, Registering, Sweeping, Where
<1>1. /\ UNCHANGED <<life, dtu, reg, thr, wr, cl, open, sidTo>>
      /\ io[s] = "did" /\ io' = [io EXCEPT ![s] = "sid"]
      /\ didTo' = [didTo EXCEPT ![dtu[s]] = s]
      /\ late' = IF open[s] THEN late ELSE late \cup {s}
  BY DEF pollVars, SetDid, sockVars, doneVars
<1>2. /\ io' \in [Sess -> {"idle", "info", "did", "sid", "decide"}]
      /\ \A t \in Sess \ {s} : io'[t] = io[t]
      /\ io'[s] = "sid"
  BY <1>1
<1>3. /\ didTo' \in [Dtu -> Sess \cup {Absent, Null}]
      /\ \A d \in Dtu : didTo'[d] = IF d = dtu[s] THEN s ELSE didTo[d]
  <2>1. didTo \in [Dtu -> Sess \cup {Absent, Null}] /\ s \in Sess \cup {Absent, Null}
    OBVIOUS
  <2> HIDE DEF MapInv, MapType, Session, Undisturbed, Entered, Registering
  <2> QED
    BY <1>1, <2>1, EntryOf
<1>4. \A t \in Sess \ {s} : t \in late' <=> t \in late
  BY <1>1
<1>5. Session(s)'
  BY <1>1, <1>2, <1>3
<1>6. \A t \in Sess \ {s} : Session(t)'
  BY <1>1, <1>2, <1>3, <1>4
<1> QED
  BY <1>1, <1>2, <1>3, <1>5, <1>6

LEMMA SetSidMaps ==
    ASSUME NEW s \in Sess, MapInv, WatchInv', SetSid(s)
    PROVE  MapInv'
<1> USE DEF MapInv, MapType, Session, Undisturbed, Entered, Registering, Sweeping, Where
<1>1. /\ UNCHANGED <<life, dtu, reg, thr, wr, cl, open, didTo, late>>
      /\ io[s] = "sid" /\ io' = [io EXCEPT ![s] = "decide"]
      /\ sidTo' = [sidTo EXCEPT ![dtu[s]] = s]
  BY DEF pollVars, SetSid, EnterSid, sockVars, histVars
<1>2. /\ io' \in [Sess -> {"idle", "info", "did", "sid", "decide"}]
      /\ \A t \in Sess \ {s} : io'[t] = io[t]
      /\ io'[s] = "decide"
  BY <1>1
<1>3. /\ sidTo' \in [Dtu -> Sess \cup {Absent}]
      /\ \A d \in Dtu : sidTo'[d] = IF d = dtu[s] THEN s ELSE sidTo[d]
  <2>1. sidTo \in [Dtu -> Sess \cup {Absent}] /\ s \in Sess \cup {Absent}
    OBVIOUS
  <2> HIDE DEF MapInv, MapType, Session, Undisturbed, Entered, Registering
  <2> QED
    BY <1>1, <2>1, EntryOf
<1>4. Session(s)'
  BY <1>1, <1>2, <1>3
<1>5. \A t \in Sess \ {s} : Session(t)'
  BY <1>1, <1>2, <1>3
<1> QED
  BY <1>1, <1>2, <1>3, <1>4, <1>5

(* The actions that may decide to close, none of them while s registers.     *)
LEMMA DecideMaps ==
    ASSUME NEW s \in Sess, MapInv, WatchInv',
           \/ OnReadDecide(s) \/ CheckDeadline(s)
           \/ OnWriteBegin(s) \/ OnWriteEnd(s)
    PROVE  MapInv'
<1> USE DEF MapInv, MapType, Session, Undisturbed, Entered, Registering, Sweeping, Where
<1>1. UNCHANGED <<life, dtu, reg, thr, open, sidTo, late>>
  BY DEF OnReadDecide, CheckDeadline, OnWriteBegin, OnWriteEnd, sockVars, pollVars,
         mapVars, histVars
<1>2. /\ io' \in [Sess -> {"idle", "info", "did", "sid", "decide"}]
      /\ wr' \in [Sess -> {"none", "wait", "look"}]
      /\ \A t \in Sess : io'[t] = io[t] \/ io'[t] = "idle"
      /\ \A t \in Sess : wr[t] = "none" => wr'[t] = "none"
  BY DEF OnReadDecide, CheckDeadline, OnWriteBegin, OnWriteEnd, doneVars
<1>3. /\ didTo' \in [Dtu -> Sess \cup {Absent, Null}]
      /\ \A d \in Dtu : didTo'[d] = didTo[d] \/ didTo'[d] = Null
  BY DEF OnReadDecide, CheckDeadline, OnWriteBegin, OnWriteEnd, Lookup, mapVars
<1>4. /\ \A t \in Sess \ {s} : cl'[t] = cl[t]
      /\ cl'[s] = cl[s] \/ (cl'[s] = "did" /\ io'[s] \notin Registering)
  <2>1. CASE OnReadDecide(s)
    BY <2>1 DEF OnReadDecide, ToClose, WatchInv, DeadlineType
  <2>2. CASE CheckDeadline(s)
    BY <2>2 DEF CheckDeadline, ToClose, CanRun, WatchInv, DeadlineType
  <2>3. CASE OnWriteBegin(s)
    BY <2>3 DEF OnWriteBegin
  <2>4. CASE OnWriteEnd(s)
    <3>1. io[s] \notin Registering /\ UNCHANGED io
      BY <2>4 DEF OnWriteEnd
    <3> QED
      BY <2>4, <3>1 DEF OnWriteEnd, ToClose, WatchInv, DeadlineType
  <2> QED
    BY <2>1, <2>2, <2>3, <2>4
<1>5. \A t \in Sess : Undisturbed(t)'
  BY <1>1, <1>2, <1>4
<1>6. \A t \in Sess : t \notin late' => Entered(t)'
  BY <1>1, <1>3, <1>4, Nobody
<1> QED
  BY <1>1, <1>2, <1>3, <1>5, <1>6

(* Close erases the entries of s, in the order of the code.                  *)
LEMMA CloseDidMaps ==
    ASSUME NEW s \in Sess, MapInv, WatchInv', CloseDid(s)
    PROVE  MapInv'
<1> USE DEF MapInv, MapType, Session, Undisturbed, Entered, Registering, Sweeping, Where
<1>1. /\ UNCHANGED <<life, dtu, reg, thr, wr, io, open, sidTo, late>>
      /\ cl[s] = "did" /\ cl' = [cl EXCEPT ![s] = "sid"]
      /\ didTo' = IF reg[s] = "new" THEN didTo ELSE [didTo EXCEPT ![dtu[s]] = Absent]
  BY DEF pollVars, CloseDid, EraseDid, sockVars, doneVars, histVars
<1>2. /\ didTo' \in [Dtu -> Sess \cup {Absent, Null}]
      /\ \A d \in Dtu : didTo'[d] = didTo[d] \/ didTo'[d] = Absent
      /\ \A d \in Dtu : reg[s] = "known" /\ d = dtu[s] => didTo'[d] = Absent
  <2>1. didTo \in [Dtu -> Sess \cup {Absent, Null}] /\ Absent \in Sess \cup {Absent, Null}
    OBVIOUS
  <2> HIDE DEF MapInv, MapType, Session, Undisturbed, Entered, Registering
  <2> QED
    BY <1>1, <2>1, EntryOf
<1>3. cl'[s] = "sid" /\ \A t \in Sess \ {s} : cl'[t] = cl[t]
  BY <1>1 DEF WatchInv, DeadlineType
<1>4. Session(s)'
  BY <1>1, <1>2, <1>3, Nobody
<1>5. \A t \in Sess \ {s} : Session(t)'
  BY <1>1, <1>2, <1>3, Nobody
<1> QED
  BY <1>1, <1>2, <1>4, <1>5

LEMMA CloseSockMaps ==
    ASSUME NEW s \in Sess, MapInv, WatchInv', CloseSock(s)
    PROVE  MapInv'
<1> USE DEF MapInv, MapType, Session, Undisturbed, Entered, Registering, Sweeping, Where
<1>1. /\ UNCHANGED <<life, dtu, reg, thr, wr, io, didTo, late>>
      /\ cl[s] = "sid"
      /\ cl' = [cl EXCEPT ![s] = IF open[s] THEN "shut" ELSE "none"]
      /\ open' = [open EXCEPT ![s] = FALSE]
      /\ sidTo' = IF reg[s] = "known" THEN [sidTo EXCEPT ![dtu[s]] = Absent] ELSE sidTo
  BY DEF pollVars, CloseSock, EraseSid, histVars
<1>2. /\ sidTo' \in [Dtu -> Sess \cup {Absent}]
      /\ \A d \in Dtu : sidTo'[d] = sidTo[d] \/ sidTo'[d] = Absent
      /\ \A d \in Dtu : reg[s] = "known" /\ d = dtu[s] => sidTo'[d] = Absent
  <2>1. sidTo \in [Dtu -> Sess \cup {Absent}] /\ Absent \in Sess \cup {Absent}
    OBVIOUS
  <2> HIDE DEF MapInv, MapType, Session, Undisturbed, Entered, Registering
  <2> QED
    BY <1>1, <2>1, EntryOf
<1>3. /\ cl'[s] \in {"none", "shut"} /\ ~open'[s]
      /\ \A t \in Sess \ {s} : cl'[t] = cl[t] /\ open'[t] = open[t]
  BY <1>1 DEF WatchInv, DeadlineType
<1>4. Session(s)'
  BY <1>1, <1>2, <1>3, Nobody
<1>5. \A t \in Sess \ {s} : Session(t)'
  BY <1>1, <1>2, <1>3, Nobody
<1> QED
  BY <1>1, <1>2, <1>4, <1>5

(* The end of Close, when the entries are erased and the socket is closed.   *)
LEMMA CloseEndMaps ==
    ASSUME NEW s \in Sess, MapInv, WatchInv', CloseTimer(s) \/ CloseUnlock(s)
    PROVE  MapInv'
<1> USE DEF MapInv, MapType, Session, Undisturbed, Entered, Registering, Sweeping, Where
<1>1. /\ UNCHANGED <<life, dtu, reg, thr, wr, io, open, didTo, sidTo, late>>
      /\ cl[s] \in {"shut", "cancelled"}
      /\ \A t \in Sess \ {s} : cl'[t] = cl[t]
      /\ cl'[s] \in {"cancelled", "none"}
  BY DEF CloseTimer, CloseUnlock, sockVars, pollVars, doneVars, mapVars, histVars,
     WatchInv, DeadlineType
<1>2. ~open[s]
  BY <1>1 DEF WatchInv, Shut
<1>3. Session(s)'
  BY <1>1, <1>2
<1>4. \A t \in Sess \ {s} : Session(t)'
  BY <1>1
<1> QED
  BY <1>1, <1>3, <1>4

LEMMA DestroyMaps ==
    ASSUME NEW s \in Sess, MapInv, WatchInv', Destroy(s) \/ Joined(s)
    PROVE  MapInv'
<1> USE DEF MapInv, MapType, Session, Undisturbed, Entered, Registering, Sweeping, Where
<1>1. UNCHANGED <<dtu, reg, thr, wr, io, cl, open, didTo, sidTo, late>>
  BY DEF Destroy, Joined, sockVars, pollVars, doneVars, mapVars, histVars
<1>2. \A t \in Sess \ {s} : life'[t] = life[t]
  BY DEF Destroy, Joined, WatchInv, DeadlineType
<1>3. ~open[s]
  BY DEF Destroy, Joined, Handles, WatchInv, Watched
<1> QED
  BY <1>1, <1>2, <1>3

LEMMA MapStep == MapInv /\ [Next]_vars => MapInv'
<1> SUFFICES ASSUME MapInv, [Next]_vars PROVE MapInv'
  OBVIOUS
<1>1. WatchInv'
  BY WatchStep DEF MapInv, MapType
<1>2. CASE UNCHANGED vars
  BY <1>1, <1>2 DEF vars, sockVars, doneVars, mapVars, histVars, MapInv, MapType,
     Session, Undisturbed, Entered, Registering, Sweeping, pollVars
<1>3. CASE AcceptFails
  BY <1>1, <1>3 DEF AcceptFails, sockVars, pollVars, doneVars, mapVars, histVars,
     MapInv, MapType, Session, Undisturbed, Entered, Registering, Sweeping
<1> QED
  BY <1>1, <1>2, <1>3, PlainMaps, SweepMaps, AcceptMaps, ReadMaps, SetDidMaps, SetSidMaps,
     DecideMaps, CloseDidMaps, CloseSockMaps, CloseEndMaps,
     DestroyMaps
     DEF Next, PollStep, OnReadStep, CloseStep, Plain

(* The maps point to sessions that some completion keeps alive, so that the  *)
(* agent thread uses no session that is gone, except for those that          *)
(* registered after they were closed.                                        *)
THEOREM MapsPointToLiveSessions == Spec => []MapsOwned
<1> QED
  BY MapInit, MapStep, MapsOwnedFollows, PTL DEF Spec
-----------------------------------------------------------------------------
(* The rest of the types.                                                    *)
RestType ==
    /\ isClose \in [Sess -> BOOLEAN] /\ disc \in [Sess -> BOOLEAN]
    /\ active \in [Sess -> BOOLEAN] /\ heard \in [Sess -> BOOLEAN]
    /\ rd \in [Sess -> {"none", "wait", "bytes", "error"}]
    /\ st \in [Sess -> {"none", "wait", "cancelled"}]
    /\ mutex \in [Sess -> BOOLEAN] /\ flag \in [Sess -> BOOLEAN]
    /\ bytes \in 0..MaxBytes /\ sweeps \in 0..MaxSweeps
    /\ accepting \in BOOLEAN /\ died \in BOOLEAN
    /\ late \subseteq Sess /\ met \subseteq Dtu

FullInv == MapInv /\ RestType

LEMMA RestInit == Init => RestType
<1> SUFFICES ASSUME Init PROVE RestType
  OBVIOUS
<1>1. 0 \in 0..MaxBytes /\ 0 \in 0..MaxSweeps
  BY RegistryAssumption
<1>2. /\ isClose \in [Sess -> BOOLEAN] /\ disc \in [Sess -> BOOLEAN]
      /\ active \in [Sess -> BOOLEAN] /\ heard \in [Sess -> BOOLEAN]
      /\ rd \in [Sess -> {"none", "wait", "bytes", "error"}]
      /\ st \in [Sess -> {"none", "wait", "cancelled"}]
      /\ mutex \in [Sess -> BOOLEAN] /\ flag \in [Sess -> BOOLEAN]
  BY DEF Init
<1>3. bytes = 0 /\ sweeps = 0 /\ accepting = TRUE /\ died = FALSE /\ late = {} /\ met = {}
  BY DEF Init
<1> QED
  BY <1>1, <1>2, <1>3 DEF RestType

LEMMA TypesFollow == FullInv => TypeOK
  BY DEF FullInv, MapInv, MapType, WatchInv, DeadlineType, RestType,
     TypeOK, Where

LEMMA ToCloseTypes ==
    ASSUME NEW s \in Sess, RestType,
           ToClose(s) \/ UNCHANGED <<cl, disc, active>>
    PROVE  disc' \in [Sess -> BOOLEAN] /\ active' \in [Sess -> BOOLEAN]
  BY DEF ToClose, RestType

LEMMA RestStep == FullInv /\ [Next]_vars => RestType'
<1> SUFFICES ASSUME FullInv, [Next]_vars PROVE RestType'
  OBVIOUS
<1> USE DEF RestType
<1>0. RestType
  BY DEF FullInv
<1>1. CASE UNCHANGED vars
  BY <1>0, <1>1 DEF vars, sockVars, doneVars, pollVars, countVars, procVars, histVars
<1>2. ASSUME NEW s \in Sess, Accept(s) PROVE RestType'
  <2>1. /\ UNCHANGED <<isClose, disc, heard, st, mutex, flag, bytes, sweeps, accepting,
                    died, late>>
        /\ active' \in [Sess -> BOOLEAN]
        /\ rd' = [rd EXCEPT ![s] = "wait"]
    BY <1>0, <1>2 DEF Accept, pollVars, countVars, procVars
  <2>2. met' \subseteq Dtu
    BY <1>0, <1>2 DEF Accept
  <2> QED
    BY <1>0, <2>1, <2>2
<1>3. ASSUME NEW s \in Sess, ThreadStart(s) \/ PollStep(s) \/ SlaveTimer(s)
      PROVE  RestType'
  <2> USE DEF PollStep
  <2>1. /\ UNCHANGED <<isClose, disc, heard, rd, bytes, accepting, late, met>>
        /\ active' \in [Sess -> BOOLEAN]
        /\ st' \in [Sess -> {"none", "wait", "cancelled"}]
        /\ died' \in BOOLEAN
    BY <1>0, <1>3 DEF ThreadStart, Wake, Gate, PollLock, PollWrite, SlaveTimer, Arm,
       sockVars, doneVars, countVars, procVars, histVars
  <2>2. mutex' \in [Sess -> BOOLEAN] /\ flag' \in [Sess -> BOOLEAN]
    BY <1>0, <1>3 DEF ThreadStart, Wake, Gate, PollLock, PollWrite, SlaveTimer, Arm
  <2>3. sweeps' \in 0..MaxSweeps
    BY <1>0, <1>3, RegistryAssumption DEF ThreadStart, Wake, Gate, PollLock, PollWrite,
       SlaveTimer, Arm, countVars
  <2> QED
    BY <1>0, <2>1, <2>2, <2>3
<1>4. ASSUME NEW s \in Sess, Receive(s) \/ Expire(s) PROVE RestType'
  <2>1. /\ UNCHANGED <<isClose, disc, active, heard, st, mutex, flag, sweeps, accepting,
                    died, late, met>>
        /\ rd' \in [Sess -> {"none", "wait", "bytes", "error"}]
    BY <1>0, <1>4 DEF Receive, Expire, sockVars, pollVars, countVars,
       procVars, histVars
  <2>2. bytes' \in 0..MaxBytes
    BY <1>0, <1>4, RegistryAssumption DEF Receive, Expire, pollVars, countVars, procVars
  <2> QED
    BY <1>0, <2>1, <2>2
<1>5. ASSUME NEW s \in Sess, OnRead(s) PROVE RestType'
  <2>1. UNCHANGED <<disc, active, st, flag, bytes, sweeps, accepting, died, late, met>>
    BY <1>5 DEF OnRead, pollVars, countVars, procVars, histVars
  <2>2. heard' \in [Sess -> BOOLEAN]
    BY <1>0, <1>5 DEF OnRead
  <2>3. /\ isClose' \in [Sess -> BOOLEAN]
        /\ rd' \in [Sess -> {"none", "wait", "bytes", "error"}]
    BY <1>0, <1>5 DEF OnRead
  <2>4. mutex' \in [Sess -> BOOLEAN]
    <3>1. UNCHANGED mutex \/ \E b \in BOOLEAN : mutex' = [mutex EXCEPT ![s] = @ /\ b]
      BY <1>5 DEF OnRead
    <3> QED
      BY <1>0, <3>1
  <2> QED
    BY <1>0, <2>1, <2>2, <2>3, <2>4
<1>6. ASSUME NEW s \in Sess, GetDevInfo(s) \/ SetDid(s) \/ SetSid(s)
      PROVE  RestType'
  <2>1. /\ UNCHANGED <<disc, active, heard, st, mutex, flag, bytes, sweeps, accepting,
                    died, met>>
        /\ isClose' \in [Sess -> BOOLEAN]
        /\ rd' \in [Sess -> {"none", "wait", "bytes", "error"}]
        /\ late' \subseteq Sess
    BY <1>0, <1>6 DEF GetDevInfo, SetDid, SetSid, sockVars, doneVars,
       pollVars, countVars, procVars, histVars
  <2> QED
    BY <1>0, <2>1
<1>7. ASSUME NEW s \in Sess, OnReadDecide(s) \/ CheckDeadline(s) PROVE RestType'
  <2>1. /\ UNCHANGED <<isClose, rd, st, mutex, flag, bytes, sweeps, accepting,
                    died, late, met>>
        /\ heard' \in [Sess -> BOOLEAN]
    BY <1>0, <1>7 DEF OnReadDecide, CheckDeadline, doneVars, pollVars,
       countVars, procVars, histVars
  <2>2. ToClose(s) \/ UNCHANGED <<cl, disc, active>>
    BY <1>7 DEF OnReadDecide, CheckDeadline
  <2> QED
    BY <1>0, <2>1, <2>2, ToCloseTypes
<1>8. ASSUME NEW s \in Sess, OnWriteBegin(s) \/ OnWriteEnd(s) PROVE RestType'
  <2>1. /\ UNCHANGED <<heard, rd, st, mutex, flag, bytes, sweeps, accepting,
                    died, late, met>>
        /\ isClose' \in [Sess -> BOOLEAN]
    BY <1>0, <1>8 DEF OnWriteBegin, OnWriteEnd, pollVars, countVars, procVars, histVars
  <2>2. ToClose(s) \/ UNCHANGED <<cl, disc, active>>
    BY <1>8 DEF OnWriteBegin, OnWriteEnd
  <2> QED
    BY <1>0, <2>1, <2>2, ToCloseTypes
<1>9. ASSUME NEW s \in Sess, CloseStep(s) \/ Destroy(s) \/ Joined(s)
      PROVE  RestType'
  <2> USE DEF CloseStep
  <2>1. /\ UNCHANGED <<isClose, disc, active, heard, flag, bytes, sweeps, accepting,
                       died, late, met>>
        /\ rd' \in [Sess -> {"none", "wait", "bytes", "error"}]
    BY <1>0, <1>9 DEF CloseDid, CloseSock, CancelRead, CloseTimer, CloseUnlock,
       Destroy, Joined, sockVars, doneVars, pollVars, countVars, procVars, histVars
  <2>2. /\ st' \in [Sess -> {"none", "wait", "cancelled"}]
        /\ mutex' \in [Sess -> BOOLEAN]
    BY <1>0, <1>9 DEF CloseDid, CloseSock, CloseTimer, CloseUnlock, Destroy, Joined,
       doneVars, pollVars
  <2> QED
    BY <1>0, <2>1, <2>2
<1>10. CASE AcceptFails
  BY <1>0, <1>10 DEF AcceptFails, sockVars, doneVars, pollVars, histVars
<1> QED
  BY <1>1, <1>2, <1>3, <1>4, <1>5, <1>6, <1>7, <1>8, <1>9, <1>10
     DEF Next, OnReadStep

(* Every counter and every state of a completion, a thread or a map entry    *)
(* keeps its type.                                                           *)
THEOREM RegistryTypes == Spec => []TypeOK
<1>1. Init => FullInv
  BY MapInit, RestInit DEF FullInv
<1>2. FullInv /\ [Next]_vars => FullInv'
  BY MapStep, RestStep DEF FullInv
<1> QED
  BY <1>1, <1>2, TypesFollow, PTL DEF Spec

-----------------------------------------------------------------------------
(* A session that has no completion left never gets one again, so that while *)
(* a DTU has not met another of its sessions, only one of them acts.         *)
Fresh(s) == life[s] = "free" => reg[s] = "new" /\ ~Handles(s)

Owned(s) == life[s] # "free" => dtu[s] \in Dtu

Alone(s) ==
    \A t \in Sess : dtu[s] = dtu[t] /\ dtu[s] \notin met /\ Handles(s) /\ Handles(t)
        => s = t

(* Its entries are those that its registration has made so far.              *)
Found(s) ==
    reg[s] = "known" /\ open[s] /\ cl[s] = "none" /\ dtu[s] \notin met =>
        /\ io[s] # "did" => didTo[dtu[s]] = s
        /\ io[s] \notin {"did", "sid"} => sidTo[dtu[s]] = s

OwnInv ==
    /\ FullInv
    /\ \A s \in Sess : Fresh(s) /\ Owned(s) /\ Alone(s) /\ Found(s)

LEMMA OwnInit == Init => OwnInv
<1>1. Init => FullInv
  BY MapInit, RestInit DEF FullInv
<1> QED
  BY <1>1 DEF Init, OwnInv, Fresh, Owned, Alone, Found, Handles

Act(s) ==
    \/ Accept(s) \/ ThreadStart(s) \/ PollStep(s) \/ SlaveTimer(s)
    \/ Receive(s) \/ OnReadStep(s) \/ Expire(s) \/ CheckDeadline(s)
    \/ OnWriteBegin(s) \/ OnWriteEnd(s) \/ CloseStep(s)
    \/ Destroy(s) \/ Joined(s)

(* An action of s leaves the completions of the others alone.                *)
Apart(s) ==
    \A t \in Sess \ {s} :
        /\ rd'[t] = rd[t] /\ dl'[t] = dl[t] /\ st'[t] = st[t] /\ wr'[t] = wr[t]
        /\ io'[t] = io[t] /\ cl'[t] = cl[t]
        /\ life'[t] = life[t] /\ dtu'[t] = dtu[t] /\ reg'[t] = reg[t]
        /\ open'[t] = open[t]

LEMMA StaysApart ==
    ASSUME NEW s \in Sess, FullInv, Act(s)
    PROVE  Apart(s)
<1> USE DEF Apart, sockVars, doneVars
<1>0. /\ DOMAIN rd = Sess /\ DOMAIN dl = Sess /\ DOMAIN st = Sess /\ DOMAIN wr = Sess
      /\ DOMAIN io = Sess /\ DOMAIN cl = Sess /\ DOMAIN life = Sess
      /\ DOMAIN dtu = Sess /\ DOMAIN reg = Sess /\ DOMAIN open = Sess
  BY DEF FullInv, MapInv, MapType, WatchInv, DeadlineType, RestType
<1>1. CASE Accept(s)
  BY <1>0, <1>1 DEF Accept
<1>2. CASE ThreadStart(s)
  BY <1>0, <1>2 DEF ThreadStart
<1>3. CASE Wake(s)
  BY <1>0, <1>3 DEF Wake
<1>4. CASE Arm(s)
  BY <1>0, <1>4 DEF Arm
<1>5. CASE PollWrite(s)
  BY <1>0, <1>5 DEF PollWrite
<1>6. CASE SlaveTimer(s)
  BY <1>0, <1>6 DEF SlaveTimer
<1>7. CASE Receive(s)
  BY <1>0, <1>7 DEF Receive
<1>8. CASE OnRead(s)
  BY <1>0, <1>8 DEF OnRead
<1>9. CASE GetDevInfo(s)
  BY <1>0, <1>9 DEF GetDevInfo
<1>10. CASE SetDid(s)
  BY <1>0, <1>10 DEF SetDid
<1>11. CASE SetSid(s)
  BY <1>0, <1>11 DEF SetSid
<1>12. CASE OnReadDecide(s)
  BY <1>0, <1>12 DEF OnReadDecide, ToClose
<1>13. CASE Expire(s)
  BY <1>0, <1>13 DEF Expire
<1>14. CASE CheckDeadline(s)
  BY <1>0, <1>14 DEF CheckDeadline, ToClose, Rearm
<1>15. CASE OnWriteBegin(s)
  BY <1>0, <1>15 DEF OnWriteBegin
<1>16. CASE OnWriteEnd(s)
  BY <1>0, <1>16 DEF OnWriteEnd, ToClose
<1>17. CASE CloseDid(s)
  BY <1>0, <1>17 DEF CloseDid
<1>18. CASE CloseSock(s)
  BY <1>0, <1>18 DEF CloseSock, CancelRead
<1>19. CASE Destroy(s)
  BY <1>0, <1>19 DEF Destroy
<1>20. CASE Joined(s)
  BY <1>0, <1>20 DEF Joined
<1>21. CASE Gate(s)
  BY <1>0, <1>21 DEF Gate
<1>22. CASE PollLock(s)
  BY <1>0, <1>22 DEF PollLock
<1>23. CASE CloseTimer(s)
  BY <1>0, <1>23 DEF CloseTimer
<1>24. CASE CloseUnlock(s)
  BY <1>0, <1>24 DEF CloseUnlock
<1> QED
  BY <1>1, <1>2, <1>3, <1>4, <1>5, <1>6, <1>7, <1>8, <1>9, <1>10,
     <1>11, <1>12, <1>13, <1>14, <1>15, <1>16, <1>17, <1>18, <1>19, <1>20,
     <1>21, <1>22, <1>23, <1>24
     DEF Act, PollStep, OnReadStep, CloseStep

(* An action of s needs a completion of s to touch a map, and touches the    *)
(* entries of its own DTU only; no action but Accept revives a session.      *)
Modest(s) ==
    /\ dtu' = dtu /\ met' = met
    /\ Handles(s)' => Handles(s)
    /\ Handles(s) \/ UNCHANGED <<mapVars, reg>>
    /\ \A d \in Dtu \ {dtu[s]} : didTo'[d] = didTo[d] /\ sidTo'[d] = sidTo[d]

LEMMA StaysModest ==
    ASSUME NEW s \in Sess, FullInv, Act(s), ~Accept(s)
    PROVE  Modest(s)
<1> USE DEF Modest, Handles, sockVars, doneVars, mapVars, histVars
<1>0. /\ rd \in [Sess -> {"none", "wait", "bytes", "error"}]
      /\ dl \in [Sess -> {"none", "wait", "due", "cancelled"}]
      /\ st \in [Sess -> {"none", "wait", "cancelled"}]
      /\ wr \in [Sess -> {"none", "wait", "look"}]
      /\ io \in [Sess -> {"idle", "info", "did", "sid", "decide"}]
      /\ cl \in [Sess -> {"none", "did", "sid", "shut", "cancelled"}]
      /\ didTo \in [Dtu -> Sess \cup {Absent, Null}]
      /\ sidTo \in [Dtu -> Sess \cup {Absent}]
      /\ open[s] => dl[s] \in {"wait", "due"} \/ cl[s] # "none"
  BY DEF FullInv, MapInv, MapType, WatchInv, DeadlineType, Watched, RestType
<1>1. CASE ThreadStart(s)
  BY <1>0, <1>1 DEF ThreadStart
<1>2. CASE Wake(s)
  BY <1>0, <1>2 DEF Wake
<1>3. CASE Arm(s)
  BY <1>0, <1>3 DEF Arm
<1>4. CASE PollWrite(s)
  BY <1>0, <1>4 DEF PollWrite
<1>5. CASE SlaveTimer(s)
  BY <1>0, <1>5 DEF SlaveTimer
<1>6. CASE Receive(s)
  BY <1>0, <1>6 DEF Receive
<1>7. CASE OnRead(s)
  BY <1>0, <1>7 DEF OnRead, Lookup, CanRun
<1>8. CASE GetDevInfo(s)
  BY <1>0, <1>8 DEF GetDevInfo
<1>9. CASE SetDid(s)
  BY <1>0, <1>9 DEF SetDid
<1>10. CASE SetSid(s)
  BY <1>0, <1>10 DEF SetSid, EnterSid
<1>11. CASE OnReadDecide(s)
  BY <1>0, <1>11 DEF OnReadDecide, ToClose
<1>12. CASE Expire(s)
  BY <1>0, <1>12 DEF Expire
<1>13. CASE CheckDeadline(s)
  BY <1>0, <1>13 DEF CheckDeadline, ToClose, Rearm, CanRun
<1>14. CASE OnWriteBegin(s)
  BY <1>0, <1>14 DEF OnWriteBegin
<1>15. CASE OnWriteEnd(s)
  BY <1>0, <1>15 DEF OnWriteEnd, ToClose, Lookup
<1>16. CASE CloseDid(s)
  BY <1>0, <1>16 DEF CloseDid, EraseDid
<1>17. CASE CloseSock(s)
  BY <1>0, <1>17 DEF CloseSock, EraseSid, CancelRead
<1>18. CASE Destroy(s)
  BY <1>0, <1>18 DEF Destroy
<1>19. CASE Joined(s)
  BY <1>0, <1>19 DEF Joined
<1>20. CASE Gate(s)
  BY <1>0, <1>20 DEF Gate
<1>21. CASE PollLock(s)
  BY <1>0, <1>21 DEF PollLock
<1>22. CASE CloseTimer(s)
  BY <1>0, <1>22 DEF CloseTimer
<1>23. CASE CloseUnlock(s)
  BY <1>0, <1>23 DEF CloseUnlock
<1> QED
  BY <1>1, <1>2, <1>3, <1>4, <1>5, <1>6, <1>7, <1>8, <1>9, <1>10,
     <1>11, <1>12, <1>13, <1>14, <1>15, <1>16, <1>17, <1>18, <1>19,
     <1>20, <1>21, <1>22, <1>23
     DEF Act, PollStep, OnReadStep, CloseStep

LEMMA AcceptOwn ==
    ASSUME NEW s \in Sess, OwnInv, FullInv', Accept(s)
    PROVE  OwnInv'
<1> USE DEF Fresh, Owned, Found
<1>0. /\ life \in [Sess -> {"free", "live", "joining", "gone"}]
      /\ dtu \in [Sess -> Dtu \cup {Absent}] /\ Apart(s)
  BY StaysApart DEF OwnInv, FullInv, MapInv, MapType, WatchInv, DeadlineType, Act
<1>1. PICK d \in Dtu :
        /\ dtu' = [dtu EXCEPT ![s] = d]
        /\ met' = IF \E t \in Sess : dtu[t] = d /\ Handles(t)
                  THEN met \cup {d} ELSE met
  BY DEF Accept
<1>2. /\ UNCHANGED <<reg, didTo, sidTo>> /\ reg[s] = "new"
      /\ life'[s] = "live" /\ dtu'[s] = d
  BY <1>0, <1>1 DEF Accept, OwnInv, mapVars
<1>3. \A t \in Sess \ {s} : Handles(t)' <=> Handles(t)
  BY <1>0 DEF Apart, Handles
<1>4. ASSUME NEW t \in Sess PROVE Fresh(t)' /\ Owned(t)' /\ Found(t)'
  <2>1. CASE t = s
    BY <1>1, <1>2, <2>1
  <2>2. CASE t # s
    <3>1. Fresh(t) /\ Owned(t) /\ Found(t)
      BY DEF OwnInv
    <3>2. dtu'[t] \notin met' => dtu[t] \notin met
      BY <1>0, <1>1, <2>2 DEF Apart
    <3> QED
      BY <1>0, <1>2, <1>3, <2>2, <3>1, <3>2 DEF Apart
  <2> QED
    BY <2>1, <2>2
<1>5. ASSUME NEW t \in Sess, NEW u \in Sess, dtu'[t] = dtu'[u],
             dtu'[t] \notin met', Handles(t)', Handles(u)'
      PROVE  t = u
  <2>1. ASSUME NEW v \in Sess \ {s}, dtu'[v] = d, Handles(v)', d \notin met'
        PROVE  FALSE
    BY <1>0, <1>1, <1>3, <2>1 DEF Apart
  <2>2. CASE t # s /\ u # s
    <3>1. dtu[t] = dtu[u] /\ dtu[t] \notin met /\ Handles(t) /\ Handles(u)
      BY <1>0, <1>1, <1>3, <1>5, <2>2 DEF Apart
    <3> QED
      BY <3>1 DEF OwnInv, Alone
  <2> QED
    BY <1>2, <1>5, <2>1, <2>2
<1> QED
  BY <1>4, <1>5 DEF OwnInv, Alone

(* What its own actions do to the entries of a session.                      *)
LEMMA FoundStep ==
    ASSUME NEW s \in Sess, OwnInv, FullInv', Act(s), ~Accept(s)
    PROVE  Found(s)'
<1> USE DEF Found, sockVars, doneVars, mapVars, histVars
<1>0. /\ reg \in [Sess -> {"new", "named", "known"}]
      /\ thr \in [Sess -> Where]
      /\ io \in [Sess -> {"idle", "info", "did", "sid", "decide"}]
      /\ cl \in [Sess -> {"none", "did", "sid", "shut", "cancelled"}]
      /\ open \in [Sess -> BOOLEAN]
      /\ didTo \in [Dtu -> Sess \cup {Absent, Null}]
      /\ sidTo \in [Dtu -> Sess \cup {Absent}]
      /\ UNCHANGED <<dtu, met>> /\ Undisturbed(s) /\ Found(s)
      /\ open[s] => dtu[s] \in Dtu
      /\ cl[s] \in {"shut", "cancelled"} => ~open[s]
  BY StaysModest DEF OwnInv, FullInv, MapInv, MapType, WatchInv, DeadlineType, Shut,
     Session, Modest, Owned
<1>1. CASE ThreadStart(s)
  BY <1>0, <1>1 DEF ThreadStart, Undisturbed, Registering, Sweeping
<1>2. CASE Wake(s)
  BY <1>0, <1>2 DEF Wake, Undisturbed, Registering, Sweeping
<1>3. CASE Arm(s)
  BY <1>0, <1>3 DEF Arm, Undisturbed, Registering, Sweeping
<1>4. CASE PollWrite(s)
  BY <1>0, <1>4 DEF PollWrite, Undisturbed, Registering, Sweeping
<1>5. CASE SlaveTimer(s)
  BY <1>0, <1>5 DEF SlaveTimer, Undisturbed, Registering, Sweeping
<1>6. CASE Receive(s)
  BY <1>0, <1>6 DEF Receive, Undisturbed, Registering, Sweeping
<1>7. CASE OnRead(s)
  BY <1>0, <1>7, Nobody DEF OnRead, Lookup, CanRun, Undisturbed, Registering, Sweeping
<1>8. CASE GetDevInfo(s)
  BY <1>0, <1>8 DEF GetDevInfo, Undisturbed, Registering, Sweeping
<1>9. CASE SetDid(s)
  BY <1>0, <1>9 DEF SetDid, Undisturbed, Registering, Sweeping
<1>10. CASE SetSid(s)
  BY <1>0, <1>10 DEF SetSid, EnterSid, Undisturbed, Registering, Sweeping
<1>11. CASE OnReadDecide(s)
  BY <1>0, <1>11 DEF OnReadDecide, ToClose, Undisturbed, Registering, Sweeping
<1>12. CASE Expire(s)
  BY <1>0, <1>12 DEF Expire, Undisturbed, Registering, Sweeping
<1>13. CASE CheckDeadline(s)
  BY <1>0, <1>13 DEF CheckDeadline, ToClose, Rearm, CanRun, Undisturbed,
     Registering, Sweeping
<1>14. CASE OnWriteBegin(s)
  BY <1>0, <1>14 DEF OnWriteBegin, Undisturbed, Registering, Sweeping
<1>15. CASE OnWriteEnd(s)
  BY <1>0, <1>15, Nobody DEF OnWriteEnd, ToClose, Lookup, Undisturbed,
     Registering, Sweeping
<1>16. CASE CloseDid(s)
  BY <1>0, <1>16 DEF CloseDid, EraseDid, Undisturbed, Registering, Sweeping
<1>17. CASE CloseSock(s)
  BY <1>0, <1>17 DEF CloseSock, EraseSid, CancelRead, Undisturbed, Registering, Sweeping
<1>18. CASE Destroy(s)
  BY <1>0, <1>18 DEF Destroy, Undisturbed, Registering, Sweeping
<1>19. CASE Joined(s)
  BY <1>0, <1>19 DEF Joined, Undisturbed, Registering, Sweeping
<1>20. CASE Gate(s)
  BY <1>0, <1>20 DEF Gate, Undisturbed, Registering, Sweeping
<1>21. CASE PollLock(s)
  BY <1>0, <1>21 DEF PollLock, Undisturbed, Registering, Sweeping
<1>22. CASE CloseTimer(s)
  BY <1>0, <1>22 DEF CloseTimer, Undisturbed, Registering, Sweeping
<1>23. CASE CloseUnlock(s)
  BY <1>0, <1>23 DEF CloseUnlock, Undisturbed, Registering, Sweeping
<1> QED
  BY <1>1, <1>2, <1>3, <1>4, <1>5, <1>6, <1>7, <1>8, <1>9, <1>10,
     <1>11, <1>12, <1>13, <1>14, <1>15, <1>16, <1>17, <1>18, <1>19,
     <1>20, <1>21, <1>22, <1>23
     DEF Act, PollStep, OnReadStep, CloseStep

LEMMA ActOwn ==
    ASSUME NEW s \in Sess, OwnInv, FullInv', Act(s), ~Accept(s)
    PROVE  OwnInv'
<1>1. Apart(s) /\ Modest(s) /\ Found(s)' /\ FullInv
  BY StaysApart, StaysModest, FoundStep DEF OwnInv
<1>2. \A t \in Sess \ {s} : Handles(t)' <=> Handles(t)
  BY <1>1 DEF Apart, Handles
<1>3. \A t \in Sess : Handles(t)' => Handles(t)
  BY <1>1, <1>2 DEF Modest
<1>4. \A t \in Sess : Owned(t)' /\ Alone(t)' /\ (life'[t] = "free" => life[t] = "free")
  <2>1. \A t \in Sess : life'[t] = "free" <=> life[t] = "free"
    <3>1. life'[s] = "free" <=> life[s] = "free"
      BY <1>1 DEF Act, ThreadStart, PollStep, Wake, Gate, Arm, PollLock, PollWrite,
         SlaveTimer, Receive, OnReadStep, OnRead, GetDevInfo, SetDid, SetSid,
         OnReadDecide, Expire, CheckDeadline, OnWriteBegin, OnWriteEnd, CloseStep, CloseDid, CloseSock,
         CloseTimer, CloseUnlock, Destroy, Joined, FullInv, MapInv, MapType, WatchInv,
         DeadlineType
    <3> QED
      BY <1>1, <3>1 DEF Apart
  <2> QED
    BY <1>1, <1>3, <2>1 DEF OwnInv, Owned, Alone, Modest
<1>5. Fresh(s)'
  BY <1>1, <1>4 DEF OwnInv, Fresh, Modest
<1>6. ASSUME NEW t \in Sess \ {s} PROVE Fresh(t)' /\ Found(t)'
  <2>1. Fresh(t)'
    BY <1>1, <1>2 DEF OwnInv, Fresh, Apart
  <2>2. ASSUME reg'[t] = "known", open'[t], cl'[t] = "none", dtu'[t] \notin met'
        PROVE  dtu[t] \in Dtu /\ didTo'[dtu[t]] = didTo[dtu[t]]
                 /\ sidTo'[dtu[t]] = sidTo[dtu[t]]
    <3>1. open[t] /\ cl[t] = "none" /\ dtu[t] \notin met
      BY <1>1, <2>2 DEF Apart, Modest
    <3>2. Handles(t) /\ life[t] = "live"
      BY <1>1, <3>1 DEF FullInv, MapInv, MapType, WatchInv, Watched, Handles, Session
    <3>3. dtu[t] \in Dtu
      BY <3>2 DEF OwnInv, Owned
    <3>4. CASE dtu[s] = dtu[t]
      <4>1. ~Handles(s)
        BY <3>1, <3>2, <3>4 DEF OwnInv, Alone
      <4> QED
        BY <1>1, <3>3, <4>1 DEF Modest, mapVars
    <3> QED
      BY <1>1, <3>3, <3>4 DEF Modest
  <2>3. Found(t)'
    BY <1>1, <2>2 DEF OwnInv, Found, Apart, Modest
  <2> QED
    BY <2>1, <2>3
<1> QED
  BY <1>1, <1>4, <1>5, <1>6 DEF OwnInv

LEMMA OwnStep == OwnInv /\ [Next]_vars => OwnInv'
<1> SUFFICES ASSUME OwnInv, [Next]_vars PROVE OwnInv'
  OBVIOUS
<1>1. FullInv'
  BY MapStep, RestStep DEF OwnInv, FullInv
<1>2. CASE UNCHANGED vars
  BY <1>1, <1>2 DEF vars, sockVars, doneVars, mapVars, histVars, OwnInv, Fresh, Owned,
     Alone, Found, Handles
<1>3. CASE AcceptFails
  BY <1>1, <1>3 DEF AcceptFails, doneVars, sockVars, mapVars, histVars, OwnInv, Fresh,
     Owned, Alone, Found, Handles
<1>4. ASSUME NEW s \in Sess, Act(s) PROVE OwnInv'
  BY <1>1, <1>4, AcceptOwn, ActOwn
<1> QED
  BY <1>2, <1>3, <1>4 DEF Next, Act

(* While a DTU has never had two sessions with completions outstanding, its  *)
(* session is found in both maps from the end of regDev until toClose: no    *)
(* completion of an earlier session of the DTU erases an entry of a later    *)
(* one.                                                                      *)
THEOREM RegisteredAreReachable == Spec => []Reachable
<1>1. OwnInv => Reachable
  BY DEF OwnInv, Found, Reachable
<1> QED
  BY <1>1, OwnInit, OwnStep, PTL DEF Spec

=============================================================================
