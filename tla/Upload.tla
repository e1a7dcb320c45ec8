------------------------------- MODULE Upload -------------------------------
(* From the answers of a session's slaves to the messages the platform gets: *)
(* parseCO, parseDI, parseHR and parseIR, which enter each value in the      *)
(* messages its point is mapped to; sendMsg, which posts the messages of a   *)
(* device when all its points have been read; and MBDEVICES::clear, at the   *)
(* start of each device.  Answers come in order here: that is PollSession's  *)
(* concern.                                                                  *)
EXTENDS Integers, Sequences, FiniteSets

CONSTANTS
    NDev,        \* child devices of the session
    Id,          \* messages: the template ids of the platform
    None,        \* no id
    Points,      \* of each device: its points, in the order they are read
    Ends,        \* of each device: where each of its ranges ends in them
    Value,       \* of a register
    MaxTroubles  \* bound: requests without answer, new connections, and
                 \* posts that do not reach the platform

Dev == 1..NDev
Kind == {"co", "di", "hr", "ir"}
Coils == {"co", "di"}

(* A coil or discrete input raises its alarm when it equals alarmAt and its  *)
(* event when it equals eventAt; a register raises its alarm when it is      *)
(* positive.                                                                 *)
Point == [kind : Kind, alarm : Id \cup {None}, alarmAt : {0, 1},
          event : Id \cup {None}, eventAt : {0, 1}, status : Id \cup {None},
          measurement : Id \cup {None}, forward : BOOLEAN]

(* The points of a range, which are those after the first Start.            *)
Start(d, r) == IF r = 1 THEN 0 ELSE Ends[d][r - 1]
Within(d, r) == (Start(d, r) + 1)..Ends[d][r]

(* A range has points, and they are of one kind.                             *)
RangesOf(d) ==
    /\ \A r \in 1..Len(Ends[d]) :
         /\ Start(d, r) < Ends[d][r]
         /\ \A i \in Within(d, r) : Points[d][i].kind = Points[d][Ends[d][r]].kind
    /\ Len(Points[d]) = IF Ends[d] = <<>> THEN 0 ELSE Ends[d][Len(Ends[d])]

(* The templates of alarms, events, measurements and states are different    *)
(* ones (raiseAlarmTemplate, eventTemplate and sendMeasurementTemplate in    *)
(* conf/srtemplate.txt; states are 100 and 101).                             *)
RolesOf(d) ==
    \A i, j \in 1..Len(Points[d]) :
       LET p == Points[d][i]
           q == Points[d][j]
       IN /\ p.alarm # None => p.alarm \notin {q.event, q.measurement, q.status}
          /\ p.event # None => p.event \notin {q.measurement, q.status}
          /\ p.measurement # None => p.measurement # q.status

ASSUME UploadAssumption ==
    /\ NDev \in Nat \ {0} /\ None \notin Id
    /\ Value \subseteq Int /\ {0, 1} \subseteq Value
    /\ \A d \in Dev :
         /\ Points[d] \in Seq(Point) /\ Ends[d] \in Seq(Nat)
         /\ RangesOf(d) /\ RolesOf(d)
         /\ \A i \in 1..Len(Points[d]) :
              Points[d][i].kind \in Coils => Points[d][i].measurement = None
    /\ MaxTroubles \in Nat

(* Of the first n of a sequence of ids or kinds, those that are x.           *)
At(ids, x, n) == {i \in 1..n : ids[i] = x}

Kinds(d) == [i \in 1..Len(Points[d]) |-> Points[d][i].kind]

Size == [d \in Dev |-> [k \in Kind |->
            Cardinality(At(Kinds(d), k, Len(Points[d])))]]

VARIABLES
    pc,       \* "begin" of a device, "wait" for an answer, "send": sendMsg
    dev, pos, \* the device and the range the poll thread has reached
    tm, fm,   \* template_msg and forward_msg of each device
    count,    \* co_num, di_num, hr_num and ir_num of each device
    lastMsg, lastForward, \* _msg and _forward_msg of the session
    have,     \* what the platform has of each device: the last message of
              \* each id, the alarms that are active among them
    forwarded, \* what the platform has of the DTU
    seen,     \* history: the values read since the device was begun
    done,     \* history: the values of the last complete sweep
    forwardDone, \* history: the last one of any device, which and its values
    lost, lostForward, \* history: devices whose last message was lost, and
              \* whether the last one of the DTU was
    fresh,    \* history: forward_msg was empty when the device was begun
    pure,     \* history: so it was for the last device forwarded
    troubles

sweepVars == <<pc, dev, pos>>
modelVars == <<tm, fm, count>>
lastVars  == <<lastMsg, lastForward>>
platVars  == <<have, forwarded>>
histVars  == <<seen, done, forwardDone, lost, lostForward, fresh, pure>>
vars == <<sweepVars, modelVars, lastVars, platVars, histVars, troubles>>

(* A map<string, vector<string>>.                                            *)
IsMessages(m) == DOMAIN m \subseteq Id /\ m \in [DOMAIN m -> Seq(Value)]

NoMessages == [i \in {} |-> <<>>]

TypeOK ==
    /\ pc \in {"begin", "wait", "send"} /\ dev \in Dev
    /\ IF pc = "begin" THEN pos = 1 ELSE pos \in 1..Len(Ends[dev])
    /\ \A d \in Dev : /\ IsMessages(tm[d]) /\ IsMessages(fm[d])
                     /\ IsMessages(have[d])
    /\ \A d \in Dev : \A k \in Kind : count[d][k] \in 0..Size[d][k]
    /\ lastMsg = [dev |-> lastMsg.dev, messages |-> lastMsg.messages]
    /\ lastMsg.dev \in 0..NDev /\ IsMessages(lastMsg.messages)
    /\ IsMessages(lastForward) /\ IsMessages(forwarded)
    /\ seen \in Seq(Value) /\ \A d \in Dev : done[d] \in Seq(Value)
    /\ forwardDone.dev \in 0..NDev /\ forwardDone.values \in Seq(Value)
    /\ lost \subseteq Dev /\ lostForward \in BOOLEAN
    /\ fresh \in BOOLEAN /\ pure \in BOOLEAN
    /\ troubles \in 0..MaxTroubles

NoCount == [k \in Kind |-> 0]

Nothing == [d \in Dev |-> NoMessages]
NoText == [dev |-> 0, messages |-> NoMessages]

Init ==
    /\ pc = "begin" /\ dev = 1 /\ pos = 1
    /\ tm = Nothing /\ fm = Nothing /\ count = [d \in Dev |-> NoCount]
    /\ lastMsg = NoText /\ lastForward = NoMessages
    /\ have = Nothing /\ forwarded = NoMessages
    /\ seen = <<>> /\ fresh = TRUE
    /\ done = [d \in Dev |-> <<>>] /\ forwardDone = [dev |-> 0, values |-> <<>>]
    /\ lost = {} /\ lostForward = FALSE /\ pure = TRUE
    /\ troubles = 0

-----------------------------------------------------------------------------
(* mp[id] = v, and mp[id].push_back(v); no id, no message.                   *)
Put(m, id, v) ==
    IF id = None THEN m
    ELSE [i \in DOMAIN m \cup {id} |-> IF i = id THEN v ELSE m[i]]

ValuesOf(m, id) == IF id \in DOMAIN m THEN m[id] ELSE <<>>

Push(m, id, v) == Put(m, id, Append(ValuesOf(m, id), v))

Alarms(p, v) == IF p.kind \in Coils THEN v = p.alarmAt ELSE v > 0

Happens(p, v) == p.kind \in Coils => v = p.eventAt

(* template_msg when value v of point p has been read.                       *)
Entered(m, p, v) ==
    LET alarm  == IF Alarms(p, v) THEN Put(m, p.alarm, <<>>) ELSE m
        event  == IF Happens(p, v) THEN Push(alarm, p.event, v) ELSE alarm
        measurement == Push(event, p.measurement, v)
    IN Push(measurement, p.status, v)

(* Mutant: a measurement replaces the one before it.                         *)
Forwarded_Put(m, p, v) == IF p.forward THEN Put(m, p.measurement, <<v>>) ELSE m

(* forward_msg then.                                                         *)
Forwarded(m, p, v) == IF p.forward THEN Push(m, p.measurement, v) ELSE m

(* Both of device d after each of the values of the points after the first n.*)
Entries(d, n, values) ==
    LET e[i \in 0..Len(values)] ==
          IF i = 0 THEN [tm |-> tm[d], fm |-> fm[d]]
          ELSE LET p == Points[d][n + i]
                   before == e[i - 1]
               IN [tm |-> Entered(before.tm, p, values[i]),
                   fm |-> Forwarded(before.fm, p, values[i])]
    IN e

-----------------------------------------------------------------------------
NextDevice == pos' = 1 /\ pc' = "begin" /\ dev' = (dev % NDev) + 1

(* The range after this one, or the next device.                             *)
Advance ==
    IF pos < Len(Ends[dev])
    THEN pos' = pos + 1 /\ pc' = "wait" /\ UNCHANGED dev
    ELSE NextDevice

(* Mutant: the counts begin at one.                                          *)
ClearCount_One == count' = [count EXCEPT ![dev] = [k \in Kind |-> 1]]

ClearCount == count' = [count EXCEPT ![dev] = NoCount]

ClearMessages == tm' = [tm EXCEPT ![dev] = NoMessages]

(* MBDEVICES::clear, which leaves forward_msg as it is; then the first range *)
(* of the device, if it has any.                                             *)
Begin ==
    /\ pc = "begin"
    /\ IF Ends[dev] = <<>> THEN NextDevice
       ELSE pc' = "wait" /\ UNCHANGED <<dev, pos>>
    /\ ClearMessages /\ ClearCount
    /\ seen' = <<>>
    /\ fresh' = (fm[dev] = NoMessages)
    /\ UNCHANGED <<fm, lastVars, platVars, done, forwardDone, lost,
                   lostForward, pure, troubles>>

(* The answer to the range is parsed, which is of kind k.                    *)
Parse(k) ==
    LET start == Start(dev, pos)
        n == Ends[dev][pos] - start
    IN
    /\ pc = "wait" /\ pc' = "send"
    /\ Points[dev][Ends[dev][pos]].kind = k
    /\ \E values \in [1..n -> IF k \in Coils THEN {0, 1} ELSE Value] :
        /\ LET after == Entries(dev, start, values)[n]
           IN /\ tm' = [tm EXCEPT ![dev] = after.tm]
              /\ fm' = [fm EXCEPT ![dev] = after.fm]
        /\ seen' = seen \o values
    /\ count' = [count EXCEPT ![dev][k] = @ + n]
    /\ UNCHANGED <<dev, pos, lastVars, platVars, done, forwardDone, lost,
                   lostForward, fresh, pure, troubles>>

ParseCO == Parse("co")
ParseDI == Parse("di")
ParseHR == Parse("hr")
ParseIR == Parse("ir")

Answer == ParseCO \/ ParseDI \/ ParseHR \/ ParseIR

(* The slave does not answer, or with an exception.                          *)
Miss ==
    /\ pc = "wait" /\ troubles < MaxTroubles
    /\ troubles' = troubles + 1 /\ Advance
    /\ UNCHANGED <<modelVars, lastVars, platVars, histVars>>

(* The DTU connects again, and polling begins anew in another session.       *)
Reconnect ==
    /\ troubles < MaxTroubles /\ troubles' = troubles + 1
    /\ pc' = "begin" /\ dev' = 1 /\ pos' = 1
    /\ tm' = Nothing /\ fm' = Nothing /\ count' = [d \in Dev |-> NoCount]
    /\ lastMsg' = NoText /\ lastForward' = NoMessages
    /\ seen' = <<>> /\ fresh' = TRUE
    /\ UNCHANGED <<platVars, done, forwardDone, lost, lostForward, pure>>

Complete == \A k \in Kind : count[dev][k] = Size[dev][k]

(* Mutant: the device is left out of what is compared.                       *)
Text_NoDevice(d, m) == [dev |-> 0, messages |-> m]

(* What is compared with the last messages posted: no time in it.            *)
Text(d, m) == [dev |-> IF m = NoMessages THEN 0 ELSE d, messages |-> m]

(* There is something to post; otherwise sendMsg changes nothing more.       *)
Speaks == tm[dev] # NoMessages \/ fm[dev] # NoMessages

(* The platform has got messages m.  It keeps what they do not replace: an   *)
(* alarm is posted as ACTIVE, and nothing posts the template that clears it. *)
Received(old, m) ==
    [i \in DOMAIN old \cup DOMAIN m |-> IF i \in DOMAIN m THEN m[i] ELSE old[i]]

(* Messages are posted unless they are the last ones once more; whether the  *)
(* post succeeds is not looked at.                                           *)
PostMsg(fails) ==
    IF lastMsg = Text(dev, tm[dev]) \/ ~Speaks
    THEN ~fails /\ UNCHANGED <<lastMsg, have, lost>>
    ELSE /\ lastMsg' = Text(dev, tm[dev])
         /\ have' = IF fails THEN have
                    ELSE [have EXCEPT ![dev] = Received(@, tm[dev])]
         /\ lost' = IF fails THEN lost \cup {dev} ELSE lost \ {dev}

(* The same for what is forwarded, as messages of the DTU.                   *)
PostForward(fails) ==
    IF lastForward = fm[dev] \/ ~Speaks
    THEN ~fails /\ UNCHANGED <<lastForward, forwarded, lostForward>>
    ELSE /\ lastForward' = fm[dev]
         /\ forwarded' = IF fails THEN forwarded ELSE Received(forwarded, fm[dev])
         /\ lostForward' = fails

(* Mutant: process returns when sendMsg fails, and polling does not go on.   *)
SendNothing_Return == FALSE /\ UNCHANGED vars

(* sendMsg of a device of which not all points have been read.               *)
SendNothing ==
    /\ pc = "send" /\ ~Complete
    /\ Advance
    /\ UNCHANGED <<modelVars, lastVars, platVars, histVars, troubles>>

SendMsg ==
    /\ pc = "send" /\ Complete
    /\ \E fails \in SUBSET {"msg", "forward"} :
        /\ troubles' = troubles + Cardinality(fails)
        /\ troubles' <= MaxTroubles
        /\ PostMsg("msg" \in fails) /\ PostForward("forward" \in fails)
    /\ tm' = [tm EXCEPT ![dev] = NoMessages]
    /\ fm' = [fm EXCEPT ![dev] = NoMessages]
    /\ ClearCount
    /\ done' = [done EXCEPT ![dev] = seen] /\ forwardDone' = [dev |-> dev, values |-> seen]
    /\ pure' = fresh /\ seen' = <<>>
    /\ Advance
    /\ UNCHANGED fresh

Next == Begin \/ Answer \/ Miss \/ Reconnect \/ SendNothing \/ SendMsg

Spec == Init /\ [][Next]_vars

(* The poll thread goes on, and slaves that can answer do in the end.        *)
FairSpec == Spec /\ WF_vars(Begin \/ Answer \/ SendNothing \/ SendMsg)

-----------------------------------------------------------------------------
Measurements(d) == [i \in 1..Len(Points[d]) |-> Points[d][i].measurement]
Statuses(d) == [i \in 1..Len(Points[d]) |-> Points[d][i].status]
ForwardedAs(d) ==
    [i \in 1..Len(Points[d]) |->
        IF Points[d][i].forward THEN Points[d][i].measurement ELSE None]

(* Of points that go to messages ids, m has the first n values and no others:*)
(* each message has those of its own points, in their order.                 *)
HoldsUpto(m, ids, values, n) ==
    \A id \in {ids[i] : i \in DOMAIN ids} \ {None} :
        /\ Len(ValuesOf(m, id)) = Cardinality(At(ids, id, n))
        /\ \A i \in At(ids, id, n) :
             ValuesOf(m, id)[Cardinality(At(ids, id, i))] = values[i]

(* It has one of each point.                                                 *)
Holds(m, ids, values) ==
    Len(values) = Len(ids) /\ HoldsUpto(m, ids, values, Len(ids))

(* The alarms that the first n values call for.                              *)
Alarmed(d, values, n) ==
    {Points[d][i].alarm : i \in {j \in 1..n : Alarms(Points[d][j], values[j])}}
        \ {None}

(* The platform has of every device what the last complete sweep read: its   *)
(* measurements and states in their places, and each alarm they call for;    *)
(* also when messages are left out as unchanged or a sweep was cut short     *)
(* before, except when the post of the last change was lost (sendMsg does not*)
(* try again).  It may have more alarms: none goes by itself.                *)
PlatformTrue ==
    \A d \in Dev \ lost : done[d] # <<>> =>
        /\ Holds(have[d], Measurements(d), done[d])
        /\ Holds(have[d], Statuses(d), done[d])
        /\ Alarmed(d, done[d], Len(done[d])) \subseteq DOMAIN have[d]

(* The DTU's forwarded measurements are those of the last complete sweep,    *)
(* when no sweep of that device had been cut short just before:              *)
(* MBDEVICES::clear leaves what such a sweep has forwarded.                  *)
ForwardTrue ==
    pure /\ ~lostForward /\ forwardDone.dev \in Dev =>
        Holds(forwarded, ForwardedAs(forwardDone.dev), forwardDone.values)

(* A device whose sweep was cut short is complete again in the end.          *)
Recovers ==
    \A d \in {e \in Dev : Ends[e] # <<>>} :
        []<>(pc = "send" /\ dev = d /\ Complete)
=============================================================================
