----------------------------- MODULE Onboarding -----------------------------
(* How the server and its DTUs get their managed objects: Integrate, which   *)
(* main runs for the agent itself when the process starts, and getDevInfo,   *)
(* which the handler of a registration package runs for a DTU.  Both ask the *)
(* platform for the object that has the name, else create one and bind the   *)
(* name to it, in separate requests; a DTU's object is then made a child of  *)
(* the agent's.  Requests fail, or are answered with an error that is taken  *)
(* for something else, the process ends and is started again, and a DTU may  *)
(* register anew while its last registration is still being handled.         *)
(* What becomes of a registered session is left to SessionRegistry, its      *)
(* polling rate and child devices to Operations.                             *)
EXTENDS Integers, FiniteSets

CONSTANTS
    Dtu,         \* the devices that connect
    Agent,       \* the name of the agent: device_id of agentdtu.conf
    Conns,       \* bound: connections of each DTU at a time
    Workers,     \* threads of the pool
    MaxTroubles  \* bound: requests that fail, and ends of the process

Name == Dtu \cup {Agent}
Sess == UNION {{d} \X (1..Conns[d]) : d \in Dtu}
Main == <<Agent, 1>>
Proc == Sess \cup {Main}

ASSUME OnboardingAssumption ==
    /\ Agent \notin Dtu /\ IsFiniteSet(Dtu)
    /\ Conns \in [Dtu -> Nat \ {0}] /\ Workers \in Nat \ {0} /\ MaxTroubles \in Nat

VARIABLES
    step,     \* the request that main or a registration comes to next;
              \* "none" before it has begun, "up" when it is through
    sid,      \* the object it goes on with: agent.ID() or _sid
    made,     \* platform: objects created for a name, numbered from 1
    bound,    \* platform: the object that has the name, or 0
    children, \* platform: objects of DTUs made children of objects of the agent
    accepting, \* an async_accept is outstanding
    lost,     \* pool threads in destructors that wait for ever, see
              \* SessionRegistry
    troubles,
    raced,    \* history: names for which two registrations found no object at
              \* a time
    misled    \* history: registrations that took an error for "no object" or
              \* for success; of sessions the last registration, but of main
              \* any, since its children stay

platVars == <<made, bound, children>>
poolVars == <<accepting, lost>>
histVars == <<raced, misled>>
vars == <<step, sid, platVars, poolVars, troubles, histVars>>

Handling == {"lookup", "create", "bind", "adopt"}

TypeOK ==
    /\ step \in [Proc -> Handling \cup {"none", "template", "push", "up"}]
    /\ \A p \in Proc : sid[p] \in 0..made[p[1]]
    /\ made \in [Name -> Nat] /\ \A n \in Name : bound[n] \in 0..made[n]
    /\ children \subseteq [agent : 1..made[Agent], dtu : Dtu, object : Nat \ {0}]
    /\ accepting \in BOOLEAN /\ lost \in 0..Workers
    /\ troubles \in 0..MaxTroubles /\ raced \subseteq Name /\ misled \subseteq Proc

Init ==
    /\ step = [p \in Proc |-> "none"] /\ sid = [p \in Proc |-> 0]
    /\ made = [n \in Name |-> 0] /\ bound = [n \in Name |-> 0]
    /\ children = {} /\ accepting = FALSE /\ lost = 0
    /\ troubles = 0 /\ raced = {} /\ misled = {}

-----------------------------------------------------------------------------
Goto(p, next) == step' = [step EXCEPT ![p] = next]

Goes(p, next) == Goto(p, next) /\ UNCHANGED <<sid, lost>>

(* Mutant: a session whose registration fails is not closed.                 *)
Leave_Open(p) ==
    Goto(p, "up") /\ sid' = [sid EXCEPT ![p] = 0] /\ UNCHANGED lost

(* onReadReg closes the session, and the thread that runs its destructor may *)
(* not come back; main returns, and with it the process ends.                *)
Leave(p) ==
    /\ Goto(p, "none") /\ sid' = [sid EXCEPT ![p] = 0]
    /\ \/ UNCHANGED lost
       \/ p # Main /\ lost < Workers /\ lost' = lost + 1

Trouble == troubles < MaxTroubles /\ troubles' = troubles + 1

(* A request is carried out by the platform or fails.                        *)
Fine == UNCHANGED troubles

(* main reads the configuration, readSrTemplate the templates.               *)
Start ==
    /\ step[Main] = "none"
    /\ Goes(Main, "template")
    /\ UNCHANGED <<platVars, accepting, troubles, histVars>>

(* Mutant: the server is begun before the agent has an object.               *)
RegisterTemplate_Only ==
    /\ step[Main] = "template"
    /\ Fine /\ Goes(Main, "push")
    /\ UNCHANGED <<platVars, accepting, histVars>>

(* bootstrap and registerSrTemplate.                                         *)
RegisterTemplate ==
    /\ step[Main] = "template"
    /\ \/ Fine /\ Goes(Main, "lookup")
       \/ Trouble /\ Leave(Main)
    /\ UNCHANGED <<platVars, accepting, histVars>>

Serving == step[Main] = "up"

(* A thread of the pool neither handles a registration nor is lost.          *)
Free == Cardinality({t \in Sess : step[t] \in Handling}) + lost < Workers

(* A connection is accepted and checkReg accepts its registration package; a *)
(* pool thread handles it.                                                   *)
Register(s) ==
    /\ Serving /\ accepting /\ step[s] = "none" /\ Free
    /\ Goes(s, "lookup")
    /\ misled' = misled \ {s}
    /\ UNCHANGED <<platVars, accepting, troubles, raced>>

(* ProcessAccept gets an error, or the peer is gone before its address is    *)
(* asked: no further async_accept.                                           *)
AcceptFails ==
    /\ Serving /\ accepting /\ Free
    /\ accepting' = FALSE
    /\ UNCHANGED <<step, sid, platVars, lost, troubles, histVars>>

(* What follows when the object is known.                                    *)
Known(p) == IF p = Main THEN "push" ELSE "adopt"

(* Mutant: an object that has the name already is not taken.                 *)
Lookup_Not(p) ==
    /\ step[p] = "lookup"
    /\ Fine /\ Goes(p, "create")
    /\ UNCHANGED <<platVars, accepting, histVars>>

(* 300: the platform answers 50 when no object has the name, and for any     *)
(* error; 800 when one has.                                                  *)
Lookup(p) ==
    LET n == p[1] IN
    /\ step[p] = "lookup"
    /\ \/ Trouble /\ Leave(p) /\ UNCHANGED histVars
       \/ /\ Trouble /\ bound[n] # 0
          /\ Goes(p, "create")
          /\ misled' = misled \cup {p} /\ UNCHANGED raced
       \/ /\ Fine /\ bound[n] = 0
          /\ Goes(p, "create")
          /\ raced' = IF \E q \in Proc \ {p} : q[1] = n
                                            /\ step[q] \in {"create", "bind"}
                      THEN raced \cup {n} ELSE raced
          /\ UNCHANGED misled
       \/ /\ Fine /\ bound[n] # 0
          /\ sid' = [sid EXCEPT ![p] = bound[n]]
          /\ Goto(p, Known(p)) /\ UNCHANGED <<lost, histVars>>
    /\ UNCHANGED <<platVars, accepting>>

(* 133 and 301, answered with 801.  When the request fails, or is answered   *)
(* with an error, an object may have been created all the same.              *)
Create(p) ==
    LET n == p[1] IN
    /\ step[p] = "create"
    /\ \/ /\ Fine
          /\ made' = [made EXCEPT ![n] = @ + 1]
          /\ sid' = [sid EXCEPT ![p] = made[n] + 1]
          /\ Goto(p, "bind") /\ UNCHANGED lost
       \/ /\ Trouble
          /\ made' \in {made, [made EXCEPT ![n] = @ + 1]}
          /\ Leave(p)
    /\ UNCHANGED <<bound, children, accepting, histVars>>

(* The platform binds a name once.                                           *)
Bound(n, k) == bound' = [bound EXCEPT ![n] = IF @ = 0 THEN k ELSE @]

(* Mutant: the registration goes on when the request fails.                  *)
Bind_Anyhow(p) ==
    /\ step[p] = "bind"
    /\ \/ Fine /\ Bound(p[1], sid[p])
       \/ Trouble /\ UNCHANGED bound
    /\ Goes(p, Known(p))
    /\ UNCHANGED <<made, children, accepting, histVars>>

(* 302.  An answer, whatever it says, is a success: that the name has been   *)
(* bound, that it was bound already, or another error.                       *)
Bind(p) ==
    /\ step[p] = "bind"
    /\ \/ /\ Fine /\ Bound(p[1], sid[p])
          /\ Goes(p, Known(p)) /\ UNCHANGED misled
       \/ /\ Trouble /\ UNCHANGED bound
          /\ Goes(p, Known(p)) /\ misled' = misled \cup {p}
       \/ /\ Trouble /\ (UNCHANGED bound \/ Bound(p[1], sid[p]))
          /\ Leave(p) /\ UNCHANGED misled
    /\ UNCHANGED <<made, children, accepting, raced>>

(* push.start, and the listening IOServiceThread.                            *)
Serve ==
    /\ step[Main] = "push"
    /\ \/ Fine /\ Goes(Main, "up") /\ accepting' = TRUE
       \/ Trouble /\ Leave(Main) /\ UNCHANGED accepting
    /\ UNCHANGED <<platVars, histVars>>

(* 132, whose result is not looked at, and the rest of regDev.               *)
Adopt(s) ==
    /\ step[s] = "adopt"
    /\ \/ Fine /\ children' = children \cup
                   {[agent |-> sid[Main], dtu |-> s[1], object |-> sid[s]]}
       \/ Trouble /\ UNCHANGED children
    /\ Goes(s, "up")
    /\ UNCHANGED <<made, bound, accepting, histVars>>

(* The session of a registered DTU ends.                                     *)
End(s) ==
    /\ step[s] = "up" /\ Free
    /\ Leave(s)
    /\ UNCHANGED <<platVars, accepting, troubles, histVars>>

(* The process is killed.                                                    *)
Crash ==
    /\ step[Main] # "none" /\ Trouble
    /\ step' = [p \in Proc |-> "none"] /\ sid' = [p \in Proc |-> 0]
    /\ accepting' = FALSE /\ lost' = 0
    /\ UNCHANGED <<platVars, histVars>>

Request(p) == Lookup(p) \/ Create(p) \/ Bind(p)

MainStep == Start \/ RegisterTemplate \/ Request(Main) \/ Serve

Next ==
    \/ MainStep \/ AcceptFails
    \/ \E s \in Sess : Register(s) \/ Request(s) \/ Adopt(s) \/ End(s)
    \/ Crash

Spec == Init /\ [][Next]_vars

(* The watchdog of run.sh starts the process whenever it has ended; requests *)
(* are answered or fail; a DTU without a connection connects when it can be  *)
(* accepted, again and again, and a pool thread is free.                     *)
Connects(d) ==
    (\A s \in Sess : s[1] = d => step[s] = "none")
      /\ \E s \in Sess : s[1] = d /\ Register(s)

FairSpec ==
    /\ Spec /\ WF_vars(MainStep)
    /\ \A s \in Sess : WF_vars(Request(s) \/ Adopt(s))
    /\ \A d \in Dtu : SF_vars(Connects(d))

-----------------------------------------------------------------------------
(* c8y.cpp:64 and integrate.cpp:42: the object that the agent or a session   *)
(* works with is the one that the platform finds under its name, now and     *)
(* after every restart, and DTUs are children of the one object that the     *)
(* agent has.  Not so for a DTU of which two registrations have found no     *)
(* object at a time: both create one, the second binding is refused, and the *)
(* answer is not looked at.  Nor for a registration that has been misled by  *)
(* the answer to 300 or 302; the next one of that DTU is right again.        *)
SameObject ==
    /\ \A p \in Proc \ misled :
         step[p] \in {"push", "adopt", "up"} /\ p[1] \notin raced
           => sid[p] = bound[p[1]]
    /\ Main \notin misled => \A c \in children : c.agent = bound[Agent]

(* The objects that nobody will find again.  Each is due to a request that   *)
(* failed, was answered with an error, or a restart, or to registrations at  *)
(* a time.                                                                   *)
Orphans(n) ==
    {k \in 1..made[n] : k # bound[n]
        /\ \A p \in Proc : p[1] = n => ~(step[p] = "bind" /\ sid[p] = k)}

OrphansFew ==
    \A n \in Name : Cardinality(Orphans(n)) <=
        IF n \in raced THEN Conns[n] * (troubles + 1) - 1 ELSE troubles

(* A DTU is registered with an object again and again, as long as it         *)
(* connects when it has no connection, whatever requests failed before and   *)
(* however often the process was started: a failed request never keeps it    *)
(* out.  What does, until the process is killed, is an acceptor that has     *)
(* failed, or destructors in all threads of the pool.                        *)
Registers ==
    \A d \in Dtu :
        []<>(\/ \E s \in Sess : s[1] = d /\ step[s] = "up" /\ sid[s] # 0
             \/ Serving /\ (~accepting \/ lost = Workers))
=============================================================================
