-------------------------- MODULE Onboarding_proofs --------------------------
(* Proofs about Onboarding, for any number of DTUs, connections and pool     *)
(* threads, and however many requests fail.                                  *)
EXTENDS Onboarding, FiniteSetTheorems, TLAPS

LEMMA ProcNames ==
    /\ Main \in Proc /\ Main[1] = Agent /\ Agent \in Name
    /\ \A p \in Sess : p \in Proc /\ p # Main /\ p[1] \in Dtu /\ p[1] # Agent
    /\ \A p \in Proc : p[1] \in Name /\ (p = Main \/ p \in Sess)
<1>1. \A p \in Sess : p[1] \in Dtu
  BY DEF Sess
<1>2. Main[1] = Agent
  BY DEF Main
<1> QED
  BY <1>1, <1>2, OnboardingAssumption DEF Proc, Name

Typing ==
    /\ step \in [Proc -> Handling \cup {"none", "template", "push", "up"}]
    /\ sid \in [Proc -> Nat]
    /\ made \in [Name -> Nat] /\ bound \in [Name -> Nat]

(* Sessions are handled only while the server runs.                          *)
ServedOnly == \A s \in Sess : step[s] # "none" => Serving

(* Who has found no object for its name, and nobody else has at the time,    *)
(* is about to create or bind the first one.                                 *)
Founding(p) == step[p] \in {"create", "bind"}

Alone ==
    \A p \in Proc \ misled : Founding(p) /\ p[1] \notin raced =>
        /\ bound[p[1]] = 0
        /\ \A q \in Proc \ misled : q[1] = p[1] /\ Founding(q) => q = p

(* A session is only misled into a second object when there is a first.      *)
Astray ==
    \A s \in Sess \cap misled :
        step[s] # "lookup" /\ (Founding(s) => bound[s[1]] # 0)

Created == \A p \in Proc : step[p] = "bind" => sid[p] # 0

Has(p) == step[p] \in {"push", "adopt", "up"}

Agreed ==
    \A p \in Proc \ misled : Has(p) /\ p[1] \notin raced =>
        sid[p] = bound[p[1]] /\ bound[p[1]] # 0

Family ==
    /\ Agent \notin raced
    /\ Main \notin misled =>
         \A c \in children : c.agent = bound[Agent] /\ bound[Agent] # 0

Inv == /\ Typing /\ ServedOnly /\ Alone /\ Astray /\ Created /\ Agreed /\ Family

LEMMA InvInit == Init => Inv
<1> SUFFICES ASSUME Init PROVE Inv
  OBVIOUS
<1> QED
  BY ProcNames DEF Init, Inv, Typing, ServedOnly, Alone, Astray, Created, Agreed,
     Family, Founding, Has, Handling

LEMMA InvImplies == Inv => SameObject
  BY DEF Inv, Agreed, Family, SameObject, Has

(* Steps that leave the platform alone and take p to a place where it has no *)
(* object, or with the one it has.                                           *)
LEMMA Moves ==
    ASSUME Inv, NEW p \in Proc, NEW next,
           next \in {"none", "template", "lookup", "push", "up"},
           Goto(p, next), UNCHANGED <<platVars, raced>>,
           IF p \in Sess /\ next = "lookup" THEN misled' = misled \ {p}
                                             ELSE misled' = misled,
           sid' \in [Proc -> Nat], \A q \in Proc \ {p} : sid'[q] = sid[q],
           next \in {"push", "up"} => Has(p) /\ sid'[p] = sid[p],
           p \in Sess /\ next # "none" => Serving,
           p = Main => ~Serving
    PROVE  Inv'
<1> USE ProcNames
<1>1. /\ misled' \subseteq misled /\ misled \subseteq misled' \cup {p}
      /\ p \in Sess => next # "lookup" \/ p \notin misled'
      /\ p \notin misled' => p \notin misled \/ next = "lookup"
      /\ Main \notin misled' => Main \notin misled
  OBVIOUS
<1>2. /\ step' \in [Proc -> Handling \cup {"none", "template", "push", "up"}]
      /\ step'[p] = next /\ \A q \in Proc \ {p} : step'[q] = step[q]
  BY DEF Inv, Typing, Goto, Handling
<1>3. UNCHANGED <<made, bound, children, raced>>
  BY DEF platVars
<1>4. Typing'
  BY <1>2, <1>3 DEF Inv, Typing, Handling
<1>5. ServedOnly'
  BY <1>2 DEF Inv, ServedOnly, Serving
<1>6. Alone' /\ Astray'
  <2>1. Alone'
    BY <1>1, <1>2, <1>3 DEF Inv, Alone, Founding
  <2>2. Astray'
    BY <1>1, <1>2, <1>3 DEF Inv, Astray, Founding
  <2> QED
    BY <2>1, <2>2
<1>7. Created'
  BY <1>2 DEF Inv, Created
<1>8. Agreed'
  BY <1>1, <1>2, <1>3 DEF Inv, Agreed, Has
<1>9. Family'
  BY <1>1, <1>3 DEF Inv, Family
<1> QED
  BY <1>4, <1>5, <1>6, <1>7, <1>8, <1>9 DEF Inv

LEMMA Placed ==
    ASSUME Inv, NEW p \in Proc, step[p] \in Handling
    PROVE  /\ p \in Sess => Serving
           /\ p = Main => ~Serving
  BY ProcNames DEF Inv, ServedOnly, Serving, Handling

LEMMA Leaving ==
    ASSUME Inv, NEW p \in Proc, Leave(p), UNCHANGED <<platVars, histVars>>,
           p \in Sess => Serving, p = Main => ~Serving
    PROVE  Inv'
<1>1. sid' \in [Proc -> Nat] /\ \A q \in Proc \ {p} : sid'[q] = sid[q]
  BY DEF Leave, Inv, Typing
<1>2. Goto(p, "none") /\ UNCHANGED <<raced, misled>>
  BY DEF Leave, histVars
<1> QED
  BY <1>1, <1>2, Moves

LEMMA LookupKeeps ==
    ASSUME Inv, NEW p \in Proc, Lookup(p)
    PROVE  Inv'
<1> USE ProcNames
<1> DEFINE n == p[1]
<1>1. step[p] = "lookup" /\ UNCHANGED platVars
  BY DEF Lookup
<1>2. (p \in Sess => Serving) /\ (p = Main => ~Serving)
  BY <1>1, Placed DEF Handling
<1>3. CASE Leave(p) /\ UNCHANGED histVars
  BY <1>1, <1>2, <1>3, Leaving
<1>4. CASE /\ bound[n] = 0 /\ Goes(p, "create") /\ UNCHANGED misled
           /\ raced' = IF \E q \in Proc \ {p} : q[1] = n
                                             /\ step[q] \in {"create", "bind"}
                       THEN raced \cup {n} ELSE raced
  <2>1. /\ UNCHANGED <<sid, made, bound, children>>
        /\ step' \in [Proc -> Handling \cup {"none", "template", "push", "up"}]
        /\ step'[p] = "create" /\ \A q \in Proc \ {p} : step'[q] = step[q]
    BY <1>1, <1>4 DEF Goes, Goto, Inv, Typing, Handling, platVars
  <2>2. raced \subseteq raced' /\ raced' \subseteq raced \cup {n}
    BY <1>4
  <2>3. n \notin raced' => \A q \in Proc \ {p} : q[1] = n => ~Founding(q)
    BY <1>4 DEF Founding
  <2>4. Alone'
    BY <1>4, <2>1, <2>2, <2>3 DEF Inv, Alone, Founding
  <2>5. Family'
    <3>1. p # Main => n # Agent
      OBVIOUS
    <3>2. p = Main => UNCHANGED raced
      BY <1>4
    <3> QED
      BY <1>4, <2>1, <2>2, <3>1, <3>2 DEF Inv, Family
  <2>6. ServedOnly'
    BY <1>2, <2>1 DEF Inv, ServedOnly, Serving
  <2>7. Typing' /\ Created'
    BY <2>1 DEF Inv, Typing, Created
  <2>8. Agreed'
    BY <1>4, <2>1, <2>2 DEF Inv, Agreed, Has
  <2>9. Astray'
    BY <1>1, <1>4, <2>1 DEF Inv, Astray, Founding
  <2> QED
    BY <2>4, <2>5, <2>6, <2>7, <2>8, <2>9 DEF Inv
<1>5. CASE /\ bound[n] # 0 /\ sid' = [sid EXCEPT ![p] = bound[n]]
           /\ Goto(p, Known(p)) /\ UNCHANGED <<lost, histVars>>
  <2>1. Known(p) \in {"push", "adopt"}
    BY DEF Known
  <2>2. /\ UNCHANGED <<made, bound, children, raced, misled>>
        /\ step' \in [Proc -> Handling \cup {"none", "template", "push", "up"}]
        /\ step'[p] = Known(p) /\ \A q \in Proc \ {p} : step'[q] = step[q]
        /\ sid' \in [Proc -> Nat] /\ sid'[p] = bound[n]
        /\ \A q \in Proc \ {p} : sid'[q] = sid[q]
    BY <1>1, <1>5, <2>1 DEF Goto, Inv, Typing, Handling, platVars, histVars
  <2>3. ServedOnly'
    BY <1>2, <2>1, <2>2 DEF Inv, ServedOnly, Serving
  <2>4. Typing' /\ Created' /\ Family'
    BY <2>1, <2>2 DEF Inv, Typing, Created, Family
  <2>5. Alone' /\ Astray'
    BY <2>1, <2>2 DEF Inv, Alone, Astray, Founding
  <2>6. Agreed'
    BY <1>5, <2>1, <2>2 DEF Inv, Agreed, Has
  <2> QED
    BY <2>3, <2>4, <2>5, <2>6 DEF Inv
<1>6. CASE /\ bound[n] # 0 /\ Goes(p, "create")
           /\ misled' = misled \cup {p} /\ UNCHANGED raced
  <2>1. /\ UNCHANGED <<sid, made, bound, children, raced>>
        /\ step' \in [Proc -> Handling \cup {"none", "template", "push", "up"}]
        /\ step'[p] = "create" /\ \A q \in Proc \ {p} : step'[q] = step[q]
    BY <1>1, <1>6 DEF Goes, Goto, Inv, Typing, Handling, platVars
  <2>2. Alone'
    BY <1>6, <2>1 DEF Inv, Alone, Founding
  <2>3. Astray'
    BY <1>6, <2>1 DEF Inv, Astray, Founding
  <2>4. Typing' /\ Created'
    BY <2>1 DEF Inv, Typing, Created
  <2>5. ServedOnly'
    BY <1>2, <2>1 DEF Inv, ServedOnly, Serving
  <2>6. Agreed'
    BY <1>6, <2>1 DEF Inv, Agreed, Has
  <2>7. Family'
    BY <1>6, <2>1 DEF Inv, Family
  <2> QED
    BY <2>2, <2>3, <2>4, <2>5, <2>6, <2>7 DEF Inv
<1> QED
  BY <1>3, <1>4, <1>5, <1>6 DEF Lookup

LEMMA CreateKeeps ==
    ASSUME Inv, NEW p \in Proc, Create(p)
    PROVE  Inv'
<1> USE ProcNames
<1> DEFINE n == p[1]
<1>1. /\ step[p] = "create" /\ UNCHANGED <<bound, children, raced, misled>>
      /\ made' \in [Name -> Nat]
  BY DEF Create, Inv, Typing, histVars
<1>2. (p \in Sess => Serving) /\ (p = Main => ~Serving)
  BY <1>1, Placed DEF Handling
<1>3. \E next \in {"none", "bind"} :
        /\ step' = [step EXCEPT ![p] = next]
        /\ sid' \in [Proc -> Nat] /\ \A q \in Proc \ {p} : sid'[q] = sid[q]
        /\ next = "bind" => sid'[p] # 0
  <2>1. made[n] + 1 \in Nat /\ made[n] + 1 # 0
    BY DEF Inv, Typing
  <2>2. CASE sid' = [sid EXCEPT ![p] = made[n] + 1] /\ Goto(p, "bind")
    BY <2>1, <2>2 DEF Goto, Inv, Typing
  <2>3. CASE Leave(p)
    BY <2>3 DEF Leave, Goto, Inv, Typing
  <2> QED
    BY <2>2, <2>3 DEF Create
<1>4. PICK next \in {"none", "bind"} :
        /\ step' = [step EXCEPT ![p] = next]
        /\ sid' \in [Proc -> Nat] /\ \A q \in Proc \ {p} : sid'[q] = sid[q]
        /\ next = "bind" => sid'[p] # 0
  BY <1>3
<1>5. /\ step' \in [Proc -> Handling \cup {"none", "template", "push", "up"}]
      /\ step'[p] = next /\ \A q \in Proc \ {p} : step'[q] = step[q]
  BY <1>4 DEF Inv, Typing, Handling
<1>6. Typing' /\ Created' /\ Family'
  BY <1>1, <1>4, <1>5 DEF Inv, Typing, Created, Family
<1>7. ServedOnly'
  BY <1>1, <1>2, <1>5 DEF Inv, ServedOnly, Serving
<1>8. Alone' /\ Astray'
  BY <1>1, <1>5 DEF Inv, Alone, Astray, Founding
<1>9. Agreed'
  BY <1>1, <1>4, <1>5 DEF Inv, Agreed, Has
<1> QED
  BY <1>6, <1>7, <1>8, <1>9 DEF Inv

(* The first to bind the name is the only one that is about to; nobody has   *)
(* been told of an object before.                                            *)
LEMMA BindKeeps ==
    ASSUME Inv, NEW p \in Proc, Bind(p)
    PROVE  Inv'
<1> USE ProcNames
<1> DEFINE n == p[1]
<1>1. /\ step[p] = "bind" /\ UNCHANGED <<made, children, raced>>
      /\ misled' = misled \/ (misled' = misled \cup {p} /\ UNCHANGED bound)
  BY DEF Bind
<1>2. (p \in Sess => Serving) /\ (p = Main => ~Serving)
  BY <1>1, Placed DEF Handling
<1>3. PICK next \in {"none", "push", "adopt"} :
        /\ step' = [step EXCEPT ![p] = next]
        /\ sid' \in [Proc -> Nat] /\ \A q \in Proc \ {p} : sid'[q] = sid[q]
        /\ next # "none" => sid'[p] = sid[p]
  <2>1. CASE Leave(p)
    BY <2>1 DEF Leave, Goto, Inv, Typing
  <2>2. CASE Goes(p, Known(p))
    BY <2>2 DEF Goes, Goto, Known, Inv, Typing
  <2> QED
    BY <2>1, <2>2 DEF Bind
<1>4. /\ step' \in [Proc -> Handling \cup {"none", "template", "push", "up"}]
      /\ step'[p] = next /\ \A q \in Proc \ {p} : step'[q] = step[q]
  BY <1>3 DEF Inv, Typing, Handling
<1>5. /\ bound' \in [Name -> Nat]
      /\ bound'[n] \in {bound[n], IF bound[n] = 0 THEN sid[p] ELSE bound[n]}
      /\ \A m \in Name \ {n} : bound'[m] = bound[m]
  BY DEF Bind, Bound, Inv, Typing
<1>6. sid[p] # 0
  BY <1>1 DEF Inv, Created
<1>7. ASSUME n \notin raced, p \notin misled', next # "none"
      PROVE  bound'[n] = sid[p]
  <2>1. p \notin misled
    BY <1>1, <1>7
  <2>2. bound[n] = 0
    BY <1>1, <1>7, <2>1 DEF Inv, Alone, Founding
  <2>3. Bound(n, sid[p])
    BY <1>3, <1>4, <1>7 DEF Bind, Leave, Goto, Inv, Typing
  <2> QED
    BY <2>2, <2>3 DEF Bound, Inv, Typing
<1>8. Typing' /\ Created'
  BY <1>1, <1>3, <1>4, <1>5 DEF Inv, Typing, Created
<1>9. ServedOnly'
  BY <1>1, <1>2, <1>4 DEF Inv, ServedOnly, Serving
<1>10. Family'
  BY <1>1, <1>5 DEF Inv, Family
<1>11. Astray'
  BY <1>1, <1>4, <1>5, <1>6 DEF Inv, Astray, Founding
<1>12. Alone'
  <2> SUFFICES ASSUME NEW q \in Proc \ misled', Founding(q)', q[1] \notin raced
               PROVE  /\ bound'[q[1]] = 0
                      /\ \A r \in Proc \ misled' :
                            r[1] = q[1] /\ Founding(r)' => r = q
    BY <1>1 DEF Alone
  <2>1. q # p /\ Founding(q) /\ q \notin misled
    BY <1>1, <1>4 DEF Founding
  <2>2. bound[q[1]] = 0
    BY <2>1 DEF Inv, Alone
  <2>3. q[1] # n
    <3>1. CASE p \notin misled
      BY <1>1, <2>1, <3>1 DEF Inv, Alone, Founding
    <3>2. CASE p \in misled
      BY <1>1, <2>1, <2>2, <3>2 DEF Inv, Astray, Founding
    <3> QED
      BY <3>1, <3>2
  <2> QED
    BY <1>1, <1>4, <1>5, <2>1, <2>2, <2>3 DEF Inv, Alone, Founding
<1>13. Agreed'
  <2> SUFFICES ASSUME NEW q \in Proc \ misled', Has(q)', q[1] \notin raced
               PROVE  sid'[q] = bound'[q[1]] /\ bound'[q[1]] # 0
    BY <1>1 DEF Agreed
  <2>1. CASE q = p
    BY <1>3, <1>4, <1>6, <1>7, <2>1 DEF Has
  <2>2. CASE q # p
    <3>1. Has(q) /\ sid'[q] = sid[q] /\ sid[q] = bound[q[1]] /\ bound[q[1]] # 0
      BY <1>1, <1>3, <1>4, <2>2 DEF Has, Inv, Agreed
    <3> QED
      BY <1>5, <3>1
  <2> QED
    BY <2>1, <2>2
<1> QED
  BY <1>8, <1>9, <1>10, <1>11, <1>12, <1>13 DEF Inv

LEMMA MainKeeps ==
    ASSUME Inv, Start \/ RegisterTemplate \/ Serve
    PROVE  Inv'
<1> USE ProcNames
<1>1. ~Serving
  BY DEF Start, RegisterTemplate, Serve, Serving
<1>2. CASE Leave(Main) /\ UNCHANGED <<platVars, histVars>>
  BY <1>1, <1>2, Leaving
<1>3. CASE \E next \in {"template", "lookup"} : Goes(Main, next)
                                          /\ UNCHANGED <<platVars, histVars>>
  BY <1>1, <1>3, Moves DEF Goes, Inv, Typing, histVars
<1>4. CASE Serve /\ Goes(Main, "up")
  BY <1>1, <1>4, Moves DEF Serve, Goes, Has, Inv, Typing, histVars
<1> QED
  BY <1>2, <1>3, <1>4 DEF Start, RegisterTemplate, Serve

LEMMA SessionKeeps ==
    ASSUME Inv, NEW s \in Sess, Register(s) \/ Adopt(s) \/ End(s)
    PROVE  Inv'
<1> USE ProcNames
<1>1. s \in Proc /\ s # Main
  OBVIOUS
<1>2. CASE Register(s)
  BY <1>1, <1>2, Moves DEF Register, Goes, Inv, Typing
<1>3. CASE End(s)
  <2>1. Serving
    BY <1>3 DEF End, Inv, ServedOnly
  <2> QED
    BY <1>1, <1>3, <2>1, Leaving DEF End
<1>4. CASE Adopt(s)
  <2>1. /\ step[s] = "adopt" /\ UNCHANGED <<sid, made, bound, raced, misled>>
        /\ step' = [step EXCEPT ![s] = "up"]
    BY <1>4 DEF Adopt, Goes, Goto, histVars
  <2>2. Main \notin misled => sid[Main] = bound[Agent] /\ bound[Agent] # 0
    <3>1. Serving
      BY <2>1 DEF Inv, ServedOnly
    <3> QED
      BY <3>1 DEF Inv, Agreed, Family, Has, Serving
  <2>3. \A c \in children' : c \in children \/ c.agent = sid[Main]
    BY <1>4 DEF Adopt
  <2>4. Family'
    BY <2>1, <2>2, <2>3 DEF Inv, Family
  <2>5. /\ step' \in [Proc -> Handling \cup {"none", "template", "push", "up"}]
        /\ step'[s] = "up" /\ \A q \in Proc \ {s} : step'[q] = step[q]
    BY <1>1, <2>1 DEF Inv, Typing, Handling
  <2>6. Typing' /\ Created'
    BY <1>1, <2>1, <2>5 DEF Inv, Typing, Created
  <2>7. ServedOnly'
    BY <1>1, <2>1, <2>5 DEF Inv, ServedOnly, Serving
  <2>8. Alone' /\ Astray'
    BY <1>1, <2>1, <2>5 DEF Inv, Alone, Astray, Founding
  <2>9. Agreed'
    BY <1>1, <2>1, <2>5 DEF Inv, Agreed, Has
  <2> QED
    BY <2>4, <2>6, <2>7, <2>8, <2>9 DEF Inv
<1> QED
  BY <1>2, <1>3, <1>4

LEMMA CrashKeeps == Inv /\ Crash => Inv'
<1> SUFFICES ASSUME Inv, Crash PROVE Inv'
  OBVIOUS
<1>1. /\ step' = [p \in Proc |-> "none"] /\ sid' = [p \in Proc |-> 0]
      /\ UNCHANGED <<made, bound, children, raced, misled>>
  BY DEF Crash, platVars, histVars
<1> QED
  BY <1>1, ProcNames DEF Inv, Typing, ServedOnly, Alone, Astray, Created, Agreed,
     Family, Founding, Has

LEMMA InvStep == Inv /\ [Next]_vars => Inv'
<1> SUFFICES ASSUME Inv, [Next]_vars PROVE Inv'
  OBVIOUS
<1>1. CASE MainStep
  BY <1>1, ProcNames, MainKeeps, LookupKeeps, CreateKeeps, BindKeeps
     DEF MainStep, Request
<1>2. CASE \E s \in Sess : Register(s) \/ Request(s) \/ Adopt(s) \/ End(s)
  BY <1>2, ProcNames, SessionKeeps, LookupKeeps, CreateKeeps, BindKeeps
     DEF Request
<1>3. CASE Crash
  BY <1>3, CrashKeeps
<1>4. CASE UNCHANGED vars \/ AcceptFails
  <2>1. UNCHANGED <<step, sid, platVars, histVars>>
    BY <1>4 DEF vars, AcceptFails
  <2> QED
    BY <2>1 DEF platVars, histVars, Inv, Typing, ServedOnly, Serving, Alone, Astray,
       Created, Agreed, Family, Founding, Has
<1> QED
  BY <1>1, <1>2, <1>3, <1>4 DEF Next

(* The agent and every DTU work with the object that the platform has under  *)
(* their name, whatever requests failed and however often the process was    *)
(* killed between two of them; except a DTU of which two registrations have  *)
(* found no object at a time, and a registration that has taken an error     *)
(* that 300 or 302 was answered with for no object or for a success.         *)
THEOREM NamesAgree == Spec => []SameObject
<1> QED
  BY InvInit, InvStep, InvImplies, PTL DEF Spec
-----------------------------------------------------------------------------
(* The rest of the types: whoever is through with the requests has an object. *)
Owning == \A p \in Proc : Has(p) => sid[p] # 0

Full == Inv /\ TypeOK /\ Owning

(* How many registrations of a DTU can be about to bind a name, and so many  *)
(* objects one trouble can orphan.                                           *)
Founders(n) == {p \in Proc : p[1] = n /\ Founding(p)}

Share(n) == IF n \in raced THEN Conns[n] ELSE 1

(* Once the name is bound nobody founds any more, but those who do orphan an *)
(* object each, without any trouble.                                         *)
Few(n) ==
    LET o == Cardinality(Orphans(n))
        f == Cardinality(Founders(n))
    IN IF bound[n] = 0 THEN o <= Share(n) * troubles
       ELSE o + f <= Share(n) * (troubles + 1) - 1

FewInv == Full /\ \A n \in Name : Few(n)

LEMMA NoneLost == 0 \in 0..Workers /\ FALSE \in BOOLEAN
<1>1. Workers \in Nat
  BY OnboardingAssumption
<1> QED
  BY <1>1

LEMMA FullInit == Init => Full
<1> SUFFICES ASSUME Init PROVE Full
  OBVIOUS
<1>1. 0 \in 0..MaxTroubles
  BY OnboardingAssumption
<1>2. \A p \in Proc : p[1] \in Name
  BY ProcNames
<1>3. /\ step \in [Proc -> Handling \cup {"none", "template", "push", "up"}]
      /\ made \in [Name -> Nat] /\ \A n \in Name : bound[n] \in 0..made[n]
      /\ \A p \in Proc : sid[p] \in 0..made[p[1]]
  BY <1>2 DEF Init
<1>4. /\ troubles = 0 /\ raced = {} /\ misled = {} /\ children = {}
      /\ \A p \in Proc : ~Has(p)
  BY DEF Init, Has
<1>5. accepting \in BOOLEAN /\ lost \in 0..Workers
  <2>1. accepting = FALSE /\ lost = 0
    BY DEF Init
  <2> QED
    BY <2>1, NoneLost
<1> QED
  BY <1>1, <1>3, <1>4, <1>5, InvInit DEF Full, TypeOK, Owning

(* What main or one registration does, n being its name.                     *)
Acts(p) ==
    \/ p = Main /\ (Start \/ RegisterTemplate \/ Serve)
    \/ p \in Sess /\ (Register(p) \/ Adopt(p) \/ End(p))
    \/ Request(p)

Calm(p) ==
    /\ ~Founding(p)' /\ step[p] # "bind" /\ sid'[p] \in {0, sid[p], bound[p[1]]}
    /\ Has(p)' => sid'[p] # 0
    /\ UNCHANGED <<made, bound, raced>>

Begins(p) ==
    /\ step[p] = "lookup" /\ step'[p] = "create" /\ bound[p[1]] = 0
    /\ raced' = raced \/ raced' = raced \cup {p[1]}
    /\ UNCHANGED <<sid, made, bound, children>>

Misleads(p) ==
    /\ step[p] = "lookup" /\ step'[p] = "create" /\ bound[p[1]] # 0 /\ Trouble
    /\ UNCHANGED <<sid, made, bound, children, raced>>

Creates(p) ==
    /\ step[p] = "create" /\ step'[p] = "bind" /\ sid'[p] = made[p[1]] + 1
    /\ made' = [made EXCEPT ![p[1]] = @ + 1]
    /\ UNCHANGED <<bound, raced, children>>

CreateFails(p) ==
    /\ step[p] = "create" /\ step'[p] = "none" /\ sid'[p] = 0 /\ Trouble
    /\ made' \in {made, [made EXCEPT ![p[1]] = @ + 1]}
    /\ UNCHANGED <<bound, raced, children>>

Binding(p) ==
    /\ step[p] = "bind" /\ step'[p] \in {"none", "push", "adopt"}
    /\ sid'[p] = IF step'[p] = "none" THEN 0 ELSE sid[p]
    /\ UNCHANGED <<made, raced, children>>

Binds(p) ==
    /\ Binding(p) /\ bound[p[1]] = 0
    /\ bound' = [bound EXCEPT ![p[1]] = sid[p]]

Orphaned(p) ==
    /\ Binding(p) /\ UNCHANGED bound
    /\ bound[p[1]] # 0 \/ Trouble

(* The others are left alone, and the troubles counted.                      *)
Others(p) ==
    /\ \A q \in Proc \ {p} : step'[q] = step[q] /\ sid'[q] = sid[q]
    /\ accepting' \in BOOLEAN /\ lost' \in 0..Workers
    /\ misled' \in SUBSET (misled \cup {p})
    /\ troubles' \in Nat /\ troubles' >= troubles /\ troubles' <= MaxTroubles

LEMMA Troubled ==
    ASSUME TypeOK, Fine \/ Trouble
    PROVE  troubles' \in Nat /\ troubles' >= troubles /\ troubles' <= MaxTroubles
  BY OnboardingAssumption DEF TypeOK, Fine, Trouble

LEMMA Gone ==
    ASSUME Full, NEW p \in Proc, NEW next \in {"none", "template", "lookup", "push", "up", "adopt", "create", "bind"},
           Goto(p, next)
    PROVE  step'[p] = next /\ \A q \in Proc \ {p} : step'[q] = step[q]
  BY DEF Goto, Full, TypeOK

LEMMA SidType == Full => sid \in [Proc -> Nat]
  BY DEF Full, Inv, Typing

LEMMA ActCases ==
    ASSUME Full, NEW p \in Proc, Acts(p)
    PROVE  /\ Others(p)
           /\ \/ Calm(p) \/ Begins(p) \/ Misleads(p) \/ Creates(p) \/ CreateFails(p)
              \/ Binds(p) \/ Orphaned(p)
<1> USE SidType, ProcNames
<1>1. Fine \/ Trouble
  BY DEF Acts, Start, RegisterTemplate, Serve, Register, Adopt, End, Request, Lookup,
     Create, Bind, Fine
<1>2. /\ accepting \in BOOLEAN /\ lost \in 0..Workers /\ misled \in SUBSET Proc
      /\ \A q \in Proc : Has(q) => sid[q] # 0
  BY DEF Full, TypeOK, Owning
<1>3. accepting' \in BOOLEAN
  BY <1>2 DEF Acts, Start, RegisterTemplate, Serve, Register, Adopt, End, Request, Lookup,
     Create, Bind
<1>4. lost' \in 0..Workers
  <2>1. Leave(p) => lost' \in 0..Workers
    BY <1>2, OnboardingAssumption DEF Leave
  <2>2. UNCHANGED lost => lost' \in 0..Workers
    BY <1>2
  <2>3. Leave(p) \/ UNCHANGED lost
    BY DEF Acts, Start, RegisterTemplate, Serve, Register, Adopt, End, Request, Lookup,
       Create, Bind, Goes
  <2> QED
    BY <2>1, <2>2, <2>3
<1>5. misled' \in SUBSET (misled \cup {p})
  BY DEF Acts, Start, RegisterTemplate, Serve, Register, Adopt, End, Request, Lookup,
     Create, Bind, histVars
<1>6. /\ troubles' \in Nat /\ troubles' >= troubles /\ troubles' <= MaxTroubles
      /\ accepting' \in BOOLEAN /\ lost' \in 0..Workers
      /\ misled' \in SUBSET (misled \cup {p})
  BY <1>1, <1>3, <1>4, <1>5, Troubled DEF Full
<1>7. ASSUME Leave(p)
      PROVE  /\ step'[p] = "none" /\ sid'[p] = 0
             /\ \A q \in Proc \ {p} : step'[q] = step[q] /\ sid'[q] = sid[q]
  BY <1>7, Gone DEF Leave
<1>8. ASSUME NEW next \in {"template", "lookup", "push", "up", "adopt", "create"},
             Goes(p, next)
      PROVE  /\ step'[p] = next /\ sid' = sid
             /\ \A q \in Proc \ {p} : step'[q] = step[q]
  BY <1>8, Gone DEF Goes
<1>9. CASE p = Main /\ (Start \/ RegisterTemplate \/ Serve)
  BY <1>2, <1>6, <1>7, <1>8, <1>9 DEF Others, Calm, Start, RegisterTemplate, Serve,
     Founding, Has, platVars, histVars
<1>10. CASE p \in Sess /\ (Register(p) \/ Adopt(p) \/ End(p))
  BY <1>2, <1>6, <1>7, <1>8, <1>10 DEF Others, Calm, Register, Adopt, End, Founding, Has,
     platVars, histVars
<1>11. CASE Lookup(p)
  <2>1. CASE Leave(p) /\ UNCHANGED histVars
    BY <1>6, <1>7, <1>11, <2>1 DEF Others, Calm, Lookup, Founding, Has, platVars, histVars
  <2>2. CASE Trouble /\ bound[p[1]] # 0 /\ Goes(p, "create") /\ UNCHANGED raced
    BY <1>6, <1>8, <1>11, <2>2 DEF Others, Misleads, Lookup, platVars
  <2>3. CASE /\ bound[p[1]] = 0 /\ Goes(p, "create")
             /\ raced' = raced \/ raced' = raced \cup {p[1]}
    BY <1>6, <1>8, <1>11, <2>3 DEF Others, Begins, Lookup, platVars
  <2>4. CASE /\ bound[p[1]] # 0 /\ sid' = [sid EXCEPT ![p] = bound[p[1]]]
             /\ Goto(p, Known(p)) /\ UNCHANGED <<lost, histVars>>
    <3>1. Known(p) \in {"push", "adopt"}
      BY DEF Known
    <3>2. step'[p] = Known(p) /\ \A q \in Proc \ {p} : step'[q] = step[q]
      BY <2>4, <3>1, Gone
    <3> QED
      BY <1>6, <1>11, <2>4, <3>1, <3>2 DEF Others, Calm, Lookup, Founding, Has,
         platVars, histVars
  <2> QED
    BY <1>11, <2>1, <2>3, <2>4, <2>2 DEF Lookup
<1>12. CASE Create(p)
  <2>1. CASE Leave(p)
    <3>1. Trouble
      BY <1>12, <2>1, Gone DEF Create, Leave
    <3>2. made' \in {made, [made EXCEPT ![p[1]] = @ + 1]}
      BY <1>12 DEF Create
    <3> QED
      BY <1>6, <1>7, <1>12, <2>1, <3>1, <3>2 DEF Others, CreateFails, Create, histVars
  <2>2. CASE /\ made' = [made EXCEPT ![p[1]] = @ + 1]
             /\ sid' = [sid EXCEPT ![p] = made[p[1]] + 1]
             /\ Goto(p, "bind")
    BY <1>6, <1>12, <2>2, Gone DEF Others, Creates, Create, histVars
  <2> QED
    BY <1>12, <2>1, <2>2 DEF Create
<1>13. CASE Bind(p)
  <2>1. Known(p) \in {"push", "adopt"}
    BY DEF Known
  <2>2. Binding(p) /\ Others(p)
    <3>1. CASE Leave(p)
      BY <1>6, <1>7, <1>13, <3>1 DEF Bind, Binding, Others
    <3>2. CASE Goes(p, Known(p))
      BY <1>6, <1>8, <1>13, <2>1, <3>2 DEF Bind, Binding, Others
    <3> QED
      BY <1>13, <3>1, <3>2 DEF Bind
  <2>3. CASE Bound(p[1], sid[p]) /\ bound[p[1]] = 0
    BY <2>2, <2>3 DEF Bound, Binds
  <2>4. CASE Bound(p[1], sid[p]) /\ bound[p[1]] # 0
    <3>1. bound \in [Name -> Nat]
      BY DEF Full, Inv, Typing
    <3>2. bound' = bound
      BY <2>4, <3>1 DEF Bound
    <3> QED
      BY <2>2, <2>4, <3>2 DEF Orphaned
  <2>5. CASE UNCHANGED bound /\ Trouble
    BY <2>2, <2>5 DEF Orphaned
  <2> QED
    BY <1>13, <2>3, <2>4, <2>5 DEF Bind
<1> QED
  BY <1>9, <1>10, <1>11, <1>12, <1>13 DEF Acts, Request

LEMMA AdoptTypes ==
    ASSUME Full, NEW p \in Proc, Acts(p), made[Agent] <= made'[Agent], made'[Agent] \in Nat
    PROVE  children' \subseteq [agent : 1..made'[Agent], dtu : Dtu, object : Nat \ {0}]
<1> USE ProcNames
<1>1. /\ children \subseteq [agent : 1..made[Agent], dtu : Dtu, object : Nat \ {0}]
      /\ made[Agent] \in Nat
  BY DEF Full, TypeOK
<1>2. 1..made[Agent] \subseteq 1..made'[Agent]
  BY <1>1
<1>3. CASE children' = children
  BY <1>1, <1>2, <1>3
<1>4. CASE /\ p \in Sess /\ Adopt(p)
           /\ children' = children \cup {[agent |-> sid[Main], dtu |-> p[1], object |-> sid[p]]}
  <2>1. sid[p] \in Nat \ {0} /\ p[1] \in Dtu
    BY <1>4, SidType DEF Adopt, Full, Owning, Has
  <2>2. sid[Main] # 0 /\ sid[Main] \in 0..made[Agent]
    <3>1. Serving
      BY <1>4 DEF Adopt, Full, Inv, ServedOnly
    <3> QED
      BY <3>1 DEF Full, TypeOK, Owning, Has, Serving
  <2>3. sid[Main] \in 1..made'[Agent]
    BY <1>1, <1>2, <2>2
  <2> QED
    BY <1>1, <1>2, <1>4, <2>1, <2>3
<1> QED
  BY <1>3, <1>4 DEF Acts, Start, RegisterTemplate, Serve, Register, Adopt, End, Request,
     Lookup, Create, Bind, platVars

LEMMA FullAct ==
    ASSUME Full, Inv', NEW p \in Proc, Acts(p)
    PROVE  Full'
<1> USE ProcNames
<1> DEFINE n == p[1]
<1>1. /\ Others(p)
      /\ \/ Calm(p) \/ Begins(p) \/ Misleads(p) \/ Creates(p) \/ CreateFails(p)
         \/ Binds(p) \/ Orphaned(p)
  BY ActCases
<1>2. /\ sid \in [Proc -> Nat] /\ made \in [Name -> Nat] /\ bound \in [Name -> Nat]
      /\ \A q \in Proc : sid[q] <= made[q[1]]
      /\ \A m \in Name : bound[m] <= made[m]
      /\ raced \subseteq Name /\ n \in Name
  BY SidType DEF Full, TypeOK, Inv, Typing
<1>3. /\ sid' \in [Proc -> Nat] /\ made' \in [Name -> Nat] /\ bound' \in [Name -> Nat]
      /\ step' \in [Proc -> Handling \cup {"none", "template", "push", "up"}]
  BY DEF Inv, Typing
<1>4. /\ \A m \in Name : made[m] <= made'[m]
      /\ raced' \subseteq Name
  BY <1>1, <1>2 DEF Calm, Begins, Misleads, Creates, CreateFails, Binding, Binds, Orphaned
<1>5. sid'[p] <= made'[n] /\ \A m \in Name : bound'[m] <= made'[m]
  <2>1. CASE Calm(p) \/ Begins(p) \/ Misleads(p) \/ CreateFails(p)
    BY <1>2, <1>3, <1>4, <2>1 DEF Calm, Begins, Misleads, CreateFails
  <2>2. CASE Creates(p)
    BY <1>2, <1>3, <2>2 DEF Creates
  <2>3. CASE Binds(p) \/ Orphaned(p)
    BY <1>2, <1>3, <2>3 DEF Binding, Binds, Orphaned
  <2> QED
    BY <1>1, <2>1, <2>2, <2>3
<1>6. \A q \in Proc : sid'[q] <= made'[q[1]]
  <2>1. ASSUME NEW q \in Proc \ {p} PROVE sid'[q] <= made'[q[1]]
    <3>1. q[1] \in Name /\ sid'[q] = sid[q] /\ sid[q] <= made[q[1]]
      BY <1>1, <1>2 DEF Others
    <3>2. /\ made[q[1]] \in Nat /\ made'[q[1]] \in Nat /\ sid[q] \in Nat
          /\ made[q[1]] <= made'[q[1]]
      BY <1>2, <1>3, <1>4, <3>1
    <3> QED
      BY <3>1, <3>2
  <2> QED
    BY <1>5, <2>1
<1>7. Owning'
  <2>1. Has(p)' => sid'[p] # 0
    BY <1>1 DEF Calm, Begins, Misleads, Creates, CreateFails, Binding, Binds, Orphaned, Full,
       Inv, Created, Has
  <2> QED
    BY <1>1, <2>1 DEF Others, Full, Owning, Has
<1>8. children' \subseteq [agent : 1..made'[Agent], dtu : Dtu, object : Nat \ {0}]
  BY <1>3, <1>4, AdoptTypes
<1>9. /\ troubles' \in 0..MaxTroubles /\ misled' \subseteq Proc
      /\ accepting' \in BOOLEAN /\ lost' \in 0..Workers
  BY <1>1, OnboardingAssumption DEF Others, Full, TypeOK
<1>10. /\ \A q \in Proc : sid'[q] \in 0..made'[q[1]]
      /\ \A m \in Name : bound'[m] \in 0..made'[m]
  BY <1>3, <1>5, <1>6
<1> QED
  BY <1>3, <1>4, <1>7, <1>8, <1>9, <1>10 DEF Full, TypeOK

LEMMA FullRest ==
    ASSUME Full, Inv', Crash \/ AcceptFails \/ UNCHANGED vars
    PROVE  Full'
<1>1. CASE UNCHANGED vars
  BY <1>1 DEF vars, platVars, poolVars, histVars, Full, TypeOK, Owning, Has
<1>2. CASE Crash
  <2>1. /\ step' = [p \in Proc |-> "none"] /\ sid' = [p \in Proc |-> 0]
        /\ UNCHANGED <<made, bound, children, raced, misled>> /\ Trouble
        /\ accepting' = FALSE /\ lost' = 0
    BY <1>2 DEF Crash, platVars, histVars
  <2>2. troubles' \in 0..MaxTroubles
    BY <2>1, Troubled, OnboardingAssumption DEF Full
  <2>3. \A p \in Proc : sid'[p] \in 0..made'[p[1]]
    <3>1. \A p \in Proc : made[p[1]] \in Nat
      BY ProcNames DEF Full, TypeOK
    <3> QED
      BY <2>1, <3>1
  <2> QED
    BY <2>1, <2>2, <2>3, NoneLost DEF Full, TypeOK, Owning, Has, Handling
<1>3. CASE AcceptFails
  BY <1>3 DEF AcceptFails, platVars, histVars, Full, TypeOK, Owning, Has
<1> QED
  BY <1>1, <1>2, <1>3

LEMMA WhoActs == Next => (\E p \in Proc : Acts(p)) \/ Crash \/ AcceptFails
  BY ProcNames DEF Next, MainStep, Acts

LEMMA FullStep == Full /\ [Next]_vars => Full'
<1> SUFFICES ASSUME Full, [Next]_vars PROVE Full'
  OBVIOUS
<1>1. Inv'
  BY InvStep DEF Full
<1> QED
  BY <1>1, WhoActs, FullAct, FullRest

(* Objects are numbered by the platform; what a session works with and what  *)
(* is bound or made a child has been created before, for that name.          *)
THEOREM OnboardingTypes == Spec => []TypeOK
<1>1. Full => TypeOK
  BY DEF Full
<1> QED
  BY <1>1, FullInit, FullStep, PTL DEF Spec

-----------------------------------------------------------------------------
(* Counting the orphans.                                                     *)

LEMMA ProcFinite == IsFiniteSet(Proc)
<1>1. \A d \in Dtu : IsFiniteSet({d} \X (1..Conns[d]))
  <2> SUFFICES ASSUME NEW d \in Dtu PROVE IsFiniteSet({d} \X (1..Conns[d]))
    OBVIOUS
  <2>1. IsFiniteSet(1..Conns[d])
    <3>1. 1 \in Int /\ Conns[d] \in Int
      BY OnboardingAssumption
    <3> QED
      BY <3>1, FS_Interval
  <2>2. IsFiniteSet({d})
    BY FS_Singleton
  <2> QED
    BY <2>1, <2>2, FS_Product
<1>2. IsFiniteSet({{d} \X (1..Conns[d]) : d \in Dtu})
  <2> DEFINE all == {{d} \X (1..Conns[d]) : d \in Dtu}
             f == [d \in Dtu |-> {d} \X (1..Conns[d])]
  <2>1. f \in Surjection(Dtu, all)
    BY DEF Surjection
  <2> HIDE DEF f, all
  <2>2. IsFiniteSet(all)
    BY <2>1, OnboardingAssumption, FS_Surjection
  <2> QED
    BY <2>2 DEF all
<1>3. IsFiniteSet(Sess)
  BY <1>1, <1>2, FS_UNION DEF Sess
<1> QED
  BY <1>3, FS_AddElement DEF Proc

LEMMA Finite ==
    ASSUME Full, NEW n \in Name
    PROVE  /\ IsFiniteSet(Orphans(n)) /\ Cardinality(Orphans(n)) \in Nat
           /\ IsFiniteSet(Founders(n)) /\ Cardinality(Founders(n)) \in Nat
           /\ Share(n) \in Nat /\ Share(n) >= 1
           /\ bound[n] = 0 => Cardinality(Founders(n)) <= Share(n)
<1> USE ProcNames
<1>1. IsFiniteSet(Orphans(n)) /\ Cardinality(Orphans(n)) \in Nat
  <2>1. made[n] \in Nat
    BY DEF Full, TypeOK
  <2>2. Orphans(n) \in SUBSET (1..made[n])
    BY DEF Orphans
  <2>3. IsFiniteSet(1..made[n])
    BY <2>1, FS_Interval
  <2> QED
    BY <2>2, <2>3, FS_Subset, FS_CardinalityType
<1>2. n \in raced => n \in Dtu
  BY DEF Full, Inv, Family, Name
<1>3. Share(n) \in Nat /\ Share(n) >= 1
  BY <1>2, OnboardingAssumption DEF Share
<1>4. CASE n \in raced
  <2> DEFINE f == [p \in Founders(n) |-> p[2]]
  <2>1. Conns[n] \in Nat
    BY <1>2, <1>4, OnboardingAssumption
  <2>2. \A p \in Founders(n) : p \in Sess
    BY <1>2, <1>4, OnboardingAssumption DEF Founders
  <2>3. ASSUME NEW p \in Founders(n)
        PROVE  p = <<n, p[2]>> /\ p[2] \in 1..Conns[n]
    <3>1. PICK d \in Dtu : p \in {d} \X (1..Conns[d])
      BY <2>2 DEF Sess
    <3>2. p[1] = d /\ p = <<d, p[2]>> /\ p[2] \in 1..Conns[d]
      BY <3>1
    <3>3. p[1] = n
      BY DEF Founders
    <3> QED
      BY <3>2, <3>3
  <2>4. f \in Injection(Founders(n), 1..Conns[n])
    BY <2>3 DEF Injection, IsInjective
  <2>5. IsFiniteSet(1..Conns[n]) /\ Cardinality(1..Conns[n]) = Conns[n]
    <3>1. 1 \in Int /\ Conns[n] \in Int
      BY <2>1
    <3>2. /\ IsFiniteSet(1..Conns[n])
          /\ Cardinality(1..Conns[n]) = IF 1 > Conns[n] THEN 0 ELSE Conns[n] - 1 + 1
      BY <3>1, FS_Interval
    <3> QED
      BY <2>1, <3>2
  <2>6. IsFiniteSet(Founders(n)) /\ Cardinality(Founders(n)) <= Conns[n]
    <3> HIDE DEF f
    <3> QED
      BY <2>4, <2>5, FS_Injection
  <2> QED
    BY <1>1, <1>3, <1>4, <2>6, FS_CardinalityType DEF Share
<1>5. IsFiniteSet(Founders(n)) /\ Cardinality(Founders(n)) \in Nat
  <2>1. Founders(n) \subseteq Proc
    BY DEF Founders
  <2> QED
    BY <2>1, ProcFinite, FS_Subset, FS_CardinalityType
<1>6. CASE n \notin raced
  <2> SUFFICES ASSUME bound[n] = 0 PROVE Cardinality(Founders(n)) <= 1
    BY <1>1, <1>3, <1>5, <1>6 DEF Share
  <2>1. ASSUME NEW p \in Founders(n), NEW q \in Founders(n) PROVE p = q
    <3>1. p[1] = n /\ q[1] = n /\ Founding(p) /\ Founding(q) /\ p \in Proc /\ q \in Proc
      BY DEF Founders
    <3>2. CASE n = Agent
      BY <3>1, <3>2
    <3>3. CASE n # Agent
      <4>1. p \in Sess /\ q \in Sess
        BY <3>1, <3>3
      <4>2. p \notin misled /\ q \notin misled
        BY <3>1, <4>1 DEF Full, Inv, Astray
      <4> QED
        BY <1>6, <3>1, <4>2 DEF Full, Inv, Alone
    <3> QED
      BY <3>2, <3>3
  <2>2. CASE Founders(n) = {}
    BY <2>2, FS_EmptySet
  <2>3. CASE Founders(n) # {}
    <3>1. PICK p : Founders(n) = {p}
      BY <2>1, <2>3
    <3> QED
      BY <3>1, FS_Singleton
  <2> QED
    BY <2>2, <2>3
<1> QED
  BY <1>4, <1>6

LEMMA Products ==
    ASSUME NEW c \in Nat, NEW d \in Nat, d >= c, NEW t \in Nat, NEW u \in Nat, u >= t
    PROVE  /\ c * t \in Nat /\ d * u \in Nat /\ d * u >= c * t
           /\ d * (u + 1) = d * u + d /\ c * (t + 1) = c * t + c
<1>1. d * u = c * t + c * (u - t) + (d - c) * u
  OBVIOUS
<1>2. c * t \in Nat /\ c * (u - t) \in Nat /\ (d - c) * u \in Nat
  OBVIOUS
<1>3. d * u >= c * t
  BY <1>1, <1>2
<1> QED
  BY <1>2, <1>3

(* What a step may do to the count of one name: nothing worse; a founder for *)
(* a trouble, the name being bound; an orphan for a founder, the name being  *)
(* bound or a trouble counted; the name is bound by one of the founders; all *)
(* founders are lost with the process.                                       *)
Steady(n) ==
    /\ bound'[n] = bound[n] /\ Orphans(n)' \subseteq Orphans(n)
    /\ bound[n] = 0 \/ Founders(n)' \subseteq Founders(n)

GainsOne(n) ==
    /\ bound'[n] = bound[n] /\ bound[n] # 0 /\ troubles' = troubles + 1
    /\ Orphans(n)' \subseteq Orphans(n)
    /\ \E p \in Proc : Founders(n)' \subseteq Founders(n) \cup {p}

LosesOne(n) ==
    /\ bound'[n] = bound[n]
    /\ bound[n] # 0 \/ troubles' = troubles + 1
    /\ \E p \in Founders(n), k \in Nat :
          /\ Founders(n)' \subseteq Founders(n) \ {p}
          /\ Orphans(n)' \subseteq Orphans(n) \cup {k}

GetsBound(n) ==
    /\ bound[n] = 0 /\ bound'[n] # 0 /\ Orphans(n)' \subseteq Orphans(n)
    /\ \E p \in Founders(n) : Founders(n)' \subseteq Founders(n) \ {p}

LosesAll(n) ==
    /\ bound'[n] = bound[n] /\ troubles' = troubles + 1 /\ Founders(n)' = {}
    /\ Orphans(n)' \subseteq Orphans(n) \cup {sid[p] : p \in Founders(n)}

Counted ==
    \A n \in Name :
        /\ IsFiniteSet(Orphans(n)) /\ Cardinality(Orphans(n)) \in Nat
        /\ IsFiniteSet(Founders(n)) /\ Cardinality(Founders(n)) \in Nat
        /\ Share(n) \in Nat /\ Share(n) >= 1
        /\ bound[n] = 0 => Cardinality(Founders(n)) <= Share(n)

LEMMA CountedFull == Full => Counted
  BY Finite DEF Counted

LEMMA CountedNext == Full' => Counted'
  BY CountedFull, PTL

LEMMA FewKept ==
    ASSUME Full, Full', NEW n \in Name, Few(n), Share(n)' >= Share(n),
           troubles' >= troubles,
           Steady(n) \/ GainsOne(n) \/ LosesOne(n) \/ GetsBound(n) \/ LosesAll(n)
    PROVE  Few(n)'
<1> DEFINE o == Cardinality(Orphans(n))
           f == Cardinality(Founders(n))
           c == Share(n)
           t == troubles
           o1 == Cardinality(Orphans(n)')
           f1 == Cardinality(Founders(n)')
           c1 == Share(n)'
           t1 == troubles'
<1>1. /\ o \in Nat /\ f \in Nat /\ c \in Nat /\ c >= 1
      /\ bound[n] = 0 => f <= c
      /\ IsFiniteSet(Orphans(n)) /\ IsFiniteSet(Founders(n))
  BY CountedFull DEF Counted
<1>2. /\ o1 \in Nat /\ f1 \in Nat /\ c1 \in Nat /\ c1 >= 1
      /\ IsFiniteSet(Orphans(n)') /\ IsFiniteSet(Founders(n)')
  <2>1. Counted'
    BY CountedNext
  <2>2. Name' = Name
    BY DEF Name
  <2> QED
    BY <2>1, <2>2 DEF Counted
<1>3. /\ t \in Nat /\ t1 \in Nat /\ t1 >= t /\ bound[n] \in Nat /\ bound'[n] \in Nat
      /\ c1 >= c
  BY DEF Full, TypeOK, Inv, Typing
<1>4. /\ bound[n] = 0 => o <= c * t
      /\ bound[n] # 0 => o + f <= c * (t + 1) - 1
  BY DEF Few
<1>5. /\ c * t \in Nat /\ c1 * t1 \in Nat /\ c1 * t1 >= c * t
      /\ c * (t + 1) = c * t + c /\ c1 * (t1 + 1) = c1 * t1 + c1
  <2>1. c \in Nat /\ t \in Nat /\ c1 \in Nat /\ t1 \in Nat /\ c1 >= c /\ t1 >= t
    BY <1>1, <1>2, <1>3
  <2> HIDE DEF c, t, c1, t1
  <2> QED
    BY <2>1, Products
<1>6. ASSUME t1 = t + 1
      PROVE  c1 * t1 >= c * t + c
  <2> HIDE DEF c, t, c1, t1
  <2>1. t1 >= t + 1 /\ t + 1 \in Nat
    BY <1>3, <1>6
  <2>2. c1 * t1 >= c * (t + 1)
    BY <1>1, <1>2, <1>3, <2>1, Products
  <2> QED
    BY <1>5, <2>2
<1>7. ASSUME /\ bound'[n] = 0 => o1 <= c1 * t1
             /\ bound'[n] # 0 => o1 + f1 <= c1 * t1 + c1 - 1
      PROVE  Few(n)'
  <2>1. /\ bound'[n] = 0 => o1 <= c1 * t1
        /\ bound'[n] # 0 => o1 + f1 <= c1 * (t1 + 1) - 1
    <3> HIDE DEF c, t, o1, f1, c1, t1
    <3> QED
      BY <1>2, <1>5, <1>7
  <2> QED
    BY <2>1 DEF Few
<1>8. ASSUME NEW p \in Founders(n), Founders(n)' \subseteq Founders(n) \ {p}
      PROVE  f1 <= f - 1
  <2>1. IsFiniteSet(Founders(n) \ {p}) /\ Cardinality(Founders(n) \ {p}) = f - 1
    BY <1>1, FS_RemoveElement
  <2> QED
    BY <1>8, <2>1, FS_Subset
<1>9. Orphans(n)' \subseteq Orphans(n) => o1 <= o
  BY <1>1, FS_Subset
<1>10. CASE Steady(n)
  <2>1. o1 <= o /\ (bound[n] = 0 \/ f1 <= f)
    BY <1>1, <1>9, <1>10, FS_Subset DEF Steady
  <2> HIDE DEF o, f, c, t, o1, f1, c1, t1
  <2> QED
    BY <1>1, <1>2, <1>3, <1>4, <1>5, <1>7, <1>10, <2>1 DEF Steady
<1>11. CASE GainsOne(n)
  <2>1. PICK p \in Proc : Founders(n)' \subseteq Founders(n) \cup {p}
    BY <1>11 DEF GainsOne
  <2>2. f1 <= f + 1
    <3>1. /\ IsFiniteSet(Founders(n) \cup {p})
          /\ Cardinality(Founders(n) \cup {p}) \in {f, f + 1}
      BY <1>1, FS_AddElement
    <3> QED
      BY <1>1, <1>2, <2>1, <3>1, FS_Subset
  <2>3. o1 <= o /\ bound'[n] = bound[n] /\ bound[n] # 0 /\ t1 = t + 1
    BY <1>9, <1>11 DEF GainsOne
  <2> HIDE DEF o, f, c, t, o1, f1, c1, t1
  <2> QED
    BY <1>1, <1>2, <1>3, <1>4, <1>5, <1>6, <1>7, <2>2, <2>3
<1>12. CASE LosesOne(n)
  <2>1. PICK p \in Founders(n), k \in Nat :
          /\ Founders(n)' \subseteq Founders(n) \ {p}
          /\ Orphans(n)' \subseteq Orphans(n) \cup {k}
    BY <1>12 DEF LosesOne
  <2>2. f1 <= f - 1
    BY <1>8, <2>1
  <2>3. o1 <= o + 1
    <3>1. IsFiniteSet(Orphans(n) \cup {k}) /\ Cardinality(Orphans(n) \cup {k}) \in {o, o + 1}
      BY <1>1, FS_AddElement
    <3> QED
      BY <1>1, <1>2, <2>1, <3>1, FS_Subset
  <2>4. bound'[n] = bound[n] /\ (bound[n] # 0 \/ t1 = t + 1)
    BY <1>12 DEF LosesOne
  <2> HIDE DEF o, f, c, t, o1, f1, c1, t1
  <2> QED
    BY <1>1, <1>2, <1>3, <1>4, <1>5, <1>6, <1>7, <2>2, <2>3, <2>4
<1>13. CASE GetsBound(n)
  <2>1. f1 <= f - 1 /\ o1 <= o
    BY <1>8, <1>9, <1>13 DEF GetsBound
  <2>2. bound[n] = 0 /\ bound'[n] # 0
    BY <1>13 DEF GetsBound
  <2> HIDE DEF o, f, c, t, o1, f1, c1, t1
  <2> QED
    BY <1>1, <1>2, <1>3, <1>4, <1>5, <1>7, <2>1, <2>2
<1>14. CASE LosesAll(n)
  <2> DEFINE gone == {sid[p] : p \in Founders(n)}
             g == [p \in Founders(n) |-> sid[p]]
  <2>1. g \in Surjection(Founders(n), gone)
    BY DEF Surjection
  <2>2. IsFiniteSet(gone) /\ Cardinality(gone) <= f
    <3> HIDE DEF g, gone
    <3> QED
      BY <1>1, <2>1, FS_Surjection
  <2>3. Cardinality(gone) \in Nat
    BY <2>2, FS_CardinalityType
  <2>4. o1 <= o + f
    <3> DEFINE all == Orphans(n) \cup gone
    <3>1. Cardinality(Orphans(n) \cap gone) \in Nat
      BY <1>1, FS_Intersection, FS_CardinalityType
    <3>2. IsFiniteSet(all) /\ Cardinality(all) = o + Cardinality(gone) - Cardinality(Orphans(n) \cap gone)
      BY <1>1, <2>2, FS_Union
    <3>3. Orphans(n)' \subseteq all
      BY <1>14 DEF LosesAll
    <3>4. o1 <= Cardinality(all)
      <4> HIDE DEF all
      <4> QED
        BY <3>2, <3>3, FS_Subset
    <3> HIDE DEF all, o, f, o1
    <3> QED
      BY <1>1, <1>2, <2>2, <2>3, <3>1, <3>2, <3>4
  <2>5. f1 = 0
    BY <1>14, FS_EmptySet DEF LosesAll
  <2>6. bound'[n] = bound[n] /\ t1 = t + 1
    BY <1>14 DEF LosesAll
  <2> HIDE DEF o, f, c, t, o1, f1, c1, t1
  <2> QED
    BY <1>1, <1>2, <1>3, <1>4, <1>5, <1>6, <1>7, <2>4, <2>5, <2>6
<1> QED
  BY <1>10, <1>12, <1>13, <1>14, <1>11

LEMMA OthersSteady ==
    ASSUME Full, Full', NEW p \in Proc, Acts(p), NEW n \in Name, n # p[1]
    PROVE  Steady(n) /\ Share(n)' >= Share(n)
<1> USE ProcNames
<1>1. /\ Others(p)
      /\ \/ Calm(p) \/ Begins(p) \/ Misleads(p) \/ Creates(p) \/ CreateFails(p)
         \/ Binds(p) \/ Orphaned(p)
  BY ActCases
<1>2. /\ made \in [Name -> Nat] /\ bound \in [Name -> Nat]
      /\ Share(n) \in Nat
  BY CountedFull DEF Counted, Full, Inv, Typing
<1>3. made'[n] = made[n] /\ bound'[n] = bound[n] /\ (n \in raced' <=> n \in raced)
  BY <1>1, <1>2 DEF Calm, Begins, Misleads, Creates, CreateFails, Binding, Binds, Orphaned
<1>4. \A q \in Proc : q[1] = n => step'[q] = step[q] /\ sid'[q] = sid[q]
  BY <1>1 DEF Others
<1>5. Orphans(n)' \subseteq Orphans(n) /\ Founders(n)' \subseteq Founders(n)
  BY <1>3, <1>4 DEF Orphans, Founders, Founding, Proc, Sess, Main
<1>6. Share(n)' = Share(n)
  BY <1>3 DEF Share
<1> QED
  BY <1>2, <1>3, <1>5, <1>6 DEF Steady

LEMMA OwnCount ==
    ASSUME Full, Full', NEW p \in Proc, Acts(p), NEW n \in Name, n = p[1]
    PROVE  /\ Steady(n) \/ GainsOne(n) \/ LosesOne(n) \/ GetsBound(n)
           /\ Share(n)' >= Share(n)
<1> USE ProcNames
<1>1. /\ Others(p)
      /\ \/ Calm(p) \/ Begins(p) \/ Misleads(p) \/ Creates(p) \/ CreateFails(p)
         \/ Binds(p) \/ Orphaned(p)
  BY ActCases
<1>2. /\ made \in [Name -> Nat] /\ bound \in [Name -> Nat] /\ sid \in [Proc -> Nat]
      /\ Share(n) \in Nat /\ Share(n) >= 1
      /\ n \in raced => n \in Dtu
      /\ sid[p] <= made[n]
  BY CountedFull, SidType DEF Counted, Full, TypeOK, Inv, Typing, Family, Name
<1>3. ASSUME raced' = raced PROVE Share(n)' >= Share(n)
  BY <1>2, <1>3 DEF Share
<1>4. \A q \in Proc \ {p} : step'[q] = step[q] /\ sid'[q] = sid[q]
  BY <1>1 DEF Others
<1>5. Proc' = Proc
  BY DEF Proc, Sess, Main
<1>6. CASE Calm(p)
  <2>1. Orphans(n)' \subseteq Orphans(n)
    BY <1>4, <1>5, <1>6 DEF Calm, Orphans
  <2>2. Founders(n)' \subseteq Founders(n)
    BY <1>4, <1>5, <1>6 DEF Calm, Founders, Founding
  <2> QED
    BY <1>3, <1>6, <2>1, <2>2 DEF Calm, Steady
<1>7. CASE Begins(p)
  <2>1. Orphans(n)' \subseteq Orphans(n)
    BY <1>4, <1>5, <1>7 DEF Begins, Orphans
  <2>2. Share(n)' >= Share(n)
    <3>1. n \in raced => n \in raced'
      BY <1>7 DEF Begins
    <3>2. n \in raced' => n \in Dtu
      BY DEF Full, Inv, Family, Name
    <3> QED
      BY <1>2, <3>1, <3>2, OnboardingAssumption DEF Share
  <2> QED
    BY <1>7, <2>1, <2>2 DEF Begins, Steady
<1>8. CASE Misleads(p)
  <2>1. Orphans(n)' \subseteq Orphans(n)
    BY <1>4, <1>5, <1>8 DEF Misleads, Orphans
  <2>2. Founders(n)' \subseteq Founders(n) \cup {p}
    BY <1>4, <1>5 DEF Founders, Founding
  <2> QED
    BY <1>3, <1>8, <2>1, <2>2 DEF Misleads, Trouble, GainsOne
<1>9. CASE Creates(p)
  <2>1. made'[n] = made[n] + 1 /\ made[n] \in Nat
    BY <1>2, <1>9 DEF Creates
  <2>2. Orphans(n)' \subseteq Orphans(n)
    <3>1. ASSUME NEW k \in Orphans(n)' PROVE k \in Orphans(n)
      <4>1. k \in 1..made[n] + 1 /\ k # bound[n]
        BY <1>9, <2>1 DEF Orphans, Creates
      <4>2. k # made[n] + 1
        BY <1>5, <1>9 DEF Orphans, Creates
      <4>3. k \in 1..made[n]
        BY <2>1, <4>1, <4>2
      <4>4. \A q \in Proc : q[1] = n => ~(step[q] = "bind" /\ sid[q] = k)
        BY <1>4, <1>5, <1>9 DEF Orphans, Creates
      <4> QED
        BY <4>1, <4>3, <4>4 DEF Orphans
    <3> QED
      BY <3>1
  <2>3. Founders(n)' \subseteq Founders(n)
    BY <1>4, <1>5, <1>9 DEF Creates, Founders, Founding
  <2> QED
    BY <1>3, <1>9, <2>2, <2>3 DEF Creates, Steady
<1>10. ASSUME ~Founding(p)' PROVE Founders(n)' \subseteq Founders(n) \ {p}
  BY <1>4, <1>5, <1>10 DEF Founders, Founding
<1>11. CASE CreateFails(p)
  <2>1. p \in Founders(n) /\ Founders(n)' \subseteq Founders(n) \ {p}
    BY <1>10, <1>11 DEF CreateFails, Founders, Founding
  <2>2. made[n] \in Nat /\ made'[n] \in {made[n], made[n] + 1}
    BY <1>2, <1>11 DEF CreateFails
  <2>3. Orphans(n)' \subseteq Orphans(n) \cup {made[n] + 1}
    <3>1. ASSUME NEW k \in Orphans(n)', k # made[n] + 1 PROVE k \in Orphans(n)
      <4>1. k \in 1..made[n] /\ k # bound[n]
        BY <2>2, <1>11, <3>1 DEF Orphans, CreateFails
      <4>2. \A q \in Proc : q[1] = n => ~(step[q] = "bind" /\ sid[q] = k)
        BY <1>4, <1>5, <1>11 DEF Orphans, CreateFails
      <4> QED
        BY <4>1, <4>2 DEF Orphans
    <3> QED
      BY <3>1
  <2>4. bound'[n] = bound[n] /\ troubles' = troubles + 1 /\ raced' = raced
    BY <1>11 DEF CreateFails, Trouble
  <2>5. made[n] + 1 \in Nat
    BY <2>2
  <2> QED
    BY <1>3, <2>1, <2>3, <2>4, <2>5 DEF LosesOne
<1>12. CASE Binds(p) \/ Orphaned(p)
  <2>1. Binding(p)
    BY <1>12 DEF Binds, Orphaned
  <2>2. p \in Founders(n) /\ Founders(n)' \subseteq Founders(n) \ {p} /\ raced' = raced
    BY <1>10, <2>1 DEF Binding, Founders, Founding
  <2>3. sid[p] \in Nat /\ sid[p] # 0
    BY <1>2, <2>1 DEF Binding, Full, Inv, Created
  <2>4. ASSUME NEW k \in Orphans(n)', k # sid[p], bound[n] \in {0, bound'[n]}
        PROVE  k \in Orphans(n)
    <3>1. made' = made /\ made[n] \in Nat
      BY <1>2, <2>1 DEF Binding
    <3>2. k \in 1..made[n] /\ k # bound[n]
      BY <2>4, <3>1 DEF Orphans
    <3>3. \A q \in Proc : q[1] = n => ~(step[q] = "bind" /\ sid[q] = k)
      BY <1>4, <1>5, <2>4 DEF Orphans
    <3> QED
      BY <3>2, <3>3 DEF Orphans
  <2>5. CASE Binds(p)
    <3>1. bound[n] = 0 /\ bound'[n] = sid[p]
      BY <1>2, <2>5 DEF Binds
    <3>2. sid[p] \notin Orphans(n)'
      BY <3>1 DEF Orphans
    <3> QED
      BY <1>3, <2>2, <2>3, <2>4, <3>1, <3>2 DEF GetsBound
  <2>6. CASE Orphaned(p)
    <3>1. bound'[n] = bound[n] /\ (bound[n] # 0 \/ troubles' = troubles + 1)
      BY <2>6 DEF Orphaned, Trouble
    <3>2. Orphans(n)' \subseteq Orphans(n) \cup {sid[p]}
      BY <2>4, <3>1
    <3> QED
      BY <1>3, <2>2, <2>3, <3>1, <3>2 DEF LosesOne
  <2> QED
    BY <1>12, <2>5, <2>6
<1> QED
  BY <1>1, <1>6, <1>7, <1>9, <1>11, <1>12, <1>8

LEMMA CrashCount ==
    ASSUME Full, Crash, NEW n \in Name
    PROVE  LosesAll(n) /\ Share(n)' >= Share(n) /\ troubles' >= troubles
<1>1. /\ step' = [p \in Proc |-> "none"]
      /\ UNCHANGED <<made, bound, raced>> /\ Trouble
  BY DEF Crash, platVars, histVars
<1>2. Founders(n)' = {}
  BY <1>1 DEF Founders, Founding
<1>3. Orphans(n)' \subseteq Orphans(n) \cup {sid[p] : p \in Founders(n)}
  BY <1>1 DEF Orphans, Founders, Founding
<1>4. Share(n) \in Nat /\ Share(n)' = Share(n)
  BY <1>1, CountedFull DEF Counted, Share
<1>5. troubles' = troubles + 1 /\ troubles' >= troubles
  BY <1>1, Troubled DEF Trouble, Full
<1> QED
  BY <1>1, <1>2, <1>3, <1>4, <1>5 DEF LosesAll

LEMMA FewStep == FewInv /\ [Next]_vars => FewInv'
<1> SUFFICES ASSUME FewInv, [Next]_vars PROVE FewInv'
  OBVIOUS
<1>1. Full /\ Full'
  BY FullStep DEF FewInv
<1>2. ASSUME NEW n \in Name PROVE Few(n)'
  <2>1. Few(n)
    BY DEF FewInv
  <2>2. CASE UNCHANGED vars \/ AcceptFails
    <3>1. UNCHANGED <<step, sid, platVars, troubles, histVars>>
      BY <2>2 DEF vars, AcceptFails
    <3> QED
      BY <2>1, <3>1 DEF platVars, histVars, Few, Orphans, Founders, Founding, Share
  <2>3. CASE Crash
    BY <1>1, <2>1, <2>3, CrashCount, FewKept
  <2>4. ASSUME NEW p \in Proc, Acts(p) PROVE Few(n)'
    <3>1. troubles' >= troubles
      BY <1>1, <2>4, ActCases DEF Others
    <3>2. /\ Steady(n) \/ GainsOne(n) \/ LosesOne(n) \/ GetsBound(n)
          /\ Share(n)' >= Share(n)
      BY <1>1, <2>4, OthersSteady, OwnCount
    <3> QED
      BY <1>1, <2>1, <3>1, <3>2, FewKept
  <2> QED
    BY <2>2, <2>3, <2>4, WhoActs
<1>3. Name' = Name
  BY DEF Name
<1> QED
  BY <1>1, <1>2, <1>3 DEF FewInv

LEMMA FewInit == Init => FewInv
<1> SUFFICES ASSUME Init, NEW n \in Name PROVE Few(n)
  BY FullInit DEF FewInv
<1>1. Orphans(n) = {} /\ bound[n] = 0 /\ troubles = 0
  BY DEF Init, Orphans
<1>2. Share(n) \in Nat
  BY FullInit, CountedFull DEF Counted
<1>3. Cardinality(Orphans(n)) = 0 /\ Share(n) * troubles = 0
  BY <1>1, <1>2, FS_EmptySet
<1> QED
  BY <1>1, <1>3 DEF Few

LEMMA FewImplies == FewInv => OrphansFew
<1> SUFFICES ASSUME FewInv, NEW n \in Name
             PROVE  Cardinality(Orphans(n)) <=
                      IF n \in raced THEN Conns[n] * (troubles + 1) - 1 ELSE troubles
  BY DEF OrphansFew
<1> DEFINE o == Cardinality(Orphans(n))
           f == Cardinality(Founders(n))
           c == Share(n)
           t == troubles
<1>1. o \in Nat /\ f \in Nat /\ c \in Nat /\ c >= 1 /\ t \in Nat
  BY CountedFull DEF Counted, FewInv, Full, TypeOK
<1>2. /\ bound[n] = 0 => o <= c * t
      /\ bound[n] # 0 => o + f <= c * (t + 1) - 1
  BY DEF FewInv, Few
<1>3. c * t \in Nat /\ c * (t + 1) = c * t + c
  <2> HIDE DEF c, t
  <2> QED
    BY <1>1, Products
<1>4. o <= c * (t + 1) - 1
  <2> HIDE DEF o, f, c, t
  <2> QED
    BY <1>1, <1>2, <1>3
<1>5. c = IF n \in raced THEN Conns[n] ELSE 1
  BY DEF Share
<1>6. CASE n \in raced
  BY <1>4, <1>5, <1>6
<1>7. CASE n \notin raced
  <2>1. c = 1
    BY <1>5, <1>7
  <2>2. o <= t
    <3> HIDE DEF o, f, c, t
    <3> QED
      BY <1>1, <1>4, <2>1
  <2> QED
    BY <1>7, <2>2
<1> QED
  BY <1>6, <1>7

(* What Integrate and getDevInfo create without binding it stays bounded: at *)
(* most one object is left behind for each request that failed and each end  *)
(* of the process; for a DTU that has raced with itself at most one for each *)
(* of its connections, for each of these and once more, less the winner.     *)
THEOREM LeftBehind == Spec => []OrphansFew
  BY FewInit, FewStep, FewImplies, PTL DEF Spec
=============================================================================
