--------------------------- MODULE LoadingProofs ----------------------------
(***************************************************************************)
(* Proofs about Loading for any sessions, interfaces, classes and sizes of *)
(* the queue.                                                              *)
(***************************************************************************)
EXTENDS Loading, FiniteSetTheorems, SequenceTheorems, TLAPS

-----------------------------------------------------------------------------
(* Sessions and interfaces.                                                *)

LEMMA SesSteps ==
  ASSUME SesTypeOK, Subscriptions,
         \/ \E s \in Session : Connect(s) \/ DeleteSes(s)
         \/ \E s \in Session, c \in Cemei : CarefulSubscribe(s, c)
         \/ UNCHANGED sesVars
  PROVE  SesTypeOK' /\ Subscriptions'
<1> USE NullAssumption DEF NullAssumption, SesTypeOK, Subscriptions
<1>1. ASSUME NEW s \in Session, Connect(s) PROVE SesTypeOK' /\ Subscriptions'
  BY <1>1 DEF Connect
<1>2. ASSUME NEW s \in Session, DeleteSes(s) PROVE SesTypeOK' /\ Subscriptions'
  <2>1. /\ allses' = allses \ {s}
        /\ \A t \in Session : ccmei'[t] = IF t = s THEN NULL ELSE ccmei[t]
        /\ \A c \in Cemei : cem'[c] = IF c = ccmei[s] THEN NULL ELSE cem[c]
    BY <1>2 DEF DeleteSes
  <2>2. SesTypeOK'
    BY <1>2 DEF DeleteSes
  <2>3. ASSUME NEW c \in Cemei, cem'[c] # NULL PROVE cem'[c] \in allses' /\ ccmei'[cem'[c]] = c
    BY <2>1, <2>3
  <2>4. ASSUME NEW t \in Session, ccmei'[t] # NULL PROVE cem'[ccmei'[t]] = t
    <3>1. t # s /\ ccmei'[t] = ccmei[t] /\ ccmei[t] \in Cemei /\ cem[ccmei[t]] = t
      BY <2>1, <2>4
    <3>2. ccmei[t] # ccmei[s]
      BY <3>1
    <3> QED
      BY <2>1, <3>1, <3>2
  <2> QED
    BY <2>2, <2>3, <2>4
<1>3. ASSUME NEW s \in Session, NEW c \in Cemei, CarefulSubscribe(s, c)
      PROVE  SesTypeOK' /\ Subscriptions'
  <2> USE <1>3 DEF CarefulSubscribe, Subscribe, Subscribed
  <2>1. SesTypeOK'
    OBVIOUS
  <2>2. /\ allses' = allses /\ s \in allses
        /\ \A t \in Session : ccmei'[t] = IF t = s THEN c
                              ELSE IF t = cem[c] /\ t \in allses THEN NULL ELSE ccmei[t]
        /\ \A e \in Cemei : cem'[e] = IF e = c THEN s ELSE cem[e]
    OBVIOUS
  <2>3. \A e \in Cemei : cem[e] = s => e = c
    OBVIOUS
  <2>4. ASSUME NEW e \in Cemei, cem'[e] # NULL PROVE cem'[e] \in allses' /\ ccmei'[cem'[e]] = e
    BY <2>2, <2>3, <2>4
  <2>5. ASSUME NEW t \in Session, ccmei'[t] # NULL PROVE cem'[ccmei'[t]] = t
    BY <2>2, <2>5
  <2> QED
    BY <2>1, <2>4, <2>5
<1>4. CASE UNCHANGED sesVars
  BY <1>4 DEF sesVars
<1> QED
  BY <1>1, <1>2, <1>3, <1>4

-----------------------------------------------------------------------------
(* Lengthening and shortening the queue.                                   *)

LEMMA Appended ==
  ASSUME NEW q \in Seq(Command), NEW c \in Command
  PROVE  /\ Append(q, c) \in Seq(Command) /\ Len(Append(q, c)) = Len(q) + 1
         /\ \A n \in 1 .. Len(q) : Append(q, c)[n] = q[n]
         /\ Append(q, c)[Len(q) + 1] = c
BY AppendProperties

LEMMA Shortened ==
  ASSUME NEW q \in Seq(Command), q # << >>
  PROVE  /\ Tail(q) \in Seq(Command) /\ Len(Tail(q)) = Len(q) - 1
         /\ \A n \in 1 .. Len(q) - 1 : Tail(q)[n] = q[n + 1]
         /\ Head(q) = q[1] /\ Head(q) \in Command /\ Len(q) \in Nat \ {0}
<1>1. Len(q) \in Nat \ {0} /\ \A n \in 1 .. Len(q) : q[n] \in Command
  BY EmptySeq, ElementOfSeq, LenProperties
<1> QED
  BY <1>1, HeadTailProperties

(* What commands are made of.                                              *)
LEMMA Commands ==
  /\ Empty \in Command /\ Test \in Command
  /\ \A s \in Session, k \in Key, i \in Id : LoadObject(s, k, i) \in Command
  /\ \A i \in Id : DiskLoad(i) \in Command
  /\ \A c \in Command : c.cmd = "LOADOBJECT" =>
        c.ses \in Session /\ c.key \in Key /\ c.obj \in Id
<1>1. Empty \in Command /\ Test \in Command
  BY DEF Command
<1>2. \A s \in Session, k \in Key, i \in Id : LoadObject(s, k, i) \in Command
  BY DEF Command
<1>3. \A i \in Id : DiskLoad(i) \in Command
  BY DEF Command
<1>4. ASSUME NEW c \in Command, c.cmd = "LOADOBJECT"
      PROVE  c.ses \in Session /\ c.key \in Key /\ c.obj \in Id
  <2>1. c # Empty /\ c # Test /\ \A i \in Id : c # DiskLoad(i)
    BY <1>4 DEF Empty, Test, DiskLoad
  <2>2. PICK s \in Session, k \in Key, i \in Id : c = LoadObject(s, k, i)
    BY <2>1 DEF Command
  <2> QED
    BY <2>2 DEF LoadObject
<1> QED
  BY <1>1, <1>2, <1>3, <1>4

-----------------------------------------------------------------------------
(* Something is sent or received only for a command in the queue.          *)
NothingUnasked == wire # << >> => cmdq # << >>

QueueType == cmdq \in Seq(Command) /\ Len(cmdq) <= QueueLimit
AnswerType == [ses : Session, key : Key, id : Id \cup {0},
               result : {"SUCCESS", "FAIL", "NOTFOUND", "BUSY", "LOADED"}]

LEMMA RequestTypes ==
  ASSUME TypeOK, NEW s \in Session, NEW k \in Key, LoadObj(s, k)
  PROVE  /\ QueueType' /\ (cmdq # << >> => cmdq' # << >>)
         /\ object' \in [Id -> Key \cup {"PRELOAD", NULL}]
         /\ maxsid' \in 0 .. MaxObject
         /\ answer' \in {NULL} \cup AnswerType
         /\ asked' \subseteq Session \X Key
<1> USE ObjectAssumption, QueueAssumption DEF QueueType
<1>1. cmdq \in Seq(Command) /\ Len(cmdq) \in Nat /\ (HasRoom(cmdq) => Len(cmdq) + 1 <= QueueLimit)
  BY DEF TypeOK, HasRoom
<1>2. ASSUME NEW c \in Command, HasRoom(cmdq), cmdq' = Append(cmdq, c)
      PROVE  QueueType' /\ cmdq' # << >>
  BY <1>1, <1>2, Appended, EmptySeq
<1>3. \A r \in {"FAIL", "BUSY", "LOADED"} : Answer(s, k, r, 0) \in AnswerType
  BY DEF Answer, AnswerType
<1>4. ASSUME NEW r \in {"FAIL", "BUSY", "LOADED"}, Refuse(s, k, r)
      PROVE  /\ object' \in [Id -> Key \cup {"PRELOAD", NULL}]
             /\ maxsid' \in 0 .. MaxObject
             /\ answer' \in {NULL} \cup AnswerType
             /\ asked' \subseteq Session \X Key
  BY <1>3, <1>4 DEF Refuse, TypeOK
<1>5. CASE ~Found /\ Refuse(s, k, "FAIL") /\ UNCHANGED cmdq
  BY <1>4, <1>5 DEF TypeOK
<1>6. CASE Found /\ ~HasRoom(cmdq) /\ Refuse(s, k, "BUSY") /\ UNCHANGED cmdq
  BY <1>4, <1>6 DEF TypeOK
<1>7. CASE HasRoom(cmdq) /\ Refuse(s, k, "LOADED") /\ cmdq' = Append(cmdq, Empty)
  BY <1>2, <1>4, <1>7, Commands
<1>8. CASE /\ HasRoom(cmdq) /\ maxsid < MaxObject
           /\ maxsid' = maxsid + 1
           /\ object' = [object EXCEPT ![maxsid'] = "PRELOAD"]
           /\ cmdq' = Append(cmdq, LoadObject(s, k, maxsid'))
           /\ asked' = asked \cup {<<s, k>>}
           /\ answer' = NULL
  <2>1. maxsid' \in 0 .. MaxObject /\ maxsid' \in Id
    BY <1>8 DEF TypeOK, Id
  <2>2. QueueType' /\ cmdq' # << >>
    BY <1>2, <1>8, <2>1, Commands
  <2>3. object' \in [Id -> Key \cup {"PRELOAD", NULL}]
    BY <1>8 DEF TypeOK
  <2>4. asked' \subseteq Session \X Key
    BY <1>8 DEF TypeOK
  <2> QED
    BY <1>8, <2>1, <2>2, <2>3, <2>4
<1> QED
  BY <1>5, <1>6, <1>7, <1>8 DEF LoadObj

LEMMA TestTypes ==
  ASSUME TypeOK, Tests
  PROVE  QueueType' /\ (cmdq # << >> => cmdq' # << >>)
<1> USE QueueAssumption DEF QueueType
<1>1. cmdq \in Seq(Command) /\ Len(cmdq) \in Nat /\ Test \in Command
  BY Commands DEF TypeOK
<1> DEFINE q == Append(cmdq, Test)
<1>2. q \in Seq(Command) /\ Len(q) = Len(cmdq) + 1 /\ Len(q) <= QueueLimit
  BY <1>1, Appended DEF Tests, HasRoom
<1>3. Append(q, Test) \in Seq(Command) /\ Len(Append(q, Test)) = Len(q) + 1
  BY <1>1, <1>2, Appended
<1>4. cmdq \o <<Test, Test>> = Append(q, Test)
  BY <1>1
<1>5. cmdq' = q \/ (cmdq' = Append(q, Test) /\ HasRoom(q))
  BY <1>4 DEF Tests
<1> QED
  BY <1>1, <1>2, <1>3, <1>5, EmptySeq DEF HasRoom

LEMMA ReplyTypes ==
  ASSUME TypeOK, NothingUnasked, Recv
  PROVE  /\ QueueType' /\ NothingUnasked'
         /\ wire' \in {<< >>, <<"sent">>} \cup ({"reply"} \X BOOLEAN)
         /\ object' \in [Id -> Key \cup {"PRELOAD", NULL}]
         /\ answer' \in {NULL} \cup AnswerType
         /\ asked' \subseteq Session \X Key
<1> USE ObjectAssumption, QueueAssumption DEF QueueType
<1> DEFINE c == Head(cmdq)
<1>1. wire' = << >> /\ cmdq # << >> /\ cmdq \in Seq(Command) /\ Len(cmdq) <= QueueLimit
  BY DEF Recv, NothingUnasked, TypeOK
<1>2. /\ Tail(cmdq) \in Seq(Command) /\ Len(Tail(cmdq)) = Len(cmdq) - 1
      /\ c \in Command /\ Len(cmdq) \in Nat
  BY <1>1, Shortened
<1>3. CASE RecvOther
  <2>1. cmdq' = Tail(cmdq) /\ answer' = NULL /\ UNCHANGED <<object, asked>>
    BY <1>3 DEF RecvOther
  <2> QED
    BY <1>1, <1>2, <2>1 DEF TypeOK, NothingUnasked
<1>4. CASE RecvObject
  <2>1. c.ses \in Session /\ c.key \in Key /\ c.obj \in Id
    BY <1>2, <1>4, Commands DEF RecvObject
  <2>2. ASSUME NEW r \in {"NOTFOUND", "SUCCESS"}, NEW i \in Id \cup {0}, AsyncEnd(r, i)
        PROVE  answer' \in {NULL} \cup AnswerType /\ asked' \subseteq Session \X Key
    <3>1. answer' = NULL \/ answer' = Answer(c.ses, c.key, r, i)
      BY <2>2 DEF AsyncEnd
    <3>2. Answer(c.ses, c.key, r, i) \in AnswerType
      BY <2>1 DEF Answer, AnswerType
    <3>3. asked' \subseteq asked
      BY <2>2 DEF AsyncEnd
    <3> QED
      BY <3>1, <3>2, <3>3 DEF TypeOK
  <2>3. AfterLoad(c) \in Seq(Command) /\ Len(AfterLoad(c)) <= QueueLimit
    <3>1. DiskLoad(c.obj) \in Command
      BY <2>1, Commands
    <3>2. /\ Append(Tail(cmdq), DiskLoad(c.obj)) \in Seq(Command)
          /\ Len(Append(Tail(cmdq), DiskLoad(c.obj))) = Len(Tail(cmdq)) + 1
      BY <1>2, <3>1, Appended
    <3> QED
      BY <1>1, <1>2, <3>2 DEF AfterLoad
  <2>4. CASE /\ AsyncEnd("NOTFOUND", 0)
             /\ object' = [object EXCEPT ![c.obj] = NULL]
             /\ cmdq' = Tail(cmdq)
    <3>1. object' \in [Id -> Key \cup {"PRELOAD", NULL}]
      BY <2>4 DEF TypeOK
    <3> QED
      BY <1>1, <1>2, <2>2, <2>4, <3>1 DEF NothingUnasked
  <2>5. CASE /\ AsyncEnd("SUCCESS", c.obj)
             /\ object' = [object EXCEPT ![c.obj] = c.key]
             /\ cmdq' = AfterLoad(c)
    <3>1. object' \in [Id -> Key \cup {"PRELOAD", NULL}]
      BY <2>1, <2>5 DEF TypeOK
    <3>2. answer' \in {NULL} \cup AnswerType /\ asked' \subseteq Session \X Key
      BY <2>1, <2>2, <2>5
    <3> QED
      BY <1>1, <2>3, <2>5, <3>1, <3>2 DEF NothingUnasked
  <2> QED
    BY <1>4, <2>4, <2>5 DEF RecvObject
<1> QED
  BY <1>3, <1>4 DEF Recv

IInv == TypeOK /\ Subscriptions /\ NothingUnasked

LEMMA InitIInv == Init => IInv
<1> SUFFICES ASSUME Init PROVE IInv
  OBVIOUS
<1> USE NullAssumption, QueueAssumption, ObjectAssumption DEF NullAssumption, Init, SesInit
<1>1. SesTypeOK /\ Subscriptions
  BY DEF SesTypeOK, Subscriptions
<1>2. cmdq \in Seq(Command) /\ Len(cmdq) = 0
  BY EmptySeq
<1>3. object \in [Id -> Key \cup {"PRELOAD", NULL}] /\ maxsid \in 0 .. MaxObject
  OBVIOUS
<1> QED
  BY <1>1, <1>2, <1>3 DEF IInv, TypeOK, NothingUnasked

LEMMA NextIInv == IInv /\ [Next]_vars => IInv'
<1> SUFFICES ASSUME IInv, [Next]_vars PROVE IInv'
  OBVIOUS
<1>1. TypeOK /\ Subscriptions /\ NothingUnasked /\ SesTypeOK
  BY DEF IInv, TypeOK
<1>2. SesTypeOK' /\ Subscriptions'
  <2>1. CASE UNCHANGED sesVars
    BY <1>1, <2>1, SesSteps
  <2>2. CASE Clients
    <3>1. \/ \E s \in Session : Connect(s) \/ DeleteSes(s)
          \/ \E s \in Session, c \in Cemei : CarefulSubscribe(s, c)
      BY <2>2 DEF Clients
    <3> QED
      BY <1>1, <3>1, SesSteps
  <2> QED
    BY <2>1, <2>2 DEF Next, Requests, Link, vars
<1>3. CASE Clients
  BY <1>1, <1>2, <1>3 DEF Clients, IInv, TypeOK, NothingUnasked
<1>4. CASE Requests
  <2>1. CASE Tests
    BY <1>1, <1>2, <1>4, <2>1, TestTypes
       DEF Requests, Tests, IInv, TypeOK, NothingUnasked, QueueType
  <2>2. ASSUME NEW s \in Session, NEW k \in Key, LoadObj(s, k) PROVE IInv'
    BY <1>1, <1>2, <1>4, <2>2, RequestTypes
       DEF Requests, IInv, TypeOK, NothingUnasked, QueueType, AnswerType
  <2> QED
    BY <1>4, <2>1, <2>2 DEF Requests
<1>5. CASE Link
  <2>1. CASE Background(STick)
    <3>1. CASE cmdq' = Tail(cmdq) /\ wire = << >> /\ UNCHANGED wire
      <4>1. cmdq' \in Seq(Command) /\ Len(cmdq') <= QueueLimit
        BY <1>1, <2>1, <3>1, Shortened, QueueAssumption DEF Background, STick, TypeOK
      <4> QED
        BY <1>1, <1>2, <1>5, <2>1, <3>1, <4>1
           DEF Link, Background, IInv, TypeOK, NothingUnasked
    <3>2. CASE wire' = <<"sent">> /\ UNCHANGED cmdq
      BY <1>1, <1>2, <1>5, <2>1, <3>2
         DEF Link, Background, STick, IInv, TypeOK, NothingUnasked
    <3> QED
      BY <2>1, <3>1, <3>2 DEF Background, STick
  <2>2. CASE Background(Serve)
    <3>1. wire = <<"sent">> /\ wire' = <<"reply", Head(cmdq).key \in Stored>> /\ UNCHANGED cmdq
      BY <2>2 DEF Background, Serve
    <3>2. (Head(cmdq).key \in Stored) \in BOOLEAN
      OBVIOUS
    <3>3. wire' \in {"reply"} \X BOOLEAN
      BY <3>1, <3>2
    <3>4. cmdq # << >>
      BY <1>1, <3>1 DEF NothingUnasked
    <3> QED
      BY <1>1, <1>2, <1>5, <2>2, <3>1, <3>3, <3>4
         DEF Link, Background, IInv, TypeOK, NothingUnasked
  <2>3. CASE Recv
    <3>1. UNCHANGED <<maxsid, redis>>
      BY <1>5, <2>3 DEF Link, Recv
    <3> QED
      BY <1>1, <1>2, <2>3, <3>1, ReplyTypes DEF IInv, TypeOK, QueueType, AnswerType
  <2> QED
    BY <1>5, <2>1, <2>2, <2>3 DEF Link
<1>6. CASE Disconnect
  <2>1. cmdq' \in Seq(Command) /\ Len(cmdq') <= QueueLimit
    BY <1>6, EmptySeq, QueueAssumption DEF Disconnect
  <2>2. wire' = << >> /\ asked' = {} /\ answer' = NULL /\ redis' = FALSE
    BY <1>6 DEF Disconnect
  <2>3. UNCHANGED <<object, maxsid>>
    BY <1>6 DEF Disconnect
  <2> QED
    BY <1>1, <1>2, <2>1, <2>2, <2>3 DEF IInv, TypeOK, NothingUnasked
<1>7. CASE UNCHANGED vars
  BY <1>1, <1>2, <1>7 DEF vars, loadVars, IInv, TypeOK, NothingUnasked
<1> QED
  BY <1>3, <1>4, <1>5, <1>6, <1>7 DEF Next

(* Every variable keeps to its type: the queue never holds more than its   *)
(* limit, and only a command in it is sent or answered.                    *)
THEOREM TypeCorrect == Spec => []TypeOK
<1>1. IInv => TypeOK
  BY DEF IInv
<1> QED
  BY InitIInv, NextIInv, <1>1, PTL DEF Spec

(* Sessions and interfaces point to each other, whatever sessions take     *)
(* from others and however they end.                                       *)
THEOREM Subscribers == Spec => []Subscriptions
<1>1. IInv => Subscriptions
  BY DEF IInv
<1> QED
  BY InitIInv, NextIInv, <1>1, PTL DEF Spec

-----------------------------------------------------------------------------
(* The queue and what is waited for.                                       *)

IsLoad(c) == c.cmd = "LOADOBJECT"
Asker(c) == <<c.ses, c.key>>

(* Each command to load is one that was asked for, and loads an object of  *)
(* its own; and each object being loaded has such a command.               *)
Awaited ==
    \A n \in 1 .. Len(cmdq) : IsLoad(cmdq[n]) =>
        Asker(cmdq[n]) \in asked /\ cmdq[n].obj \in 1 .. maxsid /\ object[cmdq[n].obj] = "PRELOAD"
Apart ==
    \A n, m \in 1 .. Len(cmdq) : IsLoad(cmdq[n]) /\ IsLoad(cmdq[m]) /\ n # m =>
        cmdq[n].obj # cmdq[m].obj /\ Asker(cmdq[n]) # Asker(cmdq[m])
Preloaded ==
    redis => \A i \in Id : object[i] = "PRELOAD" =>
        \E n \in 1 .. Len(cmdq) : IsLoad(cmdq[n]) /\ cmdq[n].obj = i

QInv == Awaited /\ Apart /\ Preloaded

(* The loads of a queue that has moved up are those that were behind its   *)
(* head, and those of one that was only added to are those it had.         *)
MovedUp ==
    /\ \A n \in 1 .. Len(cmdq') : IsLoad(cmdq'[n]) =>
            n + 1 \in 2 .. Len(cmdq) /\ cmdq'[n] = cmdq[n + 1]
    /\ \A n \in 2 .. Len(cmdq) : IsLoad(cmdq[n]) =>
            n - 1 \in 1 .. Len(cmdq') /\ cmdq'[n - 1] = cmdq[n]
AddedTo ==
    /\ \A n \in 1 .. Len(cmdq') : IsLoad(cmdq'[n]) =>
            n \in 1 .. Len(cmdq) /\ cmdq'[n] = cmdq[n]
    /\ \A n \in 1 .. Len(cmdq) : n \in 1 .. Len(cmdq') /\ cmdq'[n] = cmdq[n]

LEMMA TailMoves ==
  ASSUME cmdq \in Seq(Command), cmdq # << >>,
         \/ cmdq' = Tail(cmdq)
         \/ \E i \in Id : cmdq' = Append(Tail(cmdq), DiskLoad(i))
  PROVE  MovedUp
<1>1. /\ Tail(cmdq) \in Seq(Command) /\ Len(Tail(cmdq)) = Len(cmdq) - 1
      /\ \A n \in 1 .. Len(cmdq) - 1 : Tail(cmdq)[n] = cmdq[n + 1]
      /\ Len(cmdq) \in Nat \ {0}
  BY Shortened
<1>2. CASE cmdq' = Tail(cmdq)
  BY <1>1, <1>2 DEF MovedUp
<1>3. ASSUME NEW i \in Id, cmdq' = Append(Tail(cmdq), DiskLoad(i)) PROVE MovedUp
  <2> DEFINE q == Append(Tail(cmdq), DiskLoad(i))
  <2>1. /\ Len(q) = Len(cmdq)
        /\ \A n \in 1 .. Len(cmdq) - 1 : q[n] = cmdq[n + 1]
        /\ q[Len(cmdq)] = DiskLoad(i)
    BY <1>1, Appended, Commands
  <2>2. ~IsLoad(DiskLoad(i))
    BY DEF IsLoad, DiskLoad
  <2>3. cmdq' = q
    BY <1>3
  <2> HIDE DEF q
  <2>4. ASSUME NEW n \in 1 .. Len(cmdq'), IsLoad(cmdq'[n])
        PROVE  n + 1 \in 2 .. Len(cmdq) /\ cmdq'[n] = cmdq[n + 1]
    BY <1>1, <2>1, <2>2, <2>3, <2>4
  <2>5. ASSUME NEW n \in 2 .. Len(cmdq)
        PROVE  n - 1 \in 1 .. Len(cmdq') /\ cmdq'[n - 1] = cmdq[n]
    BY <1>1, <2>1, <2>3
  <2> QED
    BY <2>4, <2>5 DEF MovedUp
<1> QED
  BY <1>2, <1>3

LEMMA AppendAdds ==
  ASSUME cmdq \in Seq(Command), NEW c \in Command, ~IsLoad(c),
         \/ cmdq' = Append(cmdq, c)
         \/ cmdq' = Append(Append(cmdq, c), c)
  PROVE  AddedTo
<1> DEFINE q == Append(cmdq, c)
<1>1. /\ q \in Seq(Command) /\ Len(q) = Len(cmdq) + 1 /\ Len(cmdq) \in Nat
      /\ \A n \in 1 .. Len(cmdq) : q[n] = cmdq[n]
      /\ q[Len(cmdq) + 1] = c
  BY Appended
<1> HIDE DEF q
<1>2. /\ Len(Append(q, c)) = Len(q) + 1
      /\ \A n \in 1 .. Len(q) : Append(q, c)[n] = q[n]
      /\ Append(q, c)[Len(q) + 1] = c
  BY <1>1, Appended
<1>3. CASE cmdq' = q
  BY <1>1, <1>3 DEF AddedTo
<1>4. CASE cmdq' = Append(q, c)
  BY <1>1, <1>2, <1>4 DEF AddedTo
<1> QED
  BY <1>3, <1>4 DEF q

(* A head that was no load may be dropped, and anything else added.        *)
LEMMA QueueOther ==
  ASSUME TypeOK, QInv, UNCHANGED <<object, maxsid, asked, redis>>,
         AddedTo \/ (MovedUp /\ ~IsLoad(cmdq[1]))
  PROVE  QInv'
<1> USE DEF QInv
<1>1. Len(cmdq) \in Nat
  BY DEF TypeOK
<1>2. CASE AddedTo
  <2>1. Awaited'
    BY <1>2 DEF Awaited, AddedTo
  <2>2. Apart'
    BY <1>2 DEF Apart, AddedTo
  <2>3. Preloaded'
    BY <1>2 DEF Preloaded, AddedTo
  <2> QED
    BY <2>1, <2>2, <2>3
<1>3. CASE MovedUp /\ ~IsLoad(cmdq[1])
  <2>1. Awaited'
    BY <1>1, <1>3 DEF Awaited, MovedUp
  <2>2. Apart'
    BY <1>1, <1>3 DEF Apart, MovedUp
  <2>3. Preloaded'
    <3> SUFFICES ASSUME redis', NEW i \in Id, object'[i] = "PRELOAD"
                 PROVE  \E n \in 1 .. Len(cmdq') : IsLoad(cmdq'[n]) /\ cmdq'[n].obj = i
      BY DEF Preloaded
    <3>1. PICK n \in 1 .. Len(cmdq) : IsLoad(cmdq[n]) /\ cmdq[n].obj = i
      BY DEF Preloaded
    <3>2. n - 1 \in 1 .. Len(cmdq') /\ cmdq'[n - 1] = cmdq[n]
      BY <1>1, <1>3, <3>1 DEF MovedUp
    <3> QED
      BY <3>1, <3>2
  <2> QED
    BY <2>1, <2>2, <2>3
<1> QED
  BY <1>2, <1>3

(* A new load has an object of its own, and was not asked for before.      *)
LEMMA QueueRequest ==
  ASSUME TypeOK, QInv, UNCHANGED redis,
         NEW s \in Session, NEW k \in Key, LoadObj(s, k)
  PROVE  QInv'
<1>1. cmdq \in Seq(Command) /\ Len(cmdq) \in Nat /\ maxsid \in Nat
  BY ObjectAssumption DEF TypeOK
<1>2. CASE UNCHANGED <<cmdq, object, maxsid, asked>>
  BY <1>2 DEF QInv, Awaited, Apart, Preloaded
<1>3. CASE UNCHANGED <<object, maxsid, asked>> /\ cmdq' = Append(cmdq, Empty)
  <2>1. ~IsLoad(Empty)
    BY DEF IsLoad, Empty
  <2> QED
    BY <1>1, <1>3, <2>1, Commands, AppendAdds, QueueOther
<1>4. CASE /\ maxsid < MaxObject
           /\ maxsid' = maxsid + 1
           /\ object' = [object EXCEPT ![maxsid'] = "PRELOAD"]
           /\ cmdq' = Append(cmdq, LoadObject(s, k, maxsid'))
           /\ asked' = asked \cup {<<s, k>>}
  <2> DEFINE i == maxsid + 1
             c == LoadObject(s, k, i)
  <2>1. i \in Id /\ c \in Command
    BY <1>1, <1>4, Commands, ObjectAssumption DEF Id
  <2>2. IsLoad(c) /\ c.obj = i /\ Asker(c) = <<s, k>> /\ <<s, k>> \notin asked
    BY DEF IsLoad, LoadObject, Asker, LoadObj
  <2>3. /\ Len(cmdq') = Len(cmdq) + 1
        /\ \A n \in 1 .. Len(cmdq) : cmdq'[n] = cmdq[n]
        /\ cmdq'[Len(cmdq) + 1] = c
    BY <1>1, <1>4, <2>1, Appended
  <2>4. /\ \A j \in Id : object'[j] = IF j = i THEN "PRELOAD" ELSE object[j]
        /\ 1 .. maxsid \subseteq Id
    <3>1. object \in [Id -> Key \cup {"PRELOAD", NULL}] /\ object' = [object EXCEPT ![i] = "PRELOAD"]
      BY <1>4 DEF TypeOK
    <3>2. \A j \in Id : object'[j] = IF j = i THEN "PRELOAD" ELSE object[j]
      BY <3>1
    <3>3. 1 .. maxsid \subseteq Id
      BY <1>1, <1>4, ObjectAssumption DEF Id
    <3> QED
      BY <3>2, <3>3
  <2> HIDE DEF c
  <2>5. \A n \in 1 .. Len(cmdq') : n \in 1 .. Len(cmdq) \/ cmdq'[n] = c
    BY <1>1, <2>3
  <2>6. Awaited'
    <3> SUFFICES ASSUME NEW n \in 1 .. Len(cmdq'), IsLoad(cmdq'[n])
                 PROVE  /\ Asker(cmdq'[n]) \in asked' /\ cmdq'[n].obj \in 1 .. maxsid'
                        /\ object'[cmdq'[n].obj] = "PRELOAD"
      BY DEF Awaited
    <3>1. CASE cmdq'[n] = c
      BY <1>1, <1>4, <2>1, <2>2, <2>4, <3>1
    <3>2. CASE n \in 1 .. Len(cmdq)
      BY <1>1, <1>4, <2>3, <2>4, <3>2 DEF QInv, Awaited
    <3> QED
      BY <2>5, <3>1, <3>2
  <2>7. Apart'
    <3> SUFFICES ASSUME NEW n \in 1 .. Len(cmdq'), NEW m \in 1 .. Len(cmdq'),
                        IsLoad(cmdq'[n]), IsLoad(cmdq'[m]), n # m
                 PROVE  cmdq'[n].obj # cmdq'[m].obj /\ Asker(cmdq'[n]) # Asker(cmdq'[m])
      BY DEF Apart
    <3>1. CASE n \in 1 .. Len(cmdq) /\ m \in 1 .. Len(cmdq)
      BY <2>3, <3>1 DEF QInv, Apart
    <3>2. ASSUME NEW j \in 1 .. Len(cmdq), IsLoad(cmdq[j])
          PROVE  cmdq[j].obj # c.obj /\ Asker(cmdq[j]) # Asker(c)
      <4>1. Asker(cmdq[j]) \in asked /\ cmdq[j].obj \in 1 .. maxsid
        BY <3>2 DEF QInv, Awaited
      <4>2. cmdq[j].obj # c.obj
        BY <1>1, <2>2, <4>1
      <4>3. Asker(cmdq[j]) # Asker(c)
        BY <2>2, <4>1
      <4> QED
        BY <4>2, <4>3
    <3>3. n \in 1 .. Len(cmdq) \/ m \in 1 .. Len(cmdq)
      BY <1>1, <2>3
    <3> QED
      BY <2>3, <2>5, <3>1, <3>2, <3>3
  <2>8. Preloaded'
    <3> SUFFICES ASSUME redis', NEW j \in Id, object'[j] = "PRELOAD"
                 PROVE  \E n \in 1 .. Len(cmdq') : IsLoad(cmdq'[n]) /\ cmdq'[n].obj = j
      BY DEF Preloaded
    <3>1. CASE j = i
      BY <1>1, <2>2, <2>3, <3>1
    <3>2. CASE j # i
      <4>1. PICK n \in 1 .. Len(cmdq) : IsLoad(cmdq[n]) /\ cmdq[n].obj = j
        BY <2>4, <3>2 DEF QInv, Preloaded
      <4> QED
        BY <1>1, <2>3, <4>1
    <3> QED
      BY <3>1, <3>2
  <2> QED
    BY <2>6, <2>7, <2>8 DEF QInv
<1> QED
  BY <1>2, <1>3, <1>4 DEF LoadObj, Refuse

(* A load that is answered takes its object and its asker with it.         *)
LEMMA QueueReply ==
  ASSUME IInv, QInv, UNCHANGED redis, Recv
  PROVE  QInv'
<1> DEFINE c == Head(cmdq)
<1>1. /\ cmdq \in Seq(Command) /\ cmdq # << >> /\ Len(cmdq) \in Nat \ {0}
      /\ c = cmdq[1] /\ c \in Command /\ UNCHANGED maxsid
  BY Shortened DEF IInv, TypeOK, NothingUnasked, Recv
<1>2. CASE RecvOther
  <2>1. ~IsLoad(cmdq[1]) /\ cmdq' = Tail(cmdq) /\ UNCHANGED <<object, asked>>
    BY <1>1, <1>2 DEF RecvOther, IsLoad
  <2> QED
    BY <1>1, <2>1, TailMoves, QueueOther DEF IInv
<1>3. CASE RecvObject
  <2>1. IsLoad(c) /\ c.obj \in Id /\ c.key \in Key
    BY <1>1, <1>3, Commands DEF RecvObject, IsLoad
  <2>2. MovedUp
    BY <1>1, <1>3, <2>1, TailMoves DEF RecvObject, AfterLoad
  <2>3. PICK v \in Key \cup {NULL} : object' = [object EXCEPT ![c.obj] = v]
    BY <1>3, <2>1 DEF RecvObject
  <2>4. /\ \A i \in Id : object'[i] = IF i = c.obj THEN v ELSE object[i]
        /\ v # "PRELOAD"
    BY <2>1, <2>3, KeyAssumption DEF KeyAssumption, IInv, TypeOK
  <2>5. asked' = asked \ {Asker(c)}
    BY <1>3 DEF RecvObject, AsyncEnd, Asker
  <2> HIDE DEF c
  <2>6. ASSUME NEW n \in 2 .. Len(cmdq), IsLoad(cmdq[n])
        PROVE  /\ cmdq[n].obj # c.obj /\ Asker(cmdq[n]) # Asker(c)
               /\ Asker(cmdq[n]) \in asked /\ cmdq[n].obj \in 1 .. maxsid
               /\ cmdq[n].obj \in Id /\ object[cmdq[n].obj] = "PRELOAD"
    <3>1. n \in 1 .. Len(cmdq) /\ 1 \in 1 .. Len(cmdq) /\ n # 1
      BY <1>1
    <3>2. cmdq[n] \in Command
      BY <1>1, <3>1, ElementOfSeq
    <3> QED
      BY <1>1, <2>1, <2>6, <3>1, <3>2, Commands DEF QInv, Apart, Awaited, IsLoad
  <2>7. Awaited'
    BY <1>1, <2>2, <2>4, <2>5, <2>6 DEF Awaited, MovedUp
  <2>8. Apart'
    BY <1>1, <2>2 DEF QInv, Apart, MovedUp
  <2>9. Preloaded'
    <3> SUFFICES ASSUME redis', NEW i \in Id, object'[i] = "PRELOAD"
                 PROVE  \E n \in 1 .. Len(cmdq') : IsLoad(cmdq'[n]) /\ cmdq'[n].obj = i
      BY DEF Preloaded
    <3>1. i # c.obj /\ object[i] = "PRELOAD"
      BY <2>4
    <3>2. PICK n \in 1 .. Len(cmdq) : IsLoad(cmdq[n]) /\ cmdq[n].obj = i
      BY <3>1 DEF QInv, Preloaded
    <3>3. n \in 2 .. Len(cmdq)
      BY <1>1, <3>1, <3>2
    <3> QED
      BY <2>2, <3>2, <3>3 DEF MovedUp
  <2> QED
    BY <2>7, <2>8, <2>9 DEF QInv
<1> QED
  BY <1>2, <1>3 DEF Recv

LEMMA InitQInv == Init => QInv
BY EmptySeq, KeyAssumption DEF Init, KeyAssumption, QInv, Awaited, Apart, Preloaded

LEMMA NextQInv == IInv /\ QInv /\ [Next]_vars => QInv'
<1> SUFFICES ASSUME IInv, QInv, [Next]_vars PROVE QInv'
  OBVIOUS
<1>1. TypeOK /\ cmdq \in Seq(Command)
  BY DEF IInv, TypeOK
<1>2. CASE UNCHANGED <<redis, cmdq, object, maxsid, asked>>
  BY <1>2 DEF QInv, Awaited, Apart, Preloaded
<1>3. CASE Requests
  <2>1. CASE Tests
    <3>1. ~IsLoad(Test) /\ Test \in Command
      BY Commands DEF IsLoad, Test
    <3>2. Append(cmdq, Test) \in Seq(Command) /\ cmdq \o <<Test, Test>> = Append(Append(cmdq, Test), Test)
      BY <1>1, <3>1
    <3>3. AddedTo
      BY <1>1, <2>1, <3>1, <3>2, AppendAdds DEF Tests
    <3> QED
      BY <1>1, <1>3, <2>1, <3>3, QueueOther DEF Requests, Tests
  <2>2. ASSUME NEW s \in Session, NEW k \in Key, LoadObj(s, k) PROVE QInv'
    BY <1>1, <1>3, <2>2, QueueRequest DEF Requests
  <2> QED
    BY <1>3, <2>1, <2>2 DEF Requests
<1>4. CASE Link
  <2>1. CASE Recv
    BY <1>4, <2>1, QueueReply DEF Link
  <2>2. CASE Background(STick)
    <3>1. CASE Head(cmdq).cmd = "NONE" /\ cmdq' = Tail(cmdq)
      <4>1. cmdq # << >> /\ ~IsLoad(cmdq[1])
        BY <1>1, <2>2, <3>1, Shortened DEF Background, STick, IsLoad
      <4>2. MovedUp
        BY <1>1, <3>1, <4>1, TailMoves
      <4> QED
        BY <1>1, <1>4, <2>2, <4>1, <4>2, QueueOther DEF Link, Background
    <3>2. CASE UNCHANGED cmdq
      BY <1>2, <1>4, <2>2, <3>2 DEF Link, Background
    <3> QED
      BY <2>2, <3>1, <3>2 DEF Background, STick
  <2>3. CASE Background(Serve)
    BY <1>2, <1>4, <2>3 DEF Link, Background, Serve
  <2> QED
    BY <1>4, <2>1, <2>2, <2>3 DEF Link
<1>5. CASE Disconnect
  <2>1. cmdq' = << >> /\ Len(cmdq') = 0 /\ ~redis'
    BY <1>5, EmptySeq DEF Disconnect
  <2> QED
    BY <2>1 DEF QInv, Awaited, Apart, Preloaded
<1> QED
  BY <1>2, <1>3, <1>4, <1>5 DEF Next, Clients, vars, loadVars

(* An object that is being loaded is that of one command in the queue, and *)
(* a command's object is one being loaded.                                 *)
THEOREM OneCommand == Spec => []OneCommandEach
<1>1. IInv /\ QInv => OneCommandEach
  <2> SUFFICES ASSUME IInv, QInv, redis, NEW i \in Id
               PROVE  Cardinality(Awaiting(i)) = IF object[i] = "PRELOAD" THEN 1 ELSE 0
    BY DEF OneCommandEach
  <2>1. DOMAIN cmdq = 1 .. Len(cmdq)
    BY DEF IInv, TypeOK
  <2>2. CASE object[i] = "PRELOAD"
    <3>1. PICK n \in 1 .. Len(cmdq) : IsLoad(cmdq[n]) /\ cmdq[n].obj = i
      BY <2>2 DEF QInv, Preloaded
    <3>2. Awaiting(i) = {n}
      BY <2>1, <3>1 DEF Awaiting, IsLoad, QInv, Apart
    <3> QED
      BY <2>2, <3>2, FS_Singleton
  <2>3. CASE object[i] # "PRELOAD"
    <3>1. Awaiting(i) = {}
      BY <2>1, <2>3 DEF Awaiting, IsLoad, QInv, Awaited
    <3> QED
      BY <2>3, <3>1, FS_EmptySet
  <2> QED
    BY <2>2, <2>3
<1> QED
  BY InitIInv, NextIInv, InitQInv, NextQInv, <1>1, PTL DEF Spec

(* A client that is told an object's number asked for that object, and is  *)
(* told the number of one that was loaded as such.                         *)
THEOREM ToldTruly == Spec => AnsweredTruly
<1>1. IInv /\ QInv /\ [Next]_vars
        => [answer' # NULL /\ answer'.result = "SUCCESS" =>
              /\ <<answer'.ses, answer'.key>> \in asked
              /\ object'[answer'.id] = answer'.key]_vars
  <2> SUFFICES ASSUME IInv, QInv, Next, answer' # NULL, answer'.result = "SUCCESS"
               PROVE  /\ <<answer'.ses, answer'.key>> \in asked
                      /\ object'[answer'.id] = answer'.key
    OBVIOUS
  <2>1. ~Requests
    <3>1. ~Tests
      BY DEF Tests
    <3>2. ASSUME NEW s \in Session, NEW k \in Key, LoadObj(s, k) PROVE FALSE
      <4>1. \A r : Answer(s, k, r, 0).result = r
        BY DEF Answer
      <4>2. answer' \in {NULL} \cup {Answer(s, k, r, 0) : r \in {"FAIL", "BUSY", "LOADED"}}
        BY <3>2 DEF LoadObj, Refuse
      <4> QED
        BY <4>1, <4>2
    <3> QED
      BY <3>1, <3>2 DEF Requests
  <2>2. Recv /\ RecvObject
    BY <2>1 DEF Next, Clients, Link, Background, Disconnect, Recv, RecvOther
  <2> DEFINE c == Head(cmdq)
  <2>3. c = cmdq[1] /\ 1 \in 1 .. Len(cmdq) /\ IsLoad(c) /\ c.obj \in Id
    BY <2>2, Shortened, Commands DEF IInv, TypeOK, NothingUnasked, Recv, RecvObject, IsLoad
  <2>4. AsyncEnd("SUCCESS", c.obj) /\ object' = [object EXCEPT ![c.obj] = c.key]
    BY <2>2 DEF RecvObject, AsyncEnd, Answer
  <2>5. answer' = Answer(c.ses, c.key, "SUCCESS", c.obj)
    BY <2>4 DEF AsyncEnd
  <2>6. answer'.ses = c.ses /\ answer'.key = c.key /\ answer'.id = c.obj
    BY <2>5 DEF Answer
  <2>7. <<c.ses, c.key>> \in asked
    BY <2>3 DEF QInv, Awaited, Asker
  <2>8. object'[c.obj] = c.key
    BY <2>3, <2>4 DEF IInv, TypeOK
  <2> QED
    BY <2>6, <2>7, <2>8
<1> QED
  BY InitIInv, NextIInv, InitQInv, NextQInv, <1>1, PTL DEF Spec, AnsweredTruly

=============================================================================
