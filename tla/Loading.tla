------------------------------ MODULE Loading -------------------------------
(***************************************************************************)
(* Objects that clients load from Redis: persist_load_object queues a      *)
(* command for the Redis session (persist.cpp), which sends one at a time  *)
(* (redis.cpp), and its reply is handed to the session that asked, by its  *)
(* number, if it is still there (session.cpp).  The user of the terminal   *)
(* may queue two commands to test the connection (main.cpp).               *)
(*                                                                         *)
(* The Redis session is looked for among the objects of type ISIT_SESSION, *)
(* whatever the type it was created with; what happens when it is found is *)
(* modelled by giving it that type.  Replies are taken whole.              *)
(***************************************************************************)
EXTENDS Exchange, Naturals, Sequences, FiniteSets

CONSTANTS
    Key,        \* classes with uuids
    Disk,       \* those of disks
    Stored,     \* those that Redis holds
    RedisType,  \* the type of the Redis session
    QueueLimit, \* commands the queue holds (cmdqlimit - 1)
    MaxObject   \* bound: objects ever created by loading

ASSUME KeyAssumption ==
    /\ Disk \subseteq Key /\ Stored \subseteq Key
    /\ NULL # "PRELOAD" /\ NULL \notin Key /\ "PRELOAD" \notin Key
ASSUME TypeAssumption == RedisType \in {"ISIT_SESSION", "ISIT_SESSION_REDIS"}
ASSUME QueueAssumption == QueueLimit \in Nat \ {0}
ASSUME ObjectAssumption == MaxObject \in Nat

VARIABLES
    redis,      \* there is a Redis session
    cmdq,       \* its commands, [cmd, ses, key, obj]
    wire,       \* the request or the reply of the one that was sent
    object,     \* the state of each object loading created: "PRELOAD", the key
                \* it was loaded as, or NULL
    maxsid,     \* the number last given to an object
    answer,     \* R_LOADOBJ of the last step: [ses, key, result, id], or NULL
    asked       \* <<session, key>> of the commands to be answered

loadVars == <<redis, cmdq, wire, object, maxsid, answer, asked>>
vars == <<sesVars, loadVars>>

Id == 1 .. MaxObject

Init ==
    /\ SesInit
    /\ redis = TRUE
    /\ cmdq = << >> /\ wire = << >>
    /\ object = [i \in Id |-> NULL]
    /\ maxsid = 0
    /\ answer = NULL
    /\ asked = {}

-----------------------------------------------------------------------------
Empty == [cmd |-> "NONE", ses |-> NULL, key |-> NULL, obj |-> 0]
Test == [cmd |-> "TEST", ses |-> NULL, key |-> NULL, obj |-> 0]
LoadObject(s, k, i) == [cmd |-> "LOADOBJECT", ses |-> s, key |-> k, obj |-> i]
DiskLoad(i) == [cmd |-> "DISKLOAD", ses |-> NULL, key |-> NULL, obj |-> i]

(* persist_find_session                                                    *)
Found == redis /\ RedisType = "ISIT_SESSION"
HasRoomLate(q) == Len(q) <= QueueLimit
HasRoom(q) == Len(q) < QueueLimit
Loaded(k) == \E i \in Id : object[i] = k        \* isi_find_uuid

Answer(s, k, result, i) == [ses |-> s, key |-> k, result |-> result, id |-> i]

(* ISIM_LOADOBJ, of clients that do not ask again for an object before     *)
(* they were answered.  The place in the queue is taken first: when the    *)
(* object is there already it stays, and holds no command.                 *)
Refuse(s, k, result) ==
    /\ answer' = Answer(s, k, result, 0)
    /\ UNCHANGED <<object, maxsid, asked>>

LoadObjChecksLast(s, k) ==
    /\ s \in allses /\ <<s, k>> \notin asked
    /\ \/ ~Found /\ Refuse(s, k, "FAIL") /\ UNCHANGED cmdq
       \/ Found /\ ~HasRoom(cmdq) /\ Refuse(s, k, "BUSY") /\ UNCHANGED cmdq
       \/ /\ Found /\ HasRoom(cmdq) /\ maxsid < MaxObject
          /\ maxsid' = maxsid + 1
          /\ object' = [object EXCEPT ![maxsid'] = "PRELOAD"]
          /\ IF Loaded(k)
               THEN /\ cmdq' = Append(cmdq, Empty)
                    /\ answer' = Answer(s, k, "LOADED", 0)
                    /\ UNCHANGED asked
               ELSE /\ cmdq' = Append(cmdq, LoadObject(s, k, maxsid'))
                    /\ asked' = asked \cup {<<s, k>>}
                    /\ answer' = NULL
LoadObj(s, k) ==
    /\ s \in allses /\ <<s, k>> \notin asked
    /\ \/ ~Found /\ Refuse(s, k, "FAIL") /\ UNCHANGED cmdq
       \/ Found /\ ~HasRoom(cmdq) /\ Refuse(s, k, "BUSY") /\ UNCHANGED cmdq
       \/ /\ Found /\ HasRoom(cmdq) /\ Loaded(k)
          /\ Refuse(s, k, "LOADED")
          /\ cmdq' = Append(cmdq, Empty)
       \/ /\ Found /\ HasRoom(cmdq) /\ ~Loaded(k) /\ maxsid < MaxObject
          /\ maxsid' = maxsid + 1
          /\ object' = [object EXCEPT ![maxsid'] = "PRELOAD"]
          /\ cmdq' = Append(cmdq, LoadObject(s, k, maxsid'))
          /\ asked' = asked \cup {<<s, k>>}
          /\ answer' = NULL

(* isi_redis_test finds the Redis session by the type it has; both its     *)
(* commands end with whatever is replied.                                  *)
Tests ==
    /\ redis /\ HasRoom(cmdq)
    /\ cmdq' = IF HasRoom(Append(cmdq, Test)) THEN cmdq \o <<Test, Test>> ELSE Append(cmdq, Test)
    /\ UNCHANGED <<object, maxsid, asked>>
    /\ answer' = NULL

-----------------------------------------------------------------------------
(* The Redis session.  STick drops an empty command, and sends any other   *)
(* once.                                                                   *)
STickKeepsEmpty ==
    /\ cmdq # << >> /\ wire = << >>
    /\ wire' = <<"sent">>
    /\ UNCHANGED cmdq
STick ==
    /\ cmdq # << >> /\ wire = << >>
    /\ \/ Head(cmdq).cmd = "NONE" /\ cmdq' = Tail(cmdq) /\ UNCHANGED wire
       \/ Head(cmdq).cmd # "NONE" /\ wire' = <<"sent">> /\ UNCHANGED cmdq

(* Redis, which does not answer what it was never sent.                    *)
Serve ==
    /\ wire = <<"sent">> /\ Head(cmdq).cmd # "NONE"
    /\ wire' = <<"reply", Head(cmdq).key \in Stored>>
    /\ UNCHANGED cmdq

Background(A) == A /\ answer' = NULL /\ UNCHANGED <<object, maxsid, asked>>

(* session_async_end: to a session that has ended nothing is sent.         *)
AsyncEndTail(result, i) ==
    /\ answer' = IF Len(cmdq) > 1 /\ cmdq[2].ses \in allses
                   THEN Answer(cmdq[2].ses, cmdq[2].key, result, i) ELSE NULL
    /\ asked' = asked \ {<<Head(cmdq).ses, Head(cmdq).key>>}
AsyncEnd(result, i) ==
    LET c == Head(cmdq)
    IN  /\ answer' = IF c.ses \in allses THEN Answer(c.ses, c.key, result, i) ELSE NULL
        /\ asked' = asked \ {<<c.ses, c.key>>}

(* Load of a disk queues its first block, while the command it came by is  *)
(* still in the queue; when there is no room the disk stays empty.         *)
AfterLoad(c) ==
    IF c.key \in Disk /\ HasRoom(cmdq) THEN Append(Tail(cmdq), DiskLoad(c.obj)) ELSE Tail(cmdq)

RecvObject ==
    LET c == Head(cmdq) IN
    /\ c.cmd = "LOADOBJECT"
    /\ \/ /\ ~wire[2]                               \* nothing but nil, or an error
          /\ AsyncEnd("NOTFOUND", 0)
          /\ object' = [object EXCEPT ![c.obj] = NULL]
          /\ cmdq' = Tail(cmdq)
       \/ /\ wire[2]
          /\ object' = [object EXCEPT ![c.obj] = c.key]
          /\ AsyncEnd("SUCCESS", c.obj)
          /\ cmdq' = AfterLoad(c)

RecvOther ==
    /\ Head(cmdq).cmd \in {"TEST", "DISKLOAD"}
    /\ cmdq' = Tail(cmdq)
    /\ answer' = NULL
    /\ UNCHANGED <<object, asked>>

Recv ==
    /\ wire # << >> /\ wire[1] = "reply"
    /\ RecvObject \/ RecvOther
    /\ wire' = << >>
    /\ UNCHANGED maxsid

(* The main loop deletes a Redis session whose Recv failed, and with it    *)
(* its commands; whoever waits for them is not told.                       *)
Disconnect ==
    /\ redis
    /\ redis' = FALSE
    /\ cmdq' = << >> /\ wire' = << >>
    /\ asked' = {}
    /\ answer' = NULL
    /\ UNCHANGED <<object, maxsid>>

-----------------------------------------------------------------------------
Unnamed(s) ==
    /\ \A n \in DOMAIN cmdq : cmdq[n].ses # s
    /\ \A k \in Key : <<s, k>> \notin asked

Clients ==
    /\ \E s \in Session : \/ Unnamed(s) /\ Connect(s)
                          \/ DeleteSes(s)
                          \/ \E c \in Cemei : CarefulSubscribe(s, c)
    /\ answer' = NULL
    /\ UNCHANGED <<redis, cmdq, wire, object, maxsid, asked>>

Requests ==
    /\ Tests \/ \E s \in Session, k \in Key : LoadObj(s, k)
    /\ UNCHANGED <<sesVars, redis, wire>>

Link == (Background(STick) \/ Background(Serve) \/ Recv) /\ UNCHANGED <<sesVars, redis>>

Next == Clients \/ Requests \/ Link \/ (Disconnect /\ UNCHANGED sesVars)

Spec == Init /\ [][Next]_vars

(* The main loop ticks its sessions and receives from them in every pass,  *)
(* and Redis answers.                                                      *)
FairSpec == Spec /\ WF_vars(Link)

-----------------------------------------------------------------------------
Command ==
    {Empty, Test} \cup {LoadObject(s, k, i) : s \in Session, k \in Key, i \in Id}
                  \cup {DiskLoad(i) : i \in Id}

TypeOK ==
    /\ SesTypeOK
    /\ redis \in BOOLEAN
    /\ cmdq \in Seq(Command) /\ Len(cmdq) <= QueueLimit
    /\ wire \in {<< >>, <<"sent">>} \cup ({"reply"} \X BOOLEAN)
    /\ object \in [Id -> Key \cup {"PRELOAD", NULL}]
    /\ maxsid \in 0 .. MaxObject
    /\ answer \in {NULL} \cup [ses : Session, key : Key, id : Id \cup {0},
                               result : {"SUCCESS", "FAIL", "NOTFOUND", "BUSY", "LOADED"}]
    /\ asked \subseteq Session \X Key

(* An object that is being loaded is that of one command in the queue, and *)
(* a command's object is one being loaded: none is left over, and none is  *)
(* written to after it was deleted or handed out.                          *)
Awaiting(i) == {n \in DOMAIN cmdq : cmdq[n].cmd = "LOADOBJECT" /\ cmdq[n].obj = i}
OneCommandEach ==
    redis => \A i \in Id : Cardinality(Awaiting(i)) = IF object[i] = "PRELOAD" THEN 1 ELSE 0

(* A client that is told an object's number asked for that object, and is  *)
(* told the number of one that was loaded as such.                         *)
AnsweredTruly ==
    [][answer' # NULL /\ answer'.result = "SUCCESS" =>
          /\ <<answer'.ses, answer'.key>> \in asked
          /\ object'[answer'.id] = answer'.key]_vars

(* Whoever asks is answered, unless its session or that to Redis ends      *)
(* first: commands given up in the queue before it do not hold it up.      *)
EveryRequestEnds ==
    \A s \in Session, k \in Key : (<<s, k>> \in asked) ~> (<<s, k>> \notin asked)

(* Objects are refused for want of a Redis session only when there is none.*)
RefusedWithoutRedis == [][answer' # NULL /\ answer'.result = "FAIL" => ~redis]_vars
=============================================================================
