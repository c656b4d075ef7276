--------------------------- MODULE MainLoopProofs ---------------------------
(***************************************************************************)
(* Proofs about MainLoop for any clients, CPUs and messages: no table is   *)
(* read past its end, a CPU is in the table once, and every message is     *)
(* handled once and after a hello.                                         *)
(***************************************************************************)
EXTENDS MainLoop, DataLemmas

-----------------------------------------------------------------------------
(* The table of CPUs.                                                      *)

CpusInv == IsSequence(allcpu) /\ RunsOnce

LEMMA Started ==
  ASSUME CpusInv, NEW x
  PROVE  IsSequence(Start(x)) /\ IsInjective(Start(x))
<1>1. Len(allcpu) \in Nat /\ DOMAIN allcpu = 1 .. Len(allcpu)
  BY LenOfSequence DEF CpusInv
<1>2. CASE Contains(allcpu, x)
  BY <1>2 DEF Start, CpusInv, RunsOnce
<1>3. CASE ~Contains(allcpu, x)
  <2> DEFINE t == Append(allcpu, x)
  <2>1. /\ IsSequence(t) /\ Len(t) = Len(allcpu) + 1
        /\ \A i \in 1 .. Len(allcpu) : t[i] = allcpu[i] /\ allcpu[i] # x
        /\ t[Len(allcpu) + 1] = x
    BY <1>3, AppendSequence DEF CpusInv, Contains
  <2> HIDE DEF t
  <2>2. DOMAIN t = 1 .. Len(allcpu) + 1
    BY <2>1, LenOfSequence
  <2>3. \A i, j \in DOMAIN t : t[i] = t[j] => i = j
    BY <1>1, <2>1, <2>2 DEF CpusInv, RunsOnce, IsInjective
  <2>4. IsInjective(t)
    BY <2>3 DEF IsInjective
  <2> QED
    BY <1>3, <2>1, <2>4 DEF Start, t
<1> QED
  BY <1>2, <1>3

LEMMA Stopped ==
  ASSUME CpusInv, NEW x
  PROVE  /\ IsSequence(Stop(x)) /\ IsInjective(Stop(x))
         /\ \A j \in 1 .. Len(Stop(x)) : \E m \in DOMAIN allcpu : Stop(x)[j] = allcpu[m]
<1>1. Len(allcpu) \in Nat /\ DOMAIN allcpu = 1 .. Len(allcpu)
  BY LenOfSequence DEF CpusInv
<1>2. CASE ~Contains(allcpu, x)
  BY <1>1, <1>2 DEF Stop, CpusInv, RunsOnce
<1>3. CASE Contains(allcpu, x)
  <2>1. PICK i \in DOMAIN allcpu : allcpu[i] = x
    BY <1>1, <1>3 DEF Contains
  <2>2. \A j \in DOMAIN allcpu : allcpu[j] = x => i <= j
    BY <1>1, <2>1 DEF CpusInv, RunsOnce, IsInjective
  <2>3. FirstOf(x) \in 1 .. Len(allcpu)
    BY <1>1, <2>1, <2>2 DEF FirstOf
  <2> DEFINE f == FirstOf(x)
             t == RemoveAt(allcpu, f)
  <2>4. /\ IsSequence(t) /\ Len(t) = Len(allcpu) - 1
        /\ \A j \in 1 .. Len(allcpu) - 1 : t[j] = IF j < f THEN allcpu[j] ELSE allcpu[j + 1]
    BY <2>3, RemoveFromSequence DEF CpusInv
  <2>5. Stop(x) = t
    BY <1>3 DEF Stop
  <2> HIDE DEF t, f
  <2>6. DOMAIN t = 1 .. Len(allcpu) - 1
    BY <2>4, LenOfSequence
  <2>7. ASSUME NEW j \in DOMAIN t, NEW k \in DOMAIN t, t[j] = t[k] PROVE j = k
    <3> DEFINE at0(n) == IF n < f THEN n ELSE n + 1
    <3>1. t[j] = allcpu[at0(j)] /\ t[k] = allcpu[at0(k)]
      BY <2>4, <2>6
    <3>2. at0(j) \in 1 .. Len(allcpu) /\ at0(k) \in 1 .. Len(allcpu)
      BY <1>1, <2>6
    <3>3. at0(j) = at0(k)
      BY <1>1, <2>7, <3>1, <3>2 DEF CpusInv, RunsOnce, IsInjective
    <3> QED
      BY <1>1, <2>3, <2>6, <3>3 DEF f
  <2>8. IsInjective(t)
    BY <2>7 DEF IsInjective
  <2>9. ASSUME NEW j \in 1 .. Len(t) PROVE \E m \in DOMAIN allcpu : t[j] = allcpu[m]
    <3>1. j \in DOMAIN allcpu /\ j + 1 \in DOMAIN allcpu
      BY <1>1, <2>4
    <3> QED
      BY <2>4, <3>1
  <2> QED
    BY <2>4, <2>5, <2>8, <2>9
<1> QED
  BY <1>2, <1>3

(* Only messages change the table of CPUs, and they start or stop one.     *)
LEMMA CpuSteps ==
  ASSUME [Next]_vars
  PROVE  \/ UNCHANGED allcpu
         \/ /\ at.pc = "serve"
            /\ \E x : allcpu' = Start(x) \/ allcpu' = Stop(x)
<1>1. CASE Recv
  <2>1. CASE RecvEnd \/ \E n \in 1 .. conn[Session.who].left : RecvPart(n)
    BY <2>1 DEF RecvEnd, RecvPart
  <2>2. ASSUME NEW n \in 1 .. conn[Session.who].left, RecvMessage(n)
        PROVE  UNCHANGED allcpu \/ \E x : allcpu' = Start(x) \/ allcpu' = Stop(x)
    <3>1. UNCHANGED allcpu \/ \E m : allcpu' = CpusAfter(m)
      BY <2>2 DEF RecvMessage
    <3> QED
      BY <3>1 DEF CpusAfter
  <2> QED
    BY <1>1, <2>1, <2>2 DEF Recv, Serving
<1>2. CASE ~Recv
  BY <1>2 DEF Next, Clients, Loop, RunAndPoll, Pass, PollError, Accept, EndPass, vars
<1> QED
  BY <1>1, <1>2

LEMMA CpusStep == CpusInv /\ [Next]_vars => CpusInv'
<1> SUFFICES ASSUME CpusInv, [Next]_vars PROVE CpusInv'
  OBVIOUS
<1>1. CASE UNCHANGED allcpu
  BY <1>1 DEF CpusInv, RunsOnce
<1>2. ASSUME NEW x, allcpu' = Start(x) \/ allcpu' = Stop(x) PROVE CpusInv'
  BY <1>2, Started, Stopped DEF CpusInv, RunsOnce
<1> QED
  BY <1>1, <1>2, CpuSteps

LEMMA CpusInit == Init => CpusInv
<1>1. << >> \in Seq({}) /\ DOMAIN << >> = {}
  BY EmptySeq
<1> QED
  BY <1>1 DEF Init, CpusInv, RunsOnce, IsInjective, IsSequence

(* A CPU runs once a round, however many clients start it: starting looks  *)
(* for it first, and stopping takes its only entry.                        *)
THEOREM Once == Spec => []RunsOnce
<1>1. CpusInv => RunsOnce
  BY DEF CpusInv
<1> QED
  BY CpusInit, CpusStep, <1>1, PTL DEF Spec

-----------------------------------------------------------------------------
(* The tables a pass looks at.  While it serves, each entry of the poll    *)
(* table has an event, and there are at least as many sessions: some may   *)
(* have been added, and one that is deleted ends the pass.                 *)
TablesInv ==
    /\ IsSequence(allses) /\ IsSequence(polltable) /\ IsSequence(revents)
    /\ cux \in Nat /\ at.k \in Nat \ {0}
    /\ at.pc = "run" /\ allcpu # << >> => cux < Len(allcpu)
    /\ at.pc = "serve" => /\ at.k <= Len(polltable)
                          /\ Len(polltable) <= Len(allses)
                          /\ Len(revents) = Len(polltable)

(* What a step of the pass does to the entry it looks at.                  *)
LEMMA GoOnSafe ==
  ASSUME TablesInv, at.pc = "serve", GoOn, UNCHANGED <<polltable, cux>>,
         IsSequence(allses'), Len(allses') >= Len(allses)
  PROVE  TablesInv'
<1>1. /\ Len(polltable) \in Nat /\ Len(allses) \in Nat /\ Len(allses') \in Nat
  BY LenOfSequence DEF TablesInv
<1>2. CASE at.k < Len(polltable) /\ at' = At("serve", at.k + 1) /\ UNCHANGED revents
  <2>1. at'.pc = "serve" /\ at'.k = at.k + 1
    BY <1>2 DEF At
  <2> QED
    BY <1>1, <1>2, <2>1 DEF TablesInv
<1>3. CASE at' = At("next", 1) /\ revents' = << >>
  <2>1. at'.pc = "next" /\ at'.k = 1
    BY <1>3 DEF At
  <2>2. IsSequence(<< >>)
    BY EmptySeq DEF IsSequence
  <2> QED
    BY <1>3, <2>1, <2>2 DEF TablesInv
<1> QED
  BY <1>2, <1>3 DEF GoOn

LEMMA DeleteSafe ==
  ASSUME TablesInv, at.pc = "serve", DeleteSes(allses), UNCHANGED <<polltable, cux>>
  PROVE  TablesInv'
<1>1. CASE at.k \in 1 .. Len(allses)
  <2>1. IsSequence(allses')
    BY <1>1, RemoveFromSequence DEF TablesInv, DeleteSes
  <2>2. at'.pc = "next" /\ at'.k = 1 /\ revents' = << >>
    BY DEF DeleteSes, At
  <2>3. IsSequence(<< >>)
    BY EmptySeq DEF IsSequence
  <2> QED
    BY <2>1, <2>2, <2>3 DEF TablesInv
<1>2. Len(allses) \in Nat /\ Len(polltable) \in Nat
  BY LenOfSequence DEF TablesInv
<1> QED
  BY <1>1, <1>2 DEF TablesInv

LEMMA PollSafe ==
  ASSUME TablesInv, RunAndPoll
  PROVE  TablesInv'
<1>1. IsSequence(allses) /\ IsSequence(polltable)
  BY DEF TablesInv
<1>2. IsSequence(Fds(allses)) /\ Len(Fds(allses)) = Len(allses)
  <2>1. Fds(allses) = [i \in DOMAIN allses |-> Fds(allses)[i]]
    BY DEF Fds
  <2> QED
    BY <1>1, <2>1, MappedSequence
<1>3. IsSequence(polltable') /\ Len(polltable') = Len(allses)
  BY <1>1, <1>2 DEF RunAndPoll, Polled
<1>4. IsSequence(revents') /\ Len(revents') = Len(polltable')
  <2>1. revents' = [i \in DOMAIN polltable' |-> revents'[i]]
    BY DEF RunAndPoll
  <2> QED
    BY <1>3, <2>1, MappedSequence
<1>5. at'.k = 1 /\ at'.pc = IF polltable' = << >> THEN "next" ELSE "serve"
  BY DEF RunAndPoll, At
<1>6. Len(polltable') \in Nat /\ (polltable' # << >> => Len(polltable') > 0)
  BY <1>3, LenOfSequence
<1> QED
  BY <1>1, <1>3, <1>4, <1>5, <1>6 DEF RunAndPoll, TablesInv

LEMMA NextCpuSafe ==
  ASSUME TablesInv, CpusInv, EndPass
  PROVE  TablesInv'
<1>1. Len(allcpu) \in Nat /\ (allcpu # << >> => Len(allcpu) > 0)
  BY LenOfSequence DEF CpusInv
<1>2. cux' \in Nat /\ (allcpu # << >> => cux' < Len(allcpu))
  BY <1>1 DEF EndPass, Wrapped, TablesInv
<1>3. at'.pc = "run" /\ at'.k = 1
  BY DEF EndPass, At
<1> QED
  BY <1>2, <1>3 DEF EndPass, TablesInv

LEMMA RecvSafe ==
  ASSUME TablesInv, Recv
  PROVE  TablesInv'
<1>1. at.pc = "serve" /\ IsSequence(allses) /\ Len(allses) \in Nat /\ UNCHANGED <<polltable, cux>>
  BY LenOfSequence DEF Recv, Serving, TablesInv
<1>2. CASE DeleteSes(allses)
  BY <1>1, <1>2, DeleteSafe
<1>3. ASSUME NEW x, allses' = [allses EXCEPT ![at.k] = x], GoOn PROVE TablesInv'
  <2>1. IsSequence(allses') /\ Len(allses') = Len(allses)
    BY <1>1, <1>3, ReplaceInSequence
  <2> QED
    BY <1>1, <1>3, <2>1, GoOnSafe
<1>4. ASSUME NEW n, RecvPart(n) PROVE TablesInv'
  <2>1. /\ allses' = [allses EXCEPT ![at.k] =
                         [allses[at.k] EXCEPT !.have = allses[at.k].have + n]]
        /\ GoOn
    BY <1>4 DEF RecvPart
  <2> QED
    BY <1>3, <2>1
<1>5. ASSUME NEW n, RecvMessage(n) PROVE TablesInv'
  BY <1>2, <1>3, <1>5 DEF RecvMessage
<1> QED
  BY <1>2, <1>4, <1>5 DEF Recv, RecvEnd

LEMMA TablesStep == TablesInv /\ CpusInv /\ [Next]_vars => TablesInv'
<1> SUFFICES ASSUME TablesInv, CpusInv, [Next]_vars PROVE TablesInv'
  OBVIOUS
<1>1. IsSequence(allses) /\ Len(allses) \in Nat
  BY LenOfSequence DEF TablesInv
<1>2. CASE UNCHANGED <<allses, polltable, revents, allcpu, cux, at>>
  BY <1>2 DEF TablesInv
<1>3. CASE Pass
  BY <1>1, <1>3, GoOnSafe DEF Pass
<1>4. CASE PollError
  BY <1>4, DeleteSafe DEF PollError, Serving
<1>5. CASE Accept
  <2>1. at.pc = "serve" /\ UNCHANGED <<polltable, cux>>
    BY <1>5 DEF Accept, Serving
  <2>2. CASE DeleteSes(allses)
    BY <2>1, <2>2, DeleteSafe
  <2>3. ASSUME NEW x, allses' = Append(allses, x), GoOn PROVE TablesInv'
    <3>1. IsSequence(allses') /\ Len(allses') = Len(allses) + 1
      BY <1>1, <2>3, AppendSequence
    <3> QED
      BY <1>1, <2>1, <2>3, <3>1, GoOnSafe
  <2> QED
    BY <1>5, <2>2, <2>3 DEF Accept
<1> QED
  BY <1>2, <1>3, <1>4, <1>5, PollSafe, NextCpuSafe, RecvSafe DEF Next, Clients, Loop, vars

LEMMA TablesInit == Init => TablesInv
<1> SUFFICES ASSUME Init PROVE TablesInv
  OBVIOUS
<1>1. IsSequence(<< >>) /\ << >> \in Seq({Listener})
  BY EmptySeq DEF IsSequence
<1>2. <<Listener>> \in Seq({Listener})
  OBVIOUS
<1>3. IsSequence(<<Listener>>)
  BY <1>2 DEF IsSequence
<1>4. at.pc = "run" /\ at.k = 1
  BY DEF Init, At
<1> QED
  BY <1>1, <1>3, <1>4 DEF Init, TablesInv

(* No table is read past its end: neither that of the CPUs, which may have *)
(* become shorter since the one to run was picked, nor that of the         *)
(* sessions, which is indexed by the poll table.                           *)
THEOREM InRange == Spec => []IndexesInRange
<1>1. TablesInv => IndexesInRange
  <2> SUFFICES ASSUME TablesInv PROVE IndexesInRange
    OBVIOUS
  <2>1. Len(polltable) \in Nat /\ Len(allses) \in Nat
    BY LenOfSequence DEF TablesInv
  <2> QED
    BY <2>1 DEF TablesInv, IndexesInRange
<1> QED
  BY TablesInit, TablesStep, CpusInit, CpusStep, <1>1, PTL DEF Spec

-----------------------------------------------------------------------------
(* The sessions.  No two have one descriptor or one client.  What a        *)
(* session has of a frame and what is left of it at the client are a whole *)
(* frame or nothing, and the client is known to have greeted if its        *)
(* session says so.                                                        *)
SessionType == [who : Client \cup {Server}, fd : Fd, hello : BOOLEAN, have : 0 .. 1]

OneEach(ses) ==
    \A i, j \in DOMAIN ses : ses[i].fd = ses[j].fd \/ ses[i].who = ses[j].who => i = j

Holds(s, k) ==
    /\ k.st = "open"
    /\ k.left + s.have \in {0, 2}
    /\ k.sent = k.done + (IF k.left + s.have > 0 THEN 1 ELSE 0)
    /\ k.left + s.have > 0 => k.msg \in Messages
    /\ s.hello \/ k.msg = <<"HELLO">> => k.greeted

(* A client no session serves has sent nothing.                            *)
Unserved(k) == k \in {Closed, [Closed EXCEPT !.st = "waiting"]}

Paired(ses, con) ==
    /\ \A i \in DOMAIN ses : ses[i].who # Server => Holds(ses[i], con[ses[i].who])
    /\ \A c \in Client : (\A i \in DOMAIN ses : ses[i].who # c) => Unserved(con[c])

SessionsInv ==
    /\ allses \in Seq(SessionType)
    /\ conn \in [Client -> Connection]
    /\ OneEach(allses)
    /\ Paired(allses, conn)

(* The other tables, and where the loop is.                                *)
PassInv ==
    /\ polltable \in Seq(Fd)
    /\ revents \in Seq({"none", "in", "error"})
    /\ allcpu \in Seq(Cpu)
    /\ cux = 0 \/ cux <= Cardinality(Cpu)
    /\ at \in [pc : {"run", "serve", "next"}, k : Nat \ {0}]
    /\ at.pc # "serve" => at.k = 1

LEMMA SessionsAre ==
  ASSUME SessionsInv
  PROVE  /\ IsSequence(allses) /\ Len(allses) \in Nat /\ DOMAIN allses = 1 .. Len(allses)
         /\ \A i \in DOMAIN allses :
               /\ allses[i] \in SessionType
               /\ allses[i].who # Server => /\ allses[i].who \in Client
                                            /\ Holds(allses[i], conn[allses[i].who])
<1>1. allses \in Seq(SessionType)
  BY DEF SessionsInv
<1>2. IsSequence(allses)
  BY <1>1 DEF IsSequence
<1>3. Len(allses) \in Nat /\ DOMAIN allses = 1 .. Len(allses)
  BY <1>2, LenOfSequence
<1>4. \A i \in DOMAIN allses : allses[i] \in SessionType
  BY <1>1, <1>3, ElementOfSeq
<1> QED
  BY <1>2, <1>3, <1>4 DEF SessionsInv, Paired, SessionType

LEMMA ClosedIsOne == Closed \in Connection /\ Unserved(Closed)
BY MaxSentAssumption DEF Closed, Connection, Unserved

(* A client alone changes its connection.                                  *)
LEMMA ConnectionChanges ==
  ASSUME SessionsInv, NEW c \in Client, NEW k \in Connection,
         conn' = [conn EXCEPT ![c] = k], allses' = allses,
         Unserved(conn[c]) => Unserved(k),
         \A s \in SessionType : Holds(s, conn[c]) => Holds(s, k)
  PROVE  SessionsInv'
<1>1. conn' \in [Client -> Connection] /\ conn'[c] = k
  BY DEF SessionsInv
<1>2. \A x \in Client \ {c} : conn'[x] = conn[x]
  BY DEF SessionsInv
<1>3. ASSUME NEW i \in DOMAIN allses, allses[i].who # Server
      PROVE  Holds(allses[i], conn'[allses[i].who])
  <2>1. allses[i] \in SessionType /\ allses[i].who \in Client /\ Holds(allses[i], conn[allses[i].who])
    BY <1>3, SessionsAre
  <2> QED
    BY <1>1, <1>2, <2>1
<1>4. ASSUME NEW x \in Client, \A i \in DOMAIN allses : allses[i].who # x
      PROVE  Unserved(conn'[x])
  BY <1>1, <1>2, <1>4 DEF SessionsInv, Paired
<1> QED
  BY <1>1, <1>3, <1>4 DEF SessionsInv, Paired

(* A session and its client change together.                               *)
LEMMA SessionChanges ==
  ASSUME SessionsInv, NEW i \in DOMAIN allses, allses[i].who # Server,
         NEW s \in SessionType, s.who = allses[i].who, s.fd = allses[i].fd,
         NEW k \in Connection, Holds(s, k),
         allses' = [allses EXCEPT ![i] = s],
         conn' = [conn EXCEPT ![allses[i].who] = k]
  PROVE  SessionsInv'
<1>1. /\ Len(allses) \in Nat /\ DOMAIN allses = 1 .. Len(allses) /\ allses \in Seq(SessionType)
      /\ allses[i].who \in Client
  BY SessionsAre DEF SessionsInv
<1>2. /\ allses' \in Seq(SessionType) /\ DOMAIN allses' = DOMAIN allses
      /\ allses'[i] = s /\ \A j \in DOMAIN allses : j # i => allses'[j] = allses[j]
  BY <1>1, ExceptSeq
<1>3. /\ conn' \in [Client -> Connection] /\ conn'[s.who] = k
      /\ \A x \in Client : x # s.who => conn'[x] = conn[x]
  BY <1>1 DEF SessionsInv
<1>4. \A j \in DOMAIN allses : allses'[j].who = allses[j].who /\ allses'[j].fd = allses[j].fd
  BY <1>2
<1>5. OneEach(allses')
  BY <1>2, <1>4 DEF SessionsInv, OneEach
<1>6. ASSUME NEW j \in DOMAIN allses, allses[j].who # Server
      PROVE  Holds(allses'[j], conn'[allses[j].who])
  <2>1. CASE j = i
    BY <1>2, <1>3, <2>1
  <2>2. CASE j # i
    <3>1. allses[j].who # s.who
      BY <2>2 DEF SessionsInv, OneEach
    <3>2. allses[j].who \in Client /\ Holds(allses[j], conn[allses[j].who])
      BY <1>6, SessionsAre
    <3> QED
      BY <1>2, <1>3, <2>2, <3>1, <3>2
  <2> QED
    BY <2>1, <2>2
<1>7. ASSUME NEW x \in Client, \A j \in DOMAIN allses : allses[j].who # x
      PROVE  Unserved(conn'[x])
  BY <1>3, <1>7 DEF SessionsInv, Paired
<1> QED
  BY <1>2, <1>3, <1>4, <1>5, <1>6, <1>7 DEF SessionsInv, Paired

(* A session that is deleted takes its connection with it, and no other.   *)
LEMMA SessionGoes ==
  ASSUME SessionsInv, NEW i \in DOMAIN allses, allses' = RemoveAt(allses, i),
         conn' = [c \in Client |-> IF c = allses[i].who THEN Closed ELSE conn[c]]
  PROVE  SessionsInv'
<1> DEFINE n == Len(allses) - 1
           src(j) == IF j < i THEN j ELSE j + 1
<1>1. Len(allses) \in Nat /\ DOMAIN allses = 1 .. Len(allses) /\ IsSequence(allses)
  BY SessionsAre
<1>2. IsSequence(allses') /\ Len(allses') = n /\ \A j \in 1 .. n : allses'[j] = allses[src(j)]
  <2>1. i \in 1 .. Len(allses)
    BY <1>1
  <2>2. \A j \in 1 .. n : RemoveAt(allses, i)[j] = IF j < i THEN allses[j] ELSE allses[j + 1]
    BY <1>1, <2>1, RemoveFromSequence
  <2> QED
    BY <1>1, <2>1, <2>2, RemoveFromSequence
<1>3. /\ \A j \in 1 .. n : src(j) \in DOMAIN allses /\ src(j) # i
      /\ \A j, m \in 1 .. n : src(j) = src(m) => j = m
      /\ \A m \in DOMAIN allses : m # i => \E j \in 1 .. n : src(j) = m
  <2>1. ASSUME NEW m \in DOMAIN allses, m # i PROVE \E j \in 1 .. n : src(j) = m
    <3>1. CASE m < i
      <4>1. m \in 1 .. n /\ src(m) = m
        BY <1>1, <3>1
      <4> QED
        BY <4>1
    <3>2. CASE m > i
      <4>1. m - 1 \in 1 .. n /\ src(m - 1) = m
        BY <1>1, <3>2
      <4> QED
        BY <4>1
    <3> QED
      BY <1>1, <2>1, <3>1, <3>2
  <2> QED
    BY <1>1, <2>1
<1> HIDE DEF src, n
<1>4. DOMAIN allses' = 1 .. n
  BY <1>2, LenOfSequence
<1>5. allses' \in Seq(SessionType)
  BY <1>2, <1>3, SequenceOver, SessionsAre
<1>6. OneEach(allses')
  BY <1>2, <1>3, <1>4 DEF SessionsInv, OneEach
<1>7. conn' \in [Client -> Connection]
  BY ClosedIsOne DEF SessionsInv
<1>8. ASSUME NEW j \in 1 .. n, allses'[j].who # Server
      PROVE  Holds(allses'[j], conn'[allses'[j].who])
  <2> DEFINE m == src(j)
  <2>1. m \in DOMAIN allses /\ m # i /\ allses'[j] = allses[m]
    BY <1>2, <1>3
  <2> HIDE DEF m
  <2>2. allses[m].who \in Client /\ Holds(allses[m], conn[allses[m].who])
    BY <1>8, <2>1, SessionsAre
  <2>3. allses[m].who # allses[i].who
    BY <2>1 DEF SessionsInv, OneEach
  <2> QED
    BY <2>1, <2>2, <2>3
<1>9. ASSUME NEW x \in Client, \A j \in 1 .. n : allses'[j].who # x
      PROVE  Unserved(conn'[x])
  <2>1. CASE x = allses[i].who
    BY <2>1, ClosedIsOne
  <2>2. CASE x # allses[i].who
    <3>1. \A m \in DOMAIN allses : allses[m].who # x
      BY <1>2, <1>3, <1>9, <2>2
    <3> QED
      BY <2>2, <3>1 DEF SessionsInv, Paired
  <2> QED
    BY <2>1, <2>2
<1> QED
  BY <1>4, <1>5, <1>6, <1>7, <1>8, <1>9 DEF SessionsInv, Paired

(* One that is accepted has a descriptor of its own, and its client had no *)
(* other: it was waiting.                                                  *)
LEMMA SessionComes ==
  ASSUME SessionsInv, ~ Fd \subseteq OpenFds, NEW c \in Waiting,
         allses' = Append(allses, Accepted(c, FreeFd)),
         conn' = [conn EXCEPT ![c].st = "open"]
  PROVE  SessionsInv'
<1> DEFINE n == Len(allses)
           s == Accepted(c, FreeFd)
<1>1. /\ n \in Nat /\ DOMAIN allses = 1 .. n /\ IsSequence(allses)
      /\ c \in Client /\ conn[c].st = "waiting"
  BY SessionsAre DEF Waiting
<1>2. FreeFd \in Fd \ OpenFds
  BY FdAssumption, MinIsFirst DEF FreeFd
<1>3. \A i \in DOMAIN allses : allses[i].who # c /\ allses[i].fd # FreeFd
  <2>1. \A i \in DOMAIN allses : allses[i].who # c
    BY <1>1, SessionsAre, ServerAssumption DEF Holds
  <2> QED
    BY <1>2, <2>1 DEF OpenFds
<1>4. conn[c] = [Closed EXCEPT !.st = "waiting"]
  BY <1>1, <1>3 DEF SessionsInv, Paired, Unserved, Closed
<1> DEFINE k == [Closed EXCEPT !.st = "open"]
<1>5. /\ k \in Connection /\ conn'[c] = k /\ conn' \in [Client -> Connection]
      /\ \A x \in Client : x # c => conn'[x] = conn[x]
  <2>1. k \in Connection
    BY ClosedIsOne DEF Connection
  <2>2. conn' = [conn EXCEPT ![c] = k]
    BY <1>4 DEF SessionsInv, Closed
  <2> QED
    BY <1>1, <2>1, <2>2 DEF SessionsInv
<1>6. /\ s \in SessionType /\ s.who = c /\ s.fd = FreeFd /\ s.hello = FALSE /\ s.have = 0
  BY <1>1, <1>2 DEF Accepted, AcceptedAs, SessionType
<1>7. Holds(s, k)
  <2>1. /\ k.st = "open" /\ k.left = 0 /\ k.sent = 0 /\ k.done = 0
        /\ k.msg = << >> /\ k.msg # <<"HELLO">>
    BY DEF Closed
  <2> QED
    BY <1>6, <2>1 DEF Holds
<1> HIDE DEF s, k, n
<1>8. /\ IsSequence(allses') /\ DOMAIN allses' = 1 .. n + 1 /\ Len(allses') = n + 1
      /\ allses'[n + 1] = s
      /\ \A i \in 1 .. n : allses'[i] = allses[i]
  <2>1. allses' = Append(allses, s) /\ n = Len(allses)
    BY DEF s, n
  <2>2. /\ IsSequence(allses') /\ Len(allses') = n + 1
        /\ allses'[n + 1] = s
        /\ \A i \in 1 .. n : allses'[i] = allses[i]
    BY <1>1, <2>1, AppendSequence
  <2> QED
    BY <2>2, LenOfSequence
<1>9. \A i \in 1 .. n + 1 : i \in 1 .. n \/ i = n + 1
  BY <1>1
<1>10. allses' \in Seq(SessionType)
  <2>1. \A i \in 1 .. n + 1 : allses'[i] \in SessionType
    BY <1>1, <1>6, <1>8, <1>9, SessionsAre
  <2> QED
    BY <1>8, <2>1, SequenceOver
<1>11. OneEach(allses')
  BY <1>1, <1>3, <1>6, <1>8, <1>9 DEF SessionsInv, OneEach
<1>12. ASSUME NEW i \in 1 .. n + 1, allses'[i].who # Server
       PROVE  Holds(allses'[i], conn'[allses'[i].who])
  <2>1. CASE i = n + 1
    BY <1>5, <1>6, <1>7, <1>8, <2>1
  <2>2. CASE i \in 1 .. n
    <3>1. allses'[i] = allses[i] /\ i \in DOMAIN allses
      BY <1>1, <1>8, <2>2
    <3>2. allses[i].who \in Client /\ Holds(allses[i], conn[allses[i].who]) /\ allses[i].who # c
      BY <1>3, <1>12, <3>1, SessionsAre
    <3> QED
      BY <1>5, <3>1, <3>2
  <2> QED
    BY <1>9, <2>1, <2>2
<1>13. ASSUME NEW x \in Client, \A i \in 1 .. n + 1 : allses'[i].who # x
       PROVE  Unserved(conn'[x])
  <2>1. x # c /\ \A i \in DOMAIN allses : allses[i].who # x
    <3>1. n + 1 \in 1 .. n + 1 /\ \A i \in 1 .. n : i \in 1 .. n + 1
      BY <1>1
    <3> QED
      BY <1>1, <1>6, <1>8, <1>13, <3>1
  <2> QED
    BY <1>5, <2>1 DEF SessionsInv, Paired
<1> QED
  BY <1>5, <1>8, <1>10, <1>11, <1>12, <1>13 DEF SessionsInv, Paired

-----------------------------------------------------------------------------
(* What the clients do.                                                    *)
LEMMA ClientsKeep == SessionsInv /\ Clients => SessionsInv'
<1> SUFFICES ASSUME SessionsInv, NEW c \in Client,
                    Connect(c) \/ Leave(c) \/ \E m \in Message[c] : Send(c, m),
                    allses' = allses
             PROVE  SessionsInv'
  BY DEF Clients
<1>1. conn[c] \in Connection /\ conn \in [Client -> Connection]
  BY DEF SessionsInv
<1>2. CASE Connect(c)
  <2> DEFINE k == [conn[c] EXCEPT !.st = "waiting"]
  <2>1. k \in Connection /\ conn' = [conn EXCEPT ![c] = k] /\ conn[c].st = "closed"
    BY <1>1, <1>2 DEF Connect, Connection
  <2>2. Unserved(conn[c]) => Unserved(k)
    BY <2>1 DEF Unserved, Closed
  <2> HIDE DEF k
  <2>3. \A s \in SessionType : ~ Holds(s, conn[c])
    BY <2>1 DEF Holds
  <2> QED
    BY <2>1, <2>2, <2>3, ConnectionChanges
<1>3. CASE Leave(c)
  <2>1. PICK how \in {"eof", "reset"} : conn' = [conn EXCEPT ![c].end = how]
    BY <1>3 DEF Leave
  <2> DEFINE k == [conn[c] EXCEPT !.end = how]
  <2>2. k \in Connection /\ conn' = [conn EXCEPT ![c] = k] /\ conn[c].st = "open"
    BY <1>1, <1>3, <2>1 DEF Leave, Connection
  <2>3. /\ k.st = conn[c].st /\ k.left = conn[c].left /\ k.sent = conn[c].sent
        /\ k.done = conn[c].done /\ k.msg = conn[c].msg /\ k.greeted = conn[c].greeted
    BY <1>1 DEF Connection
  <2> HIDE DEF k
  <2>4. ~ Unserved(conn[c])
    BY <2>2 DEF Unserved, Closed
  <2>5. \A s \in SessionType : Holds(s, conn[c]) => Holds(s, k)
    BY <2>3 DEF Holds
  <2> QED
    BY <2>2, <2>4, <2>5, ConnectionChanges
<1>4. ASSUME NEW m \in Message[c], Send(c, m) PROVE SessionsInv'
  <2> DEFINE g == conn[c].greeted \/ m = <<"HELLO">>
             k1 == [conn[c] EXCEPT !.msg = m]
             k2 == [k1 EXCEPT !.left = 2]
             k3 == [k2 EXCEPT !.sent = @ + 1]
             k == [k3 EXCEPT !.greeted = g]
  <2>1. /\ conn[c].st = "open" /\ conn[c].done = conn[c].sent /\ conn[c].sent < MaxSent
        /\ conn' = [conn EXCEPT ![c] = k]
    BY <1>1, <1>4 DEF Send, Connection
  <2>2. m \in Messages /\ g \in BOOLEAN /\ (conn[c].greeted \/ m = <<"HELLO">> => g)
    BY MessageAssumption
  <2>3. conn[c].sent + 1 \in 0 .. MaxSent
    BY <1>1, <2>1, MaxSentAssumption DEF Connection
  <2> HIDE DEF g
  <2>4. /\ k \in Connection
        /\ k.st = "open" /\ k.left = 2 /\ k.sent = conn[c].sent + 1 /\ k.msg = m
        /\ k.done = conn[c].done /\ k.greeted = g
    <3>1. /\ k1 \in Connection /\ k1.msg = m
          /\ k1.st = "open" /\ k1.sent = conn[c].sent /\ k1.done = conn[c].done
      BY <1>1, <2>1, <2>2 DEF Connection
    <3> HIDE DEF k1
    <3>2. /\ k2 \in Connection /\ k2.msg = m /\ k2.left = 2
          /\ k2.st = "open" /\ k2.sent = conn[c].sent /\ k2.done = conn[c].done
      BY <3>1 DEF Connection
    <3> HIDE DEF k2
    <3>3. /\ k3 \in Connection /\ k3.msg = m /\ k3.left = 2
          /\ k3.st = "open" /\ k3.sent = conn[c].sent + 1 /\ k3.done = conn[c].done
      BY <2>3, <3>2 DEF Connection
    <3> HIDE DEF k3
    <3> QED
      BY <2>2, <3>3 DEF Connection
  <2> HIDE DEF k
  <2>5. ~ Unserved(conn[c])
    BY <2>1 DEF Unserved, Closed
  <2>6. ASSUME NEW s \in SessionType, Holds(s, conn[c]) PROVE Holds(s, k)
    <3>1. /\ conn[c].left \in 0 .. 2 /\ s.have \in 0 .. 1 /\ conn[c].sent \in Nat /\ conn[c].done \in Nat
          /\ conn[c].sent = conn[c].done + (IF conn[c].left + s.have > 0 THEN 1 ELSE 0)
      BY <1>1, <2>6, MaxSentAssumption DEF Holds, Connection, SessionType
    <3>2. s.have = 0
      BY <2>1, <3>1
    <3>3. s.hello \/ m = <<"HELLO">> => k.greeted
      BY <2>2, <2>4, <2>6 DEF Holds
    <3>4. k.left + s.have = 2 /\ k.sent = k.done + 1
      BY <2>1, <2>4, <3>1, <3>2
    <3> QED
      BY <2>2, <2>4, <3>3, <3>4 DEF Holds
  <2> QED
    BY <2>1, <2>4, <2>5, <2>6, ConnectionChanges
<1> QED
  BY <1>2, <1>3, <1>4

(* The session the pass looks at.                                          *)
LEMMA ServedSession ==
  ASSUME TablesInv, SessionsInv, at.pc = "serve"
  PROVE  /\ at.k \in DOMAIN allses /\ Session \in SessionType
         /\ Session.who # Server => /\ Session.who \in Client
                                    /\ conn[Session.who] \in Connection
                                    /\ Holds(Session, conn[Session.who])
<1>1. at.k \in DOMAIN allses
  <2>1. Len(polltable) \in Nat
    BY LenOfSequence DEF TablesInv
  <2> QED
    BY <2>1, SessionsAre DEF TablesInv
<1> QED
  BY <1>1, SessionsAre DEF Session, SessionsInv

(* A part that was read, and a message that was handled.                   *)
LEMMA PartKeeps ==
  ASSUME TablesInv, SessionsInv, at.pc = "serve", Session.who # Server,
         NEW n \in 1 .. conn[Session.who].left, RecvPart(n)
  PROVE  SessionsInv'
<1> DEFINE c == Session.who
           s == [Session EXCEPT !.have = @ + n]
           k == [conn[c] EXCEPT !.left = @ - n]
<1>1. /\ at.k \in DOMAIN allses /\ Session \in SessionType /\ c \in Client
      /\ conn[c] \in Connection /\ Holds(Session, conn[c])
  BY ServedSession
<1>2. /\ allses' = [allses EXCEPT ![at.k] = s] /\ conn' = [conn EXCEPT ![c] = k]
      /\ Session.have + n # 2
  BY DEF RecvPart, Taken, Session
<1>3. conn[c].left \in 0 .. 2 /\ Session.have \in 0 .. 1 /\ n \in 1 .. 2 /\ n <= conn[c].left
  BY <1>1 DEF Connection, SessionType
<1>4. conn[c].left + Session.have = 2 /\ Session.have + n = 1 /\ conn[c].left - n = 1
  BY <1>1, <1>2, <1>3 DEF Holds
<1>5. s \in SessionType /\ s.who = c /\ s.fd = Session.fd /\ s.have = 1 /\ s.hello = Session.hello
  BY <1>1, <1>4 DEF SessionType
<1>6. /\ k \in Connection /\ k.left = 1
      /\ k.st = conn[c].st /\ k.sent = conn[c].sent /\ k.done = conn[c].done
      /\ k.msg = conn[c].msg /\ k.greeted = conn[c].greeted
  BY <1>1, <1>4 DEF Connection
<1> HIDE DEF s, k
<1>7. Holds(s, k)
  BY <1>1, <1>4, <1>5, <1>6 DEF Holds
<1> QED
  BY <1>1, <1>2, <1>5, <1>6, <1>7, SessionChanges DEF Session

LEMMA MessageKeeps ==
  ASSUME TablesInv, SessionsInv, at.pc = "serve", Session.who # Server,
         NEW n \in 1 .. conn[Session.who].left, RecvMessage(n)
  PROVE  SessionsInv'
<1> DEFINE c == Session.who
           m == conn[c].msg
           g == Session.hello \/ m = <<"HELLO">>
           s1 == [Session EXCEPT !.have = 0]
           s == [s1 EXCEPT !.hello = g]
           k1 == [conn[c] EXCEPT !.left = @ - n]
           k2 == [k1 EXCEPT !.done = @ + 1]
           k == [k2 EXCEPT !.msg = << >>]
<1>1. /\ at.k \in DOMAIN allses /\ Session \in SessionType /\ c \in Client
      /\ conn[c] \in Connection /\ Holds(Session, conn[c])
  BY ServedSession
<1>2. CASE DeleteSes(allses)
  BY <1>1, <1>2, SessionGoes DEF DeleteSes, Session
<1>3. CASE ~ Unwelcome(Session, m)
  <2>1. /\ allses' = [allses EXCEPT ![at.k] = s] /\ conn' = [conn EXCEPT ![c] = k]
        /\ Session.have + n = 2
    <3>1. conn' = [conn EXCEPT ![c].left = @ - n, ![c].done = @ + 1, ![c].msg = << >>]
          /\ allses' = [allses EXCEPT ![at.k] =
                           [Session EXCEPT !.have = 0, !.hello = @ \/ m = <<"HELLO">>]]
          /\ Session.have + n = 2
      BY <1>3 DEF RecvMessage, Taken
    <3>2. conn' = [conn EXCEPT ![c] = k]
      BY <1>1, <3>1 DEF SessionsInv, Connection
    <3>3. [Session EXCEPT !.have = 0, !.hello = @ \/ m = <<"HELLO">>] = s
      BY <1>1 DEF SessionType
    <3> QED
      BY <3>1, <3>2, <3>3
  <2>2. /\ conn[c].left \in 0 .. 2 /\ Session.have \in 0 .. 1 /\ n \in 1 .. 2 /\ n <= conn[c].left
        /\ conn[c].sent \in 0 .. MaxSent /\ conn[c].done \in 0 .. MaxSent
    BY <1>1 DEF Connection, SessionType
  <2>3. conn[c].left - n = 0 /\ conn[c].sent = conn[c].done + 1
    BY <1>1, <2>1, <2>2 DEF Holds
  <2>4. g \in BOOLEAN /\ (g => conn[c].greeted)
    BY <1>1 DEF Holds
  <2> HIDE DEF g
  <2>5. /\ s \in SessionType /\ s.who = c /\ s.fd = Session.fd /\ s.have = 0
        /\ s.hello = g
    <3>1. s1 \in SessionType /\ s1.who = c /\ s1.fd = Session.fd /\ s1.have = 0
      BY <1>1 DEF SessionType
    <3> HIDE DEF s1
    <3> QED
      BY <2>4, <3>1 DEF SessionType
  <2>6. /\ k \in Connection /\ k.left = 0 /\ k.st = conn[c].st /\ k.sent = conn[c].sent
        /\ k.done = conn[c].done + 1 /\ k.msg = << >> /\ k.greeted = conn[c].greeted
    <3>1. /\ k1 \in Connection /\ k1.left = 0 /\ k1.st = conn[c].st /\ k1.sent = conn[c].sent
          /\ k1.done = conn[c].done /\ k1.greeted = conn[c].greeted
      BY <1>1, <2>3 DEF Connection
    <3> HIDE DEF k1
    <3>2. conn[c].done + 1 \in 0 .. MaxSent
      BY <2>2, <2>3
    <3>3. /\ k2 \in Connection /\ k2.left = 0 /\ k2.st = conn[c].st /\ k2.sent = conn[c].sent
          /\ k2.done = conn[c].done + 1 /\ k2.greeted = conn[c].greeted
      BY <3>1, <3>2 DEF Connection
    <3> HIDE DEF k2
    <3> QED
      BY <3>3 DEF Connection
  <2> HIDE DEF s, k, m
  <2>8. Holds(s, k)
    <3>1. << >> # <<"HELLO">>
      OBVIOUS
    <3>2. k.left + s.have = 0 /\ k.sent = k.done + 0 /\ k.st = "open"
      BY <1>1, <2>2, <2>3, <2>5, <2>6 DEF Holds
    <3> QED
      BY <2>4, <2>5, <2>6, <3>1, <3>2 DEF Holds
  <2> QED
    BY <1>1, <2>1, <2>5, <2>6, <2>8, SessionChanges DEF Session
<1> QED
  BY <1>2, <1>3 DEF RecvMessage

LEMMA SessionsStep == TablesInv /\ SessionsInv /\ [Next]_vars => SessionsInv'
<1> SUFFICES ASSUME TablesInv, SessionsInv, [Next]_vars PROVE SessionsInv'
  OBVIOUS
<1>1. CASE UNCHANGED <<allses, conn>>
  BY <1>1 DEF SessionsInv
<1>2. CASE Clients
  BY <1>2, ClientsKeep
<1>3. ASSUME at.pc = "serve", DeleteSes(allses) PROVE SessionsInv'
  BY <1>3, ServedSession, SessionGoes DEF DeleteSes, Session
<1>4. CASE PollError
  BY <1>3, <1>4 DEF PollError, Serving
<1>5. CASE Accept
  BY <1>3, <1>5, SessionComes DEF Accept, Serving
<1>6. CASE Recv
  BY <1>3, <1>6, PartKeeps, MessageKeeps DEF Recv, Serving, RecvEnd
<1> QED
  BY <1>1, <1>2, <1>4, <1>5, <1>6 DEF Next, Loop, RunAndPoll, Pass, EndPass, vars

LEMMA SessionsInit == Init => SessionsInv
<1> SUFFICES ASSUME Init PROVE SessionsInv
  OBVIOUS
<1>1. Listener \in SessionType /\ Listener.who = Server
  BY FdAssumption DEF Listener, SessionType
<1>2. /\ allses \in Seq(SessionType) /\ DOMAIN allses = {1} /\ allses[1].who = Server
  BY <1>1 DEF Init
<1>3. conn \in [Client -> Connection] /\ \A c \in Client : Unserved(conn[c])
  BY ClosedIsOne DEF Init
<1> QED
  BY <1>2, <1>3 DEF SessionsInv, OneEach, Paired

-----------------------------------------------------------------------------
(* Every message is handled once.                                          *)
LEMMA HaveOf ==
  ASSUME SessionsInv, NEW c \in Client, NEW i \in DOMAIN allses, allses[i].who = c
  PROVE  Outstanding(c) = conn[c].left + allses[i].have
<1> DEFINE U == {0} \cup {allses[j].have : j \in {m \in DOMAIN allses : allses[m].who = c}}
           h == allses[i].have
<1>1. h \in 0 .. 1
  BY SessionsAre DEF SessionType
<1>2. \A j \in DOMAIN allses : allses[j].who = c => j = i
  BY DEF SessionsInv, OneEach
<1>3. U = {0, h}
  BY <1>2
<1> HIDE DEF U, h
<1>4. U \subseteq 0 .. 1 /\ U # {}
  BY <1>1, <1>3
<1>5. Max(U) \in U /\ \A j \in U : j <= Max(U)
  BY <1>4, MaxIsLast
<1>6. Max(U) = h
  BY <1>1, <1>3, <1>5
<1> QED
  BY <1>6 DEF Outstanding, U, h

LEMMA HaveOfNone ==
  ASSUME SessionsInv, NEW c \in Client, \A i \in DOMAIN allses : allses[i].who # c
  PROVE  Outstanding(c) = conn[c].left + 0
<1> DEFINE U == {0} \cup {allses[j].have : j \in {m \in DOMAIN allses : allses[m].who = c}}
<1>1. U = {0}
  OBVIOUS
<1> HIDE DEF U
<1>2. Max(U) \in U
  <2>1. U \subseteq 0 .. 0 /\ U # {}
    BY <1>1
  <2> QED
    BY <2>1, MaxIsLast
<1> QED
  BY <1>1, <1>2 DEF Outstanding, U

(* Every message a client sends is handled once, when all of it has come,  *)
(* over the connection it was sent by: what is received for it and what is *)
(* still to come are a whole frame until it is handled, and a session that *)
(* gets the descriptor of an earlier one has nothing of its frame.         *)
THEOREM Handled == Spec => []HandledOnce
<1>1. SessionsInv => HandledOnce
  <2> SUFFICES ASSUME SessionsInv, NEW c \in Client
               PROVE  /\ Outstanding(c) \in {0, 1, 2}
                      /\ conn[c].sent = conn[c].done + (IF Outstanding(c) > 0 THEN 1 ELSE 0)
    BY DEF HandledOnce
  <2>1. CASE \E i \in DOMAIN allses : allses[i].who = c
    <3>1. PICK i \in DOMAIN allses : allses[i].who = c
      BY <2>1
    <3>2. Holds(allses[i], conn[c])
      BY <3>1, SessionsAre, ServerAssumption
    <3>3. Outstanding(c) = conn[c].left + allses[i].have
      BY <3>1, HaveOf
    <3> QED
      BY <3>2, <3>3 DEF Holds
  <2>2. CASE \A i \in DOMAIN allses : allses[i].who # c
    <3>1. conn[c].left = 0 /\ conn[c].sent = 0 /\ conn[c].done = 0
      BY <2>2 DEF SessionsInv, Paired, Unserved, Closed
    <3>2. Outstanding(c) = 0
      BY <2>2, <3>1, HaveOfNone
    <3> QED
      BY <3>1, <3>2
  <2> QED
    BY <2>1, <2>2
<1> QED
  BY TablesInit, TablesStep, CpusInit, CpusStep, SessionsInit, SessionsStep, <1>1, PTL DEF Spec

-----------------------------------------------------------------------------
(* Who starts and stops CPUs.                                              *)
LEMMA CpuChange ==
  ASSUME TablesInv, SessionsInv, [Next]_vars, allcpu' # allcpu
  PROVE  /\ \E c \in Client : conn[c].greeted /\ conn'[c].done = conn[c].done + 1
         /\ \E x \in Cpu : allcpu' = Start(x) \/ allcpu' = Stop(x)
<1> DEFINE c == Session.who
           m == conn[c].msg
<1>1. Recv /\ at.pc = "serve" /\ c # Server
  BY DEF Next, Clients, Loop, RunAndPoll, Pass, PollError, Accept, EndPass, vars, Recv, Serving
<1>2. /\ Session \in SessionType /\ c \in Client /\ conn[c] \in Connection /\ Holds(Session, conn[c])
  BY <1>1, ServedSession
<1>3. PICK n \in 1 .. conn[c].left : RecvMessage(n)
  BY <1>1 DEF Recv, RecvEnd, RecvPart
<1>4. /\ ~ Unwelcome(Session, m)
      /\ allcpu' = CpusAfter(m)
      /\ conn' = [conn EXCEPT ![c].left = @ - n, ![c].done = @ + 1, ![c].msg = << >>]
  BY <1>3 DEF RecvMessage
<1>5. m \in Messages
  BY <1>2, <1>3 DEF Holds, Connection, SessionType
<1>6. m \in {"START", "STOP"} \X Cpu
  <2>1. m[1] \in {"START", "STOP"}
    BY <1>4 DEF CpusAfter
  <2>2. m \notin {<<"HELLO">>, <<"PING">>, <<"SYNCALL">>}
    BY <2>1
  <2> QED
    BY <1>5, <2>2 DEF Messages
<1>7. m \notin {<<"HELLO">>, <<"PING">>}
  <2>1. m[1] \in {"START", "STOP"}
    BY <1>6
  <2> QED
    BY <2>1
<1>8. conn[c].greeted
  BY <1>2, <1>4, <1>7 DEF Unwelcome, Holds
<1>9. conn'[c].done = conn[c].done + 1
  BY <1>2, <1>4 DEF SessionsInv, Connection
<1>10. m[2] \in Cpu /\ (allcpu' = Start(m[2]) \/ allcpu' = Stop(m[2]))
  BY <1>4, <1>6 DEF CpusAfter
<1> QED
  BY <1>2, <1>8, <1>9, <1>10

(* A CPU is started or stopped only by a message that a client has sent    *)
(* after it said hello, over the same connection: a session that takes the *)
(* place, the descriptor or the client of another begins without it.       *)
THEOREM AfterHello == Spec => HelloFirst
<1>1. TablesInv /\ SessionsInv /\ [Next]_vars =>
        [allcpu' # allcpu =>
            \E c \in Client : conn[c].greeted /\ conn'[c].done = conn[c].done + 1]_vars
  BY CpuChange
<1> QED
  BY TablesInit, TablesStep, CpusInit, CpusStep, SessionsInit, SessionsStep, <1>1, PTL
     DEF Spec, HelloFirst

-----------------------------------------------------------------------------
(* Types.                                                                  *)
LEMMA CpusAreFew ==
  ASSUME CpusInv, allcpu \in Seq(Cpu)
  PROVE  Cardinality(Cpu) \in Nat /\ Len(allcpu) \in Nat /\ Len(allcpu) <= Cardinality(Cpu)
<1>1. Len(allcpu) \in Nat /\ DOMAIN allcpu = 1 .. Len(allcpu) /\ allcpu \in [1 .. Len(allcpu) -> Cpu]
  BY LenProperties
<1>2. \A i, j \in 1 .. Len(allcpu) : allcpu[i] = allcpu[j] => i = j
  BY <1>1 DEF CpusInv, RunsOnce, IsInjective
<1> QED
  BY <1>1, <1>2, DistinctAreFew, CpuAssumption

LEMMA SessionsAreFew ==
  ASSUME SessionsInv
  PROVE  Cardinality(Fd) \in Nat /\ 1 <= Cardinality(Fd) /\ Len(allses) <= Cardinality(Fd)
<1> DEFINE f == [i \in 1 .. Len(allses) |-> allses[i].fd]
<1>1. Len(allses) \in Nat /\ DOMAIN allses = 1 .. Len(allses)
  BY SessionsAre
<1>2. f \in [1 .. Len(allses) -> Fd]
  BY <1>1, SessionsAre DEF SessionType
<1>3. \A i, j \in 1 .. Len(allses) : f[i] = f[j] => i = j
  BY <1>1 DEF SessionsInv, OneEach
<1> HIDE DEF f
<1>4. Cardinality(Fd) \in Nat /\ Len(allses) <= Cardinality(Fd)
  BY <1>1, <1>2, <1>3, DistinctAreFew, FdAssumption
<1> DEFINE g == [i \in 1 .. 1 |-> 0]
<1>5. g \in [1 .. 1 -> Fd] /\ \A i, j \in 1 .. 1 : g[i] = g[j] => i = j
  BY FdAssumption
<1> HIDE DEF g
<1>6. 1 <= Cardinality(Fd)
  BY <1>5, DistinctAreFew, FdAssumption
<1> QED
  BY <1>4, <1>6

LEMMA CpusTyped ==
  ASSUME CpusInv, TablesInv, SessionsInv, allcpu \in Seq(Cpu), [Next]_vars
  PROVE  allcpu' \in Seq(Cpu)
<1>1. ASSUME NEW x \in Cpu PROVE Start(x) \in Seq(Cpu)
  BY <1>1, AppendProperties DEF Start
<1>2. ASSUME NEW x \in Cpu PROVE Stop(x) \in Seq(Cpu)
  <2>1. IsSequence(Stop(x)) /\ \A j \in 1 .. Len(Stop(x)) :
           \E m \in DOMAIN allcpu : Stop(x)[j] = allcpu[m]
    BY Stopped
  <2>2. \A m \in DOMAIN allcpu : allcpu[m] \in Cpu
    BY ElementOfSeq, LenProperties
  <2> HIDE DEF Stop
  <2> QED
    BY <2>1, <2>2, SequenceOver
<1> QED
  BY <1>1, <1>2, CpuChange

LEMMA PassStep ==
  TablesInv /\ CpusInv /\ SessionsInv /\ PassInv /\ [Next]_vars => PassInv'
<1> SUFFICES ASSUME TablesInv, CpusInv, SessionsInv, PassInv, [Next]_vars PROVE PassInv'
  OBVIOUS
<1>1. allcpu' \in Seq(Cpu)
  BY CpusTyped DEF PassInv
<1>2. ASSUME UNCHANGED <<polltable, revents, cux, at>> PROVE PassInv'
  BY <1>1, <1>2 DEF PassInv
<1>3. ASSUME at.pc = "serve", GoOn, UNCHANGED <<polltable, cux>> PROVE PassInv'
  <2>1. at.k + 1 \in Nat \ {0} /\ << >> \in Seq({"none", "in", "error"})
    BY EmptySeq DEF TablesInv
  <2>2. /\ at' \in [pc : {"run", "serve", "next"}, k : Nat \ {0}]
        /\ at'.pc # "serve" => at'.k = 1
    BY <1>3, <2>1 DEF GoOn, At
  <2>3. revents' \in Seq({"none", "in", "error"})
    BY <1>3, <2>1 DEF GoOn, PassInv
  <2> QED
    BY <1>1, <1>3, <2>2, <2>3 DEF PassInv
<1>4. ASSUME at.pc = "serve", DeleteSes(allses), UNCHANGED <<polltable, cux>> PROVE PassInv'
  <2>1. at' = At("next", 1) /\ revents' = << >>
    BY <1>4 DEF DeleteSes
  <2> QED
    BY <1>1, <1>4, <2>1, EmptySeq DEF PassInv, At
<1>5. CASE Clients
  BY <1>2, <1>5 DEF Clients
<1>6. CASE Pass
  BY <1>3, <1>6 DEF Pass
<1>7. CASE PollError
  BY <1>4, <1>7 DEF PollError, Serving
<1>8. CASE Accept
  BY <1>3, <1>4, <1>8 DEF Accept, Serving
<1>9. CASE Recv
  BY <1>3, <1>4, <1>9 DEF Recv, Serving, RecvEnd, RecvPart, RecvMessage
<1>10. CASE RunAndPoll
  <2>1. polltable' \in Seq(Fd)
    <3>1. Fds(allses) \in Seq(Fd)
      <4>1. Fds(allses) = [i \in DOMAIN allses |-> Fds(allses)[i]]
        BY DEF Fds
      <4>2. IsSequence(Fds(allses)) /\ Len(Fds(allses)) = Len(allses)
        BY <4>1, SessionsAre, MappedSequence
      <4>3. \A i \in 1 .. Len(allses) : Fds(allses)[i] \in Fd
        BY SessionsAre DEF Fds, SessionType
      <4> QED
        BY <4>2, <4>3, SequenceOver
    <3> QED
      BY <1>10, <3>1 DEF RunAndPoll, Polled, PassInv
  <2>2. revents' \in Seq({"none", "in", "error"})
    <3>1. \A s : Ready(s) \in {"none", "in", "error"}
      BY DEF Ready
    <3>2. \A fd : Event(fd) \in {"none", "in", "error"}
      BY <3>1 DEF Event
    <3>3. DOMAIN polltable' = 1 .. Len(polltable') /\ Len(polltable') \in Nat
      BY <2>1, LenProperties
    <3>4. revents' \in [1 .. Len(polltable') -> {"none", "in", "error"}]
      BY <1>10, <3>2, <3>3 DEF RunAndPoll
    <3> QED
      BY <3>3, <3>4, SeqDef
  <2>3. at' \in {At("next", 1), At("serve", 1)}
    BY <1>10 DEF RunAndPoll
  <2> QED
    BY <1>1, <1>10, <2>1, <2>2, <2>3 DEF RunAndPoll, PassInv, At
<1>11. CASE EndPass
  <2>1. Cardinality(Cpu) \in Nat /\ Len(allcpu) \in Nat /\ Len(allcpu) <= Cardinality(Cpu)
    BY CpusAreFew DEF PassInv
  <2>2. cux' <= Cardinality(Cpu)
    BY <1>11, <2>1 DEF EndPass, Wrapped, TablesInv
  <2>3. at' = At("run", 1) /\ UNCHANGED <<polltable, revents>>
    BY <1>11 DEF EndPass
  <2> QED
    BY <1>1, <2>2, <2>3 DEF PassInv, At
<1> QED
  BY <1>2, <1>5, <1>6, <1>7, <1>8, <1>9, <1>10, <1>11 DEF Next, Loop, vars

LEMMA PassInit == Init => PassInv
BY EmptySeq DEF Init, PassInv, At

(* The tables of the loop (main.cpp) and the connections have their types, *)
(* and the loop never counts farther than there are CPUs and descriptors.  *)
THEOREM TypeCorrect == Spec => []TypeOK
<1>1. TablesInv /\ CpusInv /\ SessionsInv /\ PassInv => TypeOK
  <2> SUFFICES ASSUME TablesInv, CpusInv, SessionsInv, PassInv PROVE TypeOK
    OBVIOUS
  <2>1. cux \in 0 .. Cardinality(Cpu)
    BY CpusAreFew DEF PassInv, TablesInv
  <2>2. at \in [pc : {"run", "serve", "next"}, k : 1 .. Cardinality(Fd)]
    <3>1. at.k \in Nat \ {0} /\ at.k <= Cardinality(Fd) /\ Cardinality(Fd) \in Nat
      <4>1. Len(polltable) \in Nat /\ Len(allses) \in Nat
        BY LenOfSequence DEF TablesInv
      <4> QED
        BY <4>1, SessionsAreFew DEF TablesInv, PassInv
    <3> QED
      BY <3>1 DEF PassInv
  <2> QED
    BY <2>1, <2>2 DEF TypeOK, PassInv, SessionsInv, SessionType
<1> QED
  BY TablesInit, TablesStep, CpusInit, CpusStep, SessionsInit, SessionsStep,
     PassInit, PassStep, <1>1, PTL DEF Spec
=============================================================================
