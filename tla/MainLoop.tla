------------------------------ MODULE MainLoop ------------------------------
(***************************************************************************)
(* The loop of the emulator (main.cpp) and the network sessions it serves  *)
(* (session.cpp).  A pass of the loop gives one CPU its turn, polls the    *)
(* sockets of the sessions, receives from those that are ready, and picks  *)
(* the next CPU; a session that fails is deleted, and ends the pass.  The  *)
(* sockets to poll are in a table of their own, made anew only when it has *)
(* not the length of the table of sessions.                                *)
(*                                                                         *)
(* A frame is two parts, of which any number may have arrived.  Clients    *)
(* wait until a message was handled before they send more: whatever comes  *)
(* together with the end of a frame is dropped.  A part is no shorter than *)
(* the four bytes of the length.  The listener is the first session, the   *)
(* CPUs have memory, and the emulator is not in its debugging mode.        *)
(***************************************************************************)
EXTENDS Naturals, Sequences, FiniteSetsExt, SequencesExt

CONSTANTS
    Client,     \* places connections come from, one at a time
    Cpu,        \* the CPUs that were created
    Fd,         \* file descriptors the process may have open
    Server,     \* who is at the other end of the listening socket
    Message,    \* what each client sends; all not listed below is ignored
    MaxSent     \* bound: messages sent over one connection

ASSUME FdAssumption == Fd \subseteq Nat /\ 0 \in Fd /\ IsFiniteSet(Fd)
ASSUME CpuAssumption == IsFiniteSet(Cpu)
ASSUME ServerAssumption == Server \notin Client
ASSUME MaxSentAssumption == MaxSent \in Nat
Messages == {<<"HELLO">>, <<"PING">>, <<"SYNCALL">>} \cup ({"START", "STOP"} \X Cpu)
ASSUME MessageAssumption == Message \in [Client -> SUBSET Messages]

VARIABLES
    allses,     \* the sessions: [who, fd, hello, have], with have parts of a frame
    polltable,  \* the descriptors to poll
    revents,    \* what poll said of them, until the loop over them ends
    allcpu,     \* the CPUs that run
    cux,        \* index of the CPU to run, from 0
    at,         \* [pc, k]: where the loop is, and the entry it looks at
    conn        \* the connection of each client, as the client knows it

vars == <<allses, polltable, revents, allcpu, cux, at, conn>>

Closed == [st |-> "closed", end |-> "no", msg |-> << >>, left |-> 0,
           sent |-> 0, done |-> 0, greeted |-> FALSE]
Listener == [who |-> Server, fd |-> 0, hello |-> FALSE, have |-> 0]
At(pc, k) == [pc |-> pc, k |-> k]

Init ==
    /\ allses = <<Listener>>
    /\ polltable = << >>
    /\ revents = << >>
    /\ allcpu = << >>
    /\ cux = 0
    /\ at = At("run", 1)
    /\ conn = [c \in Client |-> Closed]

-----------------------------------------------------------------------------
(* The clients.  What one does before it is accepted is no different from  *)
(* doing it right afterwards: nothing looks at the connection until then.  *)

Connect(c) ==
    /\ conn[c].st = "closed"
    /\ conn' = [conn EXCEPT ![c].st = "waiting"]

(* All parts of the last message were taken, and with them the answer came.*)
Send(c, m) ==
    /\ conn[c].st = "open" /\ conn[c].end = "no"
    /\ conn[c].done = conn[c].sent /\ conn[c].sent < MaxSent
    /\ conn' = [conn EXCEPT ![c].msg = m, ![c].left = 2, ![c].sent = @ + 1,
                            ![c].greeted = @ \/ m = <<"HELLO">>]

(* The client closes: what it sent may still be read, or is lost with it.  *)
Leave(c) ==
    /\ conn[c].st = "open" /\ conn[c].end = "no"
    /\ \E how \in {"eof", "reset"} : conn' = [conn EXCEPT ![c].end = how]

Clients ==
    /\ \E c \in Client : Connect(c) \/ Leave(c) \/ \E m \in Message[c] : Send(c, m)
    /\ UNCHANGED <<allses, polltable, revents, allcpu, cux, at>>

-----------------------------------------------------------------------------
(* The end of a pass picks the next CPU.                                   *)

WrappedUnlessEmpty(n) == IF allcpu = << >> \/ n < Len(allcpu) THEN n ELSE 0
WrappedEarly(n) == IF n + 1 < Len(allcpu) THEN n ELSE 0
Wrapped(n) == IF n < Len(allcpu) THEN n ELSE 0

EndPass ==
    /\ at.pc = "next"
    /\ cux' = Wrapped(cux + 1)
    /\ at' = At("run", 1)
    /\ UNCHANGED <<allses, polltable, revents, allcpu, conn>>

-----------------------------------------------------------------------------
(* The sockets.                                                            *)

OpenFds == {allses[i].fd : i \in DOMAIN allses}
FreeFd == Min(Fd \ OpenFds)

Waiting == {c \in Client : conn[c].st = "waiting"}

(* What poll says of a session: a client that reset the connection makes   *)
(* an error, one that closed it makes it readable.                         *)
ReadyOnce(s) ==
    IF s.who = Server THEN IF Waiting # {} THEN "in" ELSE "none"
    ELSE IF conn[s.who].end = "reset" THEN "error"
    ELSE IF (conn[s.who].left > 0 /\ s.have = 0) \/ conn[s.who].end = "eof" THEN "in" ELSE "none"
Ready(s) ==
    IF s.who = Server THEN IF Waiting # {} THEN "in" ELSE "none"
    ELSE IF conn[s.who].end = "reset" THEN "error"
    ELSE IF conn[s.who].left > 0 \/ conn[s.who].end = "eof" THEN "in" ELSE "none"

(* A descriptor no session has any more is an error (POLLNVAL).            *)
Event(fd) ==
    IF fd \in OpenFds
      THEN Ready(allses[CHOOSE i \in DOMAIN allses : allses[i].fd = fd]) ELSE "error"

Fds(ses) == [i \in DOMAIN ses |-> ses[i].fd]
Polled == IF Len(polltable) # Len(allses) THEN Fds(allses) ELSE polltable

(* A pass begins with the turn of the CPU at cux, if there is one, which   *)
(* leaves all this as it is.                                               *)
RunAndPoll ==
    /\ at.pc = "run"
    /\ polltable' = Polled
    /\ revents' = [i \in DOMAIN Polled |-> Event(Polled[i])]
    /\ at' = At(IF Polled = << >> THEN "next" ELSE "serve", 1)
    /\ UNCHANGED <<allses, allcpu, cux, conn>>

-----------------------------------------------------------------------------
(* The entry at.k of the poll table, and the session there.                *)

Session == allses[at.k]
Ours == Session.fd = polltable[at.k]
Serving(ev) == at.pc = "serve" /\ Ours /\ revents[at.k] = ev

GoOn ==
    IF at.k < Len(polltable) THEN at' = At("serve", at.k + 1) /\ UNCHANGED revents
                             ELSE at' = At("next", 1) /\ revents' = << >>

(* Nothing to do, or not the session that was polled.                      *)
Pass ==
    /\ at.pc = "serve" /\ (Ours => revents[at.k] = "none")
    /\ GoOn
    /\ UNCHANGED <<allses, polltable, allcpu, cux, conn>>

(* isi_delete_ses closes the socket; the rest of the table is left for the *)
(* next pass.                                                              *)
DeleteGoesOn(ses) ==
    /\ allses' = RemoveAt(ses, at.k)
    /\ GoOn
    /\ conn' = [c \in Client |-> IF c = Session.who THEN Closed ELSE conn[c]]
DeleteSes(ses) ==
    /\ allses' = RemoveAt(ses, at.k)
    /\ at' = At("next", 1) /\ revents' = << >>
    /\ conn' = [c \in Client |-> IF c = Session.who THEN Closed ELSE conn[c]]

PollError ==
    /\ Serving("error")
    /\ DeleteSes(allses)
    /\ UNCHANGED <<polltable, allcpu, cux>>

(* isiSessionServer::Recv.  The files of disks take descriptors too: there *)
(* may be none left, and then the listener is deleted.                     *)
AcceptedAs(c, fd) == [who |-> c, fd |-> fd, hello |-> FALSE, have |-> 0]
AcceptedGreeted(c, fd) == [who |-> c, fd |-> fd, hello |-> TRUE, have |-> 0]
Accepted(c, fd) == AcceptedAs(c, fd)

Accept ==
    /\ Serving("in") /\ Session.who = Server
    /\ \/ DeleteSes(allses)
       \/ /\ ~ Fd \subseteq OpenFds
          /\ \E c \in Waiting :
               /\ allses' = Append(allses, Accepted(c, FreeFd))
               /\ conn' = [conn EXCEPT ![c].st = "open"]
          /\ GoOn
    /\ UNCHANGED <<polltable, allcpu, cux>>

-----------------------------------------------------------------------------
(* isiSessionClient::Recv                                                  *)

StartAgain(x) == Append(allcpu, x)
Start(x) == IF Contains(allcpu, x) THEN allcpu ELSE Append(allcpu, x)

(* isi_pop_cpu takes the first entry it finds.                             *)
FirstOf(x) == CHOOSE i \in DOMAIN allcpu :
                 allcpu[i] = x /\ \A j \in DOMAIN allcpu : allcpu[j] = x => i <= j
Stop(x) == IF Contains(allcpu, x) THEN RemoveAt(allcpu, FirstOf(x)) ELSE allcpu

(* handle_recv: what a message does to the table of CPUs.                  *)
CpusAfter(m) ==
    CASE m[1] = "START" -> Start(m[2])
      [] m[1] = "STOP" -> Stop(m[2])
      [] OTHER -> allcpu

(* handle_hello: before a hello all but echo requests end the session.     *)
Unwelcome(s, m) == ~s.hello /\ m \notin {<<"HELLO">>, <<"PING">>}

(* A closed connection has nothing left to read; one that was reset fails. *)
RecvEnd ==
    /\ \/ conn[Session.who].end = "reset"
       \/ conn[Session.who].end = "eof" /\ conn[Session.who].left = 0
    /\ DeleteSes(allses)
    /\ UNCHANGED allcpu

(* A frame is handled when all of it is there.                             *)
TakenAtOnce(n) == TRUE
Taken(n) == Session.have + n = 2

RecvPart(n) ==
    LET c == Session.who IN
    /\ ~Taken(n)
    /\ allses' = [allses EXCEPT ![at.k].have = @ + n]
    /\ conn' = [conn EXCEPT ![c].left = @ - n]
    /\ GoOn
    /\ UNCHANGED allcpu

RecvMessage(n) ==
    LET c == Session.who
        m == conn[c].msg
        s == [Session EXCEPT !.have = 0, !.hello = @ \/ m = <<"HELLO">>]
    IN  /\ Taken(n)
        /\ IF Unwelcome(Session, m)
             THEN DeleteSes(allses) /\ UNCHANGED allcpu
             ELSE /\ allses' = [allses EXCEPT ![at.k] = s]
                  /\ allcpu' = CpusAfter(m)
                  /\ conn' = [conn EXCEPT ![c].left = @ - n, ![c].done = @ + 1,
                                          ![c].msg = << >>]
                  /\ GoOn

Recv ==
    /\ Serving("in") /\ Session.who # Server
    /\ \/ RecvEnd
       \/ /\ conn[Session.who].end # "reset"
          /\ \E n \in 1 .. conn[Session.who].left : RecvPart(n) \/ RecvMessage(n)
    /\ UNCHANGED <<polltable, cux>>

Loop == RunAndPoll \/ Pass \/ PollError \/ Accept \/ Recv \/ EndPass

Next == Clients \/ Loop

Spec == Init /\ [][Next]_vars

(* The loop never blocks: the poll has no timeout, and the sockets do not  *)
(* wait.  Clients need never do anything.                                  *)
FairSpec == Spec /\ WF_vars(Loop)

-----------------------------------------------------------------------------
Connection ==
    [st : {"closed", "waiting", "open"}, end : {"no", "eof", "reset"},
     msg : Messages \cup {<< >>}, left : 0 .. 2,
     sent : 0 .. MaxSent, done : 0 .. MaxSent, greeted : BOOLEAN]

TypeOK ==
    /\ allses \in Seq([who : Client \cup {Server}, fd : Fd, hello : BOOLEAN, have : 0 .. 1])
    /\ polltable \in Seq(Fd)
    /\ revents \in Seq({"none", "in", "error"})
    /\ allcpu \in Seq(Cpu)
    /\ cux \in 0 .. Cardinality(Cpu)
    /\ at \in [pc : {"run", "serve", "next"}, k : 1 .. Cardinality(Fd)]
    /\ conn \in [Client -> Connection]

(* No table is read past its end: neither that of the CPUs, when one that  *)
(* ran before was stopped, nor that of the sessions, which is indexed by   *)
(* the loop over the poll table while sessions come and go.                *)
IndexesInRange ==
    /\ at.pc = "run" /\ allcpu # << >> => cux < Len(allcpu)
    /\ at.pc = "serve" => at.k <= Len(allses) /\ at.k <= Len(revents)

(* A CPU runs once a round, however many clients start it.                 *)
RunsOnce == IsInjective(allcpu)

(* Every message is handled once, when all of it has come, over the        *)
(* connection it was sent by and never by a later session that has got the *)
(* same descriptor.                                                        *)
Outstanding(c) == conn[c].left + Max({0} \cup {allses[i].have : i \in
                        {j \in DOMAIN allses : allses[j].who = c}})
HandledOnce ==
    \A c \in Client :
        /\ Outstanding(c) \in {0, 1, 2}
        /\ conn[c].sent = conn[c].done + (IF Outstanding(c) > 0 THEN 1 ELSE 0)

(* Only a client that has said hello over its present connection starts    *)
(* and stops CPUs.                                                         *)
HelloFirst ==
    [][allcpu' # allcpu =>
        \E c \in Client : conn[c].greeted /\ conn'[c].done = conn[c].done + 1]_vars

(* Every CPU that is not stopped gets its turn again and again, whatever   *)
(* other CPUs are started and stopped meanwhile.                           *)
Turn(x) == at.pc = "run" /\ allcpu # << >> /\ allcpu[cux + 1] = x
EveryCpuRuns == \A x \in Cpu : []<>(Turn(x) \/ ~Contains(allcpu, x))

(* What a connected client sent is received.                               *)
Unread(c) == conn[c].st = "open" /\ conn[c].end = "no" /\ conn[c].left > 0
Served == \A c \in Client : Unread(c) ~> ~Unread(c)

(* It is, once the poll table stays that of the sessions.                  *)
Aligned == at = At("serve", 1) => polltable = Fds(allses)
ServedWhenAligned ==
    <>[]Aligned => \A c \in Client : Unread(c) ~> ~Unread(c)
=============================================================================
