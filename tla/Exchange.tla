------------------------------ MODULE Exchange ------------------------------
(***************************************************************************)
(* Clients' sessions (session.cpp) and the message exchange interfaces     *)
(* they subscribe to: a session keeps a pointer to its interface, and the  *)
(* interface one to its session, together with the session's number by     *)
(* which it could be told from another in the same memory.                 *)
(*                                                                         *)
(* Numbers are never given twice: here one is given again when nothing     *)
(* remembers it.  A session that was deleted is memory that was cleared    *)
(* and freed; whoever still points to it finds no session of its number.   *)
(***************************************************************************)
CONSTANTS
    Session,    \* numbers of sessions
    Cemei,      \* the interfaces
    NULL

ASSUME NullAssumption == NULL \notin Session \cup Cemei

VARIABLES
    allses,     \* the sessions there are
    ccmei,      \* the interface each session points to
    cem         \* the session each interface points to

sesVars == <<allses, ccmei, cem>>

SesInit ==
    /\ allses = {}
    /\ ccmei = [s \in Session |-> NULL]
    /\ cem = [c \in Cemei |-> NULL]

Subscribed(s) == {c \in Cemei : cem[c] = s}

(* isiSessionServer::Recv                                                  *)
Connect(s) ==
    /\ s \notin allses /\ Subscribed(s) = {}
    /\ allses' = allses \cup {s}
    /\ UNCHANGED <<ccmei, cem>>

(* ISE_SUBSCRIBE to an interface takes it from the session that had it; an *)
(* interface the session had before is not told.                           *)
Subscribe(s, c) ==
    /\ s \in allses
    /\ ccmei' = [t \in Session |->
            IF t = s THEN c ELSE IF t = cem[c] /\ t \in allses THEN NULL ELSE ccmei[t]]
    /\ cem' = [cem EXCEPT ![c] = s]
    /\ UNCHANGED allses

(* isi_delete_ses tells the interface the session points to.               *)
DeleteSesOnly(s) ==
    /\ s \in allses
    /\ allses' = allses \ {s}
    /\ ccmei' = [ccmei EXCEPT ![s] = NULL]
    /\ UNCHANGED cem
DeleteSes(s) ==
    /\ s \in allses
    /\ allses' = allses \ {s}
    /\ ccmei' = [ccmei EXCEPT ![s] = NULL]
    /\ cem' = [c \in Cemei |-> IF c = ccmei[s] THEN NULL ELSE cem[c]]

(* Clients that subscribe to one interface at a time; they lose it to      *)
(* others, and are not told.                                               *)
CarefulSubscribe(s, c) == Subscribed(s) \subseteq {c} /\ Subscribe(s, c)

-----------------------------------------------------------------------------
SesTypeOK ==
    /\ allses \subseteq Session
    /\ ccmei \in [Session -> Cemei \cup {NULL}]
    /\ cem \in [Cemei -> Session \cup {NULL}]

(* An interface points to a session that is there, and the two point to    *)
(* each other, however sessions took interfaces from others and ended:     *)
(* messages go to nobody else, and no deleted session is looked at.        *)
Subscriptions ==
    /\ \A c \in Cemei : cem[c] # NULL => cem[c] \in allses /\ ccmei[cem[c]] = c
    /\ \A s \in Session : ccmei[s] # NULL => cem[ccmei[s]] = s
=============================================================================
