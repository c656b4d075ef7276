---------------------------- MODULE BlockDevice -----------------------------
(***************************************************************************)
(* What a program expects of a drive and its disk: one request at a time,  *)
(* which takes effect when it finishes, or not at all; a sector reads as   *)
(* what was last written to it.                                            *)
(***************************************************************************)
CONSTANTS Place, Value

VARIABLES
    content,    \* what each sector reads as
    request,    \* <<"read", place>>, <<"write", place, value>> or nothing
    got         \* <<place, value>> after a read, otherwise nothing

vars == <<content, request, got>>

Init ==
    /\ content \in [Place -> Value]
    /\ request = << >>
    /\ got = << >>

Ask ==
    /\ request = << >>
    /\ \E p \in Place :
          \/ request' = <<"read", p>>
          \/ \E v \in Value : request' = <<"write", p, v>>
    /\ got' = << >>
    /\ UNCHANGED content

Read ==
    /\ request # << >> /\ request[1] = "read"
    /\ got' = <<request[2], content[request[2]]>>
    /\ request' = << >>
    /\ UNCHANGED content

Write ==
    /\ request # << >> /\ request[1] = "write"
    /\ content' = [content EXCEPT ![request[2]] = request[3]]
    /\ request' = << >>
    /\ got' = << >>

Abort == request # << >> /\ request' = << >> /\ got' = << >> /\ UNCHANGED content

Forget == got' = << >> /\ UNCHANGED <<content, request>>

Next == Ask \/ Read \/ Write \/ Abort \/ Forget

Spec == Init /\ [][Next]_vars
=============================================================================
