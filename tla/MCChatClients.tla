--------------------------- MODULE MCChatClients ---------------------------
(* Windows and other clients, and names of which some differ by case only. *)
EXTENDS ChatClients

CONSTANTS s1, s2, s3, n1, n2, n3, r1

\* Two clients, of which one or both have a window.
MCTwoClients == {{s1}, {s1, s2}}

\* One client with a window, or all.
MCWindowSets == {{s1}, Sessions}

\* All names are told apart, or n1 and n2 differ by case only.
MCCaseFold == [n \in Names \cup {None} |-> n]
MCAlike == [MCCaseFold EXCEPT ![n2] = n1]

\* Two clients, with or without a window, two names and one request less.
TwoClients ==
    /\ thread[s3] = "absent"
    /\ \A s \in Sessions : Username[s] # n3
    /\ requests < MaxRequests

\* Three windows in one room.  Who has which name makes no difference, and nobody
\* chats, which changes no list.
ThreeWindows ==
    /\ AllWindows
    /\ Username[s1] \in {None, n1} /\ Username[s2] \in {None, n2} /\ Username[s3] \in {None, n3}
    /\ \A s \in Sessions : CurrentRoom[s] \in {None, r1} /\ chats[s] = <<>>
    /\ \A s \in Sessions : \A i \in DOMAIN pending[s] :
          pending[s][i][2].id \in {"UserEntered", "UserLeft"}

Bound == TwoClients \/ ThreeWindows
=============================================================================
