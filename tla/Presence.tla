------------------------------ MODULE Presence ------------------------------
(***************************************************************************)
(* What the relay server promises about who is reachable, without channels *)
(* queues or threads: an id has at most one owner; a program that has been *)
(* told it owns an id owns it until its connection is severed; a claim of  *)
(* an owned id severs the previous owner, never silently redirects it.     *)
(***************************************************************************)
CONSTANTS Ids, Conns, NoConn

VARIABLES
    owner,      \* owner[id]: the live connection that id is reached through
    told        \* <<c, id>>: c is alive and was told that it owns id

Init == owner = [i \in Ids |-> NoConn] /\ told = {}

OwnersWithout(S) == [i \in Ids |-> IF owner[i] \in S THEN NoConn ELSE owner[i]]
ToldWithout(S) == {t \in told : t[1] \notin S}

\* The connections of S end: closed, purged, or the server stops.
Sever(S) ==
    /\ owner' = OwnersWithout(S)
    /\ told' = ToldWithout(S)

\* c claims id.  Its previous owner, which may be c itself, is severed.
Claim(c, id) ==
    IF owner[id] = c THEN Sever({c})
    ELSE LET severed == {owner[id]} \ {NoConn} IN
         /\ owner' = [OwnersWithout(severed) EXCEPT ![id] = c]
         /\ told' \in {ToldWithout(severed), ToldWithout(severed) \cup {<<c, id>>}}

\* A program ends, or forgets what it was told; it may still be the owner.
Forget == owner' = owner /\ told' \subseteq told

Next ==
    \/ \E S \in SUBSET Conns : Sever(S)
    \/ \E c \in Conns, id \in Ids : Claim(c, id)
    \/ Forget

vars == <<owner, told>>
Spec == Init /\ [][Next]_vars

=============================================================================
