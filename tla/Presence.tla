------------------------------- MODULE Presence -------------------------------
(***************************************************************************)
(* What users may rely on about each other: which connections are logged   *)
(* in and as whom, and that the friends of a user hear of it on every      *)
(* connection of theirs when the user comes online, with its first         *)
(* connection, and when it goes, with its last, exactly then and nobody    *)
(* else (server.c:288, :407).                                              *)
(*                                                                         *)
(* There are no packets, descriptors, trees or lists here.  Server         *)
(* implements this specification.                                          *)
(***************************************************************************)
EXTENDS Functions

CONSTANTS Users, Sockets

VARIABLES
    user_of,   \* the connections that are logged in: connection -> user
    friends,   \* the friends of each user
    told       \* the notices of the last step

vars == <<user_of, friends, told>>

Nobody == [c \in {} |-> c]

Online == Range(user_of)

\* The notice about v, on all connections of the friends of v.
Notices(type, v) ==
    {[to |-> c, type |-> type, about |-> v] :
        c \in {d \in DOMAIN user_of' : user_of'[d] \in friends[v]}}

Announced ==
    told' = (UNION {Notices("MSG_FRIEND_ONLINE", v) : v \in Online' \ Online})
            \union (UNION {Notices("MSG_FRIEND_OFFLINE", v) : v \in Online \ Online'})

Init ==
    /\ user_of = Nobody
    /\ friends \in [Users -> SUBSET Users]
    /\ told = {}

\* A connection logs in.
Come(c, u) ==
    /\ c \notin DOMAIN user_of
    /\ user_of' = [d \in DOMAIN user_of \union {c} |-> IF d = c THEN u ELSE user_of[d]]
    /\ Announced
    /\ UNCHANGED friends

\* Connections of one user leave: one of them on its own, or several that are
\* kicked.
Leave(C, u) ==
    /\ \A c \in C : c \in DOMAIN user_of /\ user_of[c] = u
    /\ user_of' = Restrict(user_of, DOMAIN user_of \ C)
    /\ Announced
    /\ UNCHANGED friends

\* Friendships begin and end while nobody comes or goes.
Befriend ==
    /\ friends' \in [Users -> SUBSET Users]
    /\ told' = {}
    /\ UNCHANGED user_of

\* The server ends: nobody is told.
Shutdown ==
    /\ user_of' = Nobody
    /\ told' = {}
    /\ UNCHANGED friends

Next ==
    \/ \E c \in Sockets, u \in Users : Come(c, u)
    \/ \E C \in SUBSET Sockets, u \in Users : Leave(C, u)
    \/ Befriend
    \/ Shutdown

Spec == Init /\ [][Next]_vars
==============================================================================
