------------------------------ MODULE ConnCache ------------------------------
(***************************************************************************)
(* What conn.Mgr promises the backup workers, without workers, mutex or   *)
(* retries: each store has at most one cached connection; a store without *)
(* one may get a fresh open connection; a store's connection may be       *)
(* closed and replaced by a fresh one or by none; shutting down closes    *)
(* every cached connection.  No connection is open unless it is cached.   *)
(***************************************************************************)
EXTENDS Naturals

CONSTANTS
    Stores,  \* store IDs
    Conns    \* connection identities

VARIABLES
    cache,   \* store -> its connection, 0 for none
    open,    \* the open connections
    shut     \* the manager has been closed

Cached == {cache[s] : s \in Stores} \ {0}

\* Connections that may be handed out as new.
Fresh == Conns \ (open \cup Cached)

Init == cache = [s \in Stores |-> 0] /\ open = {} /\ shut = FALSE

Dial(s) ==
    /\ ~shut /\ cache[s] = 0
    /\ \E c \in Fresh : cache' = [cache EXCEPT ![s] = c] /\ open' = open \cup {c}
    /\ UNCHANGED shut

Replace(s) ==
    LET rest == open \ {cache[s]}
    IN  /\ ~shut
        /\ \/ cache' = [cache EXCEPT ![s] = 0] /\ open' = rest
           \/ \E c \in Fresh : cache' = [cache EXCEPT ![s] = c] /\ open' = rest \cup {c}
        /\ UNCHANGED shut

Shutdown ==
    /\ ~shut /\ shut' = TRUE
    /\ open' = open \ Cached
    /\ UNCHANGED cache

Next == \E s \in Stores : Dial(s) \/ Replace(s) \/ Shutdown

Spec == Init /\ [][Next]_<<cache, open, shut>>
=============================================================================
