----------------------------- MODULE Broadcast -----------------------------
(***************************************************************************)
(* The WebSocket manager (routes.py, ConnectionManager): one list of open  *)
(* sockets, to which connections append, from which disconnections remove, *)
(* and over which every broadcast iterates, awaiting the send to each      *)
(* socket.  Python's loop over a list is an index into it, so that a       *)
(* removal before the index makes the loop pass over a socket.             *)
(***************************************************************************)
EXTENDS Naturals, Sequences, SequencesExt, Selection

CONSTANTS
    Sockets,       \* connections, numbered as they come: a page that reconnects
                   \* is a new one
    Broadcasts,    \* broadcasts: each is sent once
    NoSocket

ASSUME BroadcastAssumption == Sockets \subseteq Nat /\ NoSocket \notin Sockets

VARIABLES
    sockets,    \* ConnectionManager.active
    life,       \* life[w]: "new", "open", "broken" (the peer is gone, which
                \* nobody has noticed), "closed"
    bc,         \* bc[b]: a broadcast's loop: the index, the socket whose send
                \* it awaits, the sockets whose send failed
    got,        \* got[b]: the sends of b that came through
    due         \* history: due[b]: the sockets that were in the list when b
                \* began and have stayed open, as long as no socket was removed

bcVars == <<sockets, life, bc, got, due>>

Loop == [at : {"new", "next", "send", "dead", "over"}, i : Nat,
         to : Sockets \cup {NoSocket}, dead : SUBSET Sockets]
NotStarted == [at |-> "new", i |-> 0, to |-> NoSocket, dead |-> {}]
UnderWay(b) == bc[b].at \notin {"new", "over"}

BcInit ==
    /\ sockets = <<>>
    /\ life = [w \in Sockets |-> "new"]
    /\ bc = [b \in Broadcasts |-> NotStarted]
    /\ got = [b \in Broadcasts |-> <<>>]
    /\ due = [b \in Broadcasts |-> {}]

\* connect, after its await of accept.
Connect(w) ==
    /\ life[w] = "new"
    /\ \A v \in Sockets : v < w => life[v] # "new"
    /\ life' = [life EXCEPT ![w] = "open"]
    /\ sockets' = Append(sockets, w)
    /\ UNCHANGED <<bc, got, due>>

\* The peer goes away without a word: sends will fail.
Break(w) ==
    /\ life[w] = "open"
    /\ life' = [life EXCEPT ![w] = "broken"]
    /\ due' = [b \in Broadcasts |-> due[b] \ {w}]
    /\ UNCHANGED <<sockets, bc, got>>

\* disconnect: list.remove, if it is still in the list.  Whoever is behind it
\* moves up by one.
Drop(w) ==
    /\ sockets' = Only(sockets, Sockets \ {w})
    /\ due' = [b \in Broadcasts |->
                 IF UnderWay(b) /\ Contains(sockets, w) THEN {} ELSE due[b] \ {w}]

\* receive_text raises WebSocketDisconnect.
Disconnect(w) ==
    /\ life[w] \in {"open", "broken"}
    /\ life' = [life EXCEPT ![w] = "closed"]
    /\ Drop(w)
    /\ UNCHANGED <<bc, got>>

BroadcastBegins(b) ==
    /\ bc[b].at = "new"
    /\ bc' = [bc EXCEPT ![b].at = "next", ![b].i = 1]
    /\ due' = [due EXCEPT ![b] = {w \in ToSet(sockets) : life[w] = "open"}]
    /\ UNCHANGED <<sockets, life, got>>

\* Mutant of NextSocket: the loop stops before the last socket.
NextSocketButLast(b) ==
    LET loop == bc[b] IN
    /\ loop.at = "next"
    /\ bc' = [bc EXCEPT ![b] = IF loop.i < Len(sockets)
                               THEN [loop EXCEPT !.at = "send", !.to = sockets[loop.i]]
                               ELSE [loop EXCEPT !.at = "dead"]]
    /\ UNCHANGED <<sockets, life, got, due>>

\* The next socket of the list as it is now, or the end of the loop.
NextSocket(b) ==
    LET loop == bc[b] IN
    /\ loop.at = "next"
    /\ bc' = [bc EXCEPT ![b] = IF loop.i <= Len(sockets)
                               THEN [loop EXCEPT !.at = "send", !.to = sockets[loop.i]]
                               ELSE [loop EXCEPT !.at = "dead"]]
    /\ UNCHANGED <<sockets, life, got, due>>

\* The send returns, or raises and the socket is noted.
Sent(b) ==
    LET loop == bc[b]
        w    == loop.to
    IN
    /\ loop.at = "send"
    /\ bc' = [bc EXCEPT ![b] =
                 [at |-> "next", i |-> loop.i + 1, to |-> NoSocket,
                  dead |-> IF life[w] = "open" THEN loop.dead ELSE loop.dead \cup {w}]]
    /\ got' = IF life[w] = "open" THEN [got EXCEPT ![b] = Append(@, w)] ELSE got
    /\ UNCHANGED <<sockets, life, due>>

\* After the loop, without an await: the noted sockets are dropped.
DropDead(b) ==
    LET dead == bc[b].dead IN
    /\ bc[b].at = "dead"
    /\ sockets' = Only(sockets, Sockets \ dead)
    /\ due' = [c \in Broadcasts |->
                 IF c # b /\ UnderWay(c) /\ dead \cap ToSet(sockets) # {} THEN {}
                 ELSE due[c] \ dead]
    /\ bc' = [bc EXCEPT ![b].at = "over"]
    /\ UNCHANGED <<life, got>>

BcNext ==
    \/ \E w \in Sockets : Connect(w) \/ Break(w) \/ Disconnect(w)
    \/ \E b \in Broadcasts : BroadcastBegins(b) \/ NextSocket(b) \/ Sent(b) \/ DropDead(b)

BcSpec == BcInit /\ [][BcNext]_bcVars

-----------------------------------------------------------------------------
(* Properties *)

BcTypeOK ==
    /\ sockets \in Seq(Sockets)
    /\ life \in [Sockets -> {"new", "open", "broken", "closed"}]
    /\ bc \in [Broadcasts -> Loop]
    /\ got \in [Broadcasts -> Seq(Sockets)]
    /\ due \in [Broadcasts -> SUBSET Sockets]

\* routes.py:89: a broadcast that is over has reached every socket that was in
\* the list when it began and stayed open, unless some socket was removed from
\* the list while it was under way; sockets that broke, that came meanwhile,
\* and other broadcasts do not make it miss one.
ReachesTheOpen == \A b \in Broadcasts : bc[b].at \in {"dead", "over"} => due[b] \subseteq ToSet(got[b])

=============================================================================
