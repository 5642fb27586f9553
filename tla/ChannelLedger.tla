---------------------------- MODULE ChannelLedger ----------------------------
(***************************************************************************)
(* What the channel handlers promise about the Channel table and the voice *)
(* server together, with no requests, messages or failures: every channel  *)
(* is made for one client, the table holds at most one row of a client and *)
(* only for a channel made for that client, and a row is struck only after *)
(* its channel is gone.                                                    *)
(***************************************************************************)
CONSTANTS Clients, TsIds, None

VARIABLES
    rows,      \* the table: a set of [client, ts]
    madeFor,   \* madeFor[t]: the client channel t was made for, None if not made
    gone       \* the channels deleted on the voice server

lvars == <<rows, madeFor, gone>>

Init == /\ rows = {}
        /\ madeFor = [t \in TsIds |-> None]
        /\ gone = {}

Make(t, c) == /\ madeFor[t] = None
              /\ madeFor' = [madeFor EXCEPT ![t] = c]
              /\ UNCHANGED <<rows, gone>>

Lose(t) == /\ madeFor[t] # None
           /\ gone' = gone \cup {t}
           /\ UNCHANGED <<rows, madeFor>>

Record(t) == /\ madeFor[t] # None
             /\ \A row \in rows : row.client # madeFor[t] /\ row.ts # t
             /\ rows' = rows \cup {[client |-> madeFor[t], ts |-> t]}
             /\ UNCHANGED <<madeFor, gone>>

Strike(row) == /\ row.ts \in gone
               /\ rows' = rows \ {row}
               /\ UNCHANGED <<madeFor, gone>>

Next == \/ \E t \in TsIds : Lose(t) \/ Record(t) \/ \E c \in Clients : Make(t, c)
        \/ \E row \in rows : Strike(row)

Spec == Init /\ [][Next]_lvars
=============================================================================
