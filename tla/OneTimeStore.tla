---------------------------- MODULE OneTimeStore ----------------------------
(***************************************************************************)
(* What a store of single-use handles promises: whoever is let in opened   *)
(* the handle while it was live, and a handle that has been spent or has   *)
(* lapsed lets nobody in until it is put again.  An Atomic store (one that *)
(* erases under its mutex) lets in at most one caller per handle; a store  *)
(* that reads and then updates lets in those whose reads overlap.          *)
(***************************************************************************)
CONSTANTS
    Handles,  \* continuation tokens, tickets, request ids
    Callers,  \* requests in flight
    Atomic    \* does opening a handle take it away from everyone else?

VARIABLES
    live,     \* handles that may be opened
    inside    \* <<caller, handle>>: who has opened what

(* A new handle; others may lapse meanwhile.                               *)
Put == \E h \in Handles \ live, gone \in SUBSET live :
    /\ \A c \in Callers : <<c, h>> \notin inside
    /\ live' = (live \ gone) \cup {h}
    /\ UNCHANGED inside

Open == \E c \in Callers, h \in live :
    /\ inside' = inside \cup {<<c, h>>}
    /\ live' = IF Atomic THEN live \ {h} ELSE live

Spend == \E e \in inside :
    /\ live' = live \ {e[2]}
    /\ inside' = inside \ {e}

Leave == \E e \in inside :
    /\ inside' = inside \ {e}
    /\ UNCHANGED live

(* A caller gives its handle up and gets a new one for another attempt (a  *)
(* name only the caller knew may serve again).                             *)
Renew == \E e \in inside, h \in Handles \ live, gone \in SUBSET live :
    /\ \A c \in Callers : <<c, h>> \notin inside \ {e}
    /\ live' = (live \ gone) \cup {h}
    /\ inside' = inside \ {e}

Lapse == \E gone \in SUBSET live :
    /\ live' = live \ gone
    /\ \/ UNCHANGED inside
       \/ inside' = {}

StoreInit == live = {} /\ inside = {}
StoreNext == Put \/ Open \/ Spend \/ Leave \/ Renew \/ Lapse
StoreSpec == StoreInit /\ [][StoreNext]_<<live, inside>>
=============================================================================
