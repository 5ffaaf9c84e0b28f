-------------------------------- MODULE Outbox --------------------------------
(***************************************************************************)
(* What the notifier promises: messages are handed over one after the      *)
(* other; one is taken in unless the outbox is full or the bot is being    *)
(* stopped; what is taken in is dealt with in that order, each message     *)
(* once; none is cut off before the outbox shuts, none is left when it is  *)
(* shut.                                                                   *)
(***************************************************************************)
EXTENDS Naturals, Sequences

CONSTANT Capacity

VARIABLES
    last,       \* the number of the last message handed over
    pending,    \* the messages taken in and not dealt with
    stopping,   \* is the bot being stopped?
    phase       \* "open", "shutting" or "shut"

Init == last = 0 /\ pending = <<>> /\ stopping = FALSE /\ phase = "open"

TakeIn ==
    /\ phase = "open"
    /\ last' = last + 1
    /\ pending' = Append(pending, last + 1)
    /\ UNCHANGED <<stopping, phase>>

Refuse ==
    /\ phase = "open"
    /\ stopping \/ Len(pending) >= Capacity
    /\ last' = last + 1
    /\ UNCHANGED <<pending, stopping, phase>>

DealWith ==
    /\ phase # "shut"
    /\ pending # <<>>
    /\ pending' = Tail(pending)
    /\ UNCHANGED <<last, stopping, phase>>

Stop ==
    /\ stopping' = TRUE
    /\ UNCHANGED <<last, pending, phase>>

Shut ==
    /\ \/ phase = "open" /\ phase' = "shutting"
       \/ phase = "shutting" /\ pending = <<>> /\ phase' = "shut"
    /\ UNCHANGED <<last, pending, stopping>>

Next == TakeIn \/ Refuse \/ DealWith \/ Stop \/ Shut

Spec == Init /\ [][Next]_<<last, pending, stopping, phase>>
===============================================================================
