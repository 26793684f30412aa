----------------------------- MODULE EpochSlot -----------------------------
(***************************************************************************)
(* What the Hub promises of a push connection fed by the bridge: it holds  *)
(* nothing, or a reading that was begun in the present epoch and came on   *)
(* the newest stream, and when the epoch moves on it holds nothing.        *)
(***************************************************************************)
EXTENDS Naturals

CONSTANTS Streams, Contents, None

VARIABLES epoch,   \* the slot's epoch
          stream,  \* the newest stream, or None
          held     \* what is held: contents, the epoch it was begun in, its stream

Init == epoch = 1 /\ stream = None /\ held = None

\* A stream is opened; what is held stays.
Open ==
    /\ \E s \in Streams : stream' = s
    /\ UNCHANGED <<epoch, held>>

\* A reading comes in.
Take ==
    /\ stream # None
    /\ \E x \in Contents : held' = [sql |-> x, era |-> epoch, via |-> stream]
    /\ UNCHANGED <<epoch, stream>>

\* The collection stops or starts, or the settings change.
Turn ==
    /\ epoch' = epoch + 1
    /\ held' = None
    /\ UNCHANGED stream

Next == Open \/ Take \/ Turn

Spec == Init /\ [][Next]_<<epoch, stream, held>>
=============================================================================
