----------------------------- MODULE RuntimeSwitch -----------------------------
(***************************************************************************)
(* What an installation promises while it is updated, whatever throws, is  *)
(* killed or is rebooted.  It names one runtime, and that runtime is        *)
(* sound.  An update is open from the metadata it read to the metadata it  *)
(* writes; it moves the installation from the one to the other and back,   *)
(* as often as it is retried, and spoils its new runtime only while the    *)
(* installation is on the old one.  Updates follow each other.             *)
(***************************************************************************)
EXTENDS Naturals

CONSTANT Versions

VARIABLES pointer,    \* the metadata: the active and previous runtime, the generation
          sound,      \* the runtimes that would be started
          open        \* the update under way, at most one, as its two ends

Successor(v) == [active |-> v, previous |-> pointer.active, gen |-> pointer.gen + 1]

Init == pointer.active \in sound /\ open = {}

Begin == /\ open = {}
         /\ \E v \in Versions \ {pointer.active} :
              open' = {[from |-> pointer, to |-> Successor(v)]}
         /\ UNCHANGED <<pointer, sound>>

Place(u) == /\ pointer = u.from
            /\ sound' = sound \union {u.to.active}
            /\ UNCHANGED <<pointer, open>>

Switch(u) == /\ pointer = u.from
             /\ u.to.active \in sound
             /\ pointer' = u.to
             /\ UNCHANGED <<sound, open>>

Return(u) == /\ pointer = u.to
             /\ u.from.active \in sound
             /\ pointer' = u.from
             /\ UNCHANGED <<sound, open>>

Spoil(u) == /\ pointer = u.from
            /\ sound' = sound \ {u.to.active}
            /\ open' \in {open, {}}
            /\ UNCHANGED pointer

End == open' = {} /\ UNCHANGED <<pointer, sound>>

Next == Begin \/ End \/ \E u \in open : Place(u) \/ Switch(u) \/ Return(u) \/ Spoil(u)

Spec == Init /\ [][Next]_<<pointer, sound, open>>
=============================================================================
