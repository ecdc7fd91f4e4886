------------------------------ MODULE DraftStore ------------------------------
(***************************************************************************)
(* What the browser's storage promises a tool pane, whatever the debounce, *)
(* the quota and the other tabs do.  It holds nothing, or the draft a tab  *)
(* shows at the moment it is kept, or the light form of one: never an      *)
(* older draft, nor the input of one with the result of another.  A tab    *)
(* opens on what is kept or on the first draft.                            *)
(***************************************************************************)
CONSTANTS Tabs, Drafts, Light(_), First, Nothing

VARIABLES screen,     \* the draft each tab shows
          kept        \* the draft in the storage, or Nothing

Change(t) == /\ \E d \in Drafts : screen' = [screen EXCEPT ![t] = d]
             /\ UNCHANGED kept

Keep(t) == kept' \in {screen[t], Light(screen[t])} /\ UNCHANGED screen

Forget(t) == kept' = Nothing /\ screen' = [screen EXCEPT ![t] = First]

Open(t) == /\ kept' \in {kept, Light(kept)}
           /\ \E d \in {kept', First} : screen' = [screen EXCEPT ![t] = d]

StoreNext == \E t \in Tabs : Change(t) \/ Keep(t) \/ Forget(t) \/ Open(t)

StoreSpec == [][StoreNext]_<<screen, kept>>
=============================================================================
