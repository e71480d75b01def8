----------------------------- MODULE ObjectMap -----------------------------
(***************************************************************************)
(* What the object cache of a PTP session promises to its users: a partial *)
(* map from object handles to what is known of the object.  A call names   *)
(* one handle and changes what is known of that handle only: it is added   *)
(* with nothing known of it, its information is filled in, or it is taken  *)
(* out again.  Only between calls is the map dropped and loaded anew.      *)
(***************************************************************************)
EXTENDS FiniteSets

CONSTANTS Handle,   \* object handles
          Info,     \* what the cache can know of an object
          NoInfo    \* a fresh entry: every field zero

VARIABLES cached,   \* a function whose domain is a subset of Handle
          handle,   \* the handle the last call named
          asking    \* a call that fetches an object has not returned

Empty == [h \in {} |-> NoInfo]

Init == cached = Empty /\ asking = FALSE

\* The three things that can happen to one handle.
Add(h) == /\ h \notin DOMAIN cached
          /\ cached' = [g \in DOMAIN cached \cup {h} |->
                          IF g = h THEN NoInfo ELSE cached[g]]
Learn(h) == /\ h \in DOMAIN cached
            /\ \E info \in Info : cached' = [cached EXCEPT ![h] = info]
Forget(h) == /\ h \in DOMAIN cached
             /\ cached' = [g \in DOMAIN cached \ {h} |-> cached[g]]

Ask == /\ ~asking /\ asking' = TRUE
       /\ handle' \in Handle
       /\ Add(handle') \/ UNCHANGED cached

Insert == asking /\ Add(handle) /\ UNCHANGED <<handle, asking>>

Answer == /\ asking /\ asking' = FALSE
          /\ Learn(handle) \/ Forget(handle) \/ UNCHANGED cached
          /\ UNCHANGED handle

Remove == /\ ~asking /\ UNCHANGED asking
          /\ handle' \in Handle /\ Forget(handle')

Drop == ~asking /\ cached' = Empty /\ UNCHANGED <<handle, asking>>

Load == /\ ~asking /\ cached = Empty
        /\ \E S \in SUBSET Handle : cached' \in [S -> Info]
        /\ UNCHANGED <<handle, asking>>

Next == Ask \/ Insert \/ Answer \/ Remove \/ Drop \/ Load

Spec == Init /\ [][Next]_<<cached, handle, asking>>
=============================================================================
