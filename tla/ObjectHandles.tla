---------------------------- MODULE ObjectHandles ----------------------------
(***************************************************************************)
(* What a host may rely on about the object handles of uMTP-Responder,     *)
(* without the database, the threads or the file system: a handle is given *)
(* once per session, to an object of a known folder and storage, an object *)
(* that was removed does not come back, and a new session starts over.     *)
(* ObjectDb is shown to implement this.                                    *)
(***************************************************************************)
EXTENDS Naturals

VARIABLES
  open,    \* a session is open
  object,  \* handle -> [parent, storage] of every object of the session
  live     \* handles of the objects that have not been removed

handleVars == <<open, object, live>>

NoObject == [h \in {} |-> 0]

Init == open = FALSE /\ object = NoObject /\ live = {}

Begin ==
  /\ ~open /\ open' = TRUE
  /\ object' = NoObject /\ live' = {}

End ==
  /\ open /\ open' = FALSE
  /\ object' = NoObject /\ live' = {}

\* A new handle is above all earlier ones, its folder is a storage root or an
\* object of the same storage that had its handle before.
WellPlaced(h) ==
  /\ \A g \in DOMAIN object : g < h
  /\ object'[h].parent # 0 =>
       /\ object'[h].parent \in DOMAIN object
       /\ object[object'[h].parent].storage = object'[h].storage

\* Objects are found, created and removed, any number of them.
Change ==
  /\ open /\ UNCHANGED open
  /\ DOMAIN object \subseteq DOMAIN object'
  /\ \A h \in DOMAIN object : object'[h] = object[h]
  /\ \A h \in DOMAIN object' \ DOMAIN object : WellPlaced(h)
  /\ live' \cap DOMAIN object \subseteq live
  /\ live' \subseteq DOMAIN object'

Next == Begin \/ End \/ Change

Spec == Init /\ [][Next]_handleVars

=============================================================================
