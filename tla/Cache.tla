------------------------------- MODULE Cache -------------------------------
(***************************************************************************)
(* What the server promises of its keys, with neither tables, entries nor  *)
(* reference counts.  A key has a value from the end of an upload until it *)
(* is deleted, dropped with its table, evicted, expired, or until the next *)
(* upload begins.  A client that asks for a key gets the value the key has *)
(* then, whole, whatever happens to the key meanwhile.                     *)
(***************************************************************************)
CONSTANTS Places,   \* a table name and a key
          Clients,
          Values,   \* the uploads that can be told apart
          None

VARIABLES value,    \* the value of each key, or None
          upload,   \* what is being uploaded to it, or None
          sent      \* what each client is being sent, or None

cache == <<value, upload, sent>>

InUse == {value[x] : x \in Places} \cup {upload[x] : x \in Places} \cup {sent[c] : c \in Clients}

Init ==
    /\ value = [x \in Places |-> None] /\ upload = [x \in Places |-> None]
    /\ sent = [c \in Clients |-> None]

\* The keys of gone lose their values, and what is being uploaded to them will
\* never be seen.
Without(f, gone) == [x \in Places |-> IF x \in gone THEN None ELSE f[x]]

Remove(gone) == value' = Without(value, gone) /\ upload' = Without(upload, gone) /\ UNCHANGED sent

\* An upload begins: the old value is gone, and nobody else uploads this key.
Begin(x, v, gone) ==
    /\ v \notin InUse /\ upload[x] = None
    /\ value' = Without(value, gone \cup {x})
    /\ upload' = [Without(upload, gone) EXCEPT ![x] = v]
    /\ UNCHANGED sent

Finish(x) ==
    /\ upload[x] # None
    /\ value' = [value EXCEPT ![x] = upload[x]]
    /\ upload' = [upload EXCEPT ![x] = None]
    /\ UNCHANGED sent

Serve(c, x) ==
    /\ value[x] # None /\ sent[c] = None
    /\ sent' = [sent EXCEPT ![c] = value[x]]
    /\ UNCHANGED <<value, upload>>

\* The end of an answer may be the moment at which a dropped table goes.
Done(c, gone) ==
    /\ sent' = [sent EXCEPT ![c] = None]
    /\ value' = Without(value, gone) /\ upload' = Without(upload, gone)

Next ==
    \/ \E gone \in SUBSET Places :
          \/ Remove(gone)
          \/ \E x \in Places, v \in Values : Begin(x, v, gone)
          \/ \E c \in Clients : Done(c, gone)
    \/ \E x \in Places : Finish(x) \/ \E c \in Clients : Serve(c, x)

Spec == Init /\ [][Next]_cache
=============================================================================
