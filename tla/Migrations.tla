----------------------------- MODULE Migrations -----------------------------
(***************************************************************************)
(* What postgres.Migrate promises of the schema, whatever replicas start,  *)
(* die or come back: the files are executed one at a time, a file only     *)
(* when all before it are applied, and a replica serves only over the      *)
(* complete schema, which nothing takes back.                              *)
(***************************************************************************)
EXTENDS Naturals

CONSTANTS Replicas, Sessions, NFiles

VARIABLES
    schema,     \* files that are applied
    running,    \* the session that executes a file, with the file
    serving     \* replicas that serve

vars == <<schema, running, serving>>

Init == schema = {} /\ running = {} /\ serving = {}

\* File f is sent, again perhaps.
Begin(s, f) ==
    /\ running = {}
    /\ 1 .. f - 1 \subseteq schema
    /\ running' = {<<s, f>>}
    /\ UNCHANGED <<schema, serving>>

\* Its transaction is committed, with or without a client, or rolled back.
End(s, f) ==
    /\ running = {<<s, f>>}
    /\ running' = {}
    /\ schema' \in {schema, schema \cup {f}}
    /\ UNCHANGED serving

Serve(r) ==
    /\ schema = 1 .. NFiles
    /\ serving' = serving \cup {r}
    /\ UNCHANGED <<schema, running>>

Stop(r) ==
    /\ serving' = serving \ {r}
    /\ UNCHANGED <<schema, running>>

Next ==
    \/ \E s \in Sessions, f \in 1 .. NFiles : Begin(s, f) \/ End(s, f)
    \/ \E r \in Replicas : Serve(r) \/ Stop(r)

Spec == Init /\ [][Next]_vars
=============================================================================
