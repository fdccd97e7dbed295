------------------------------ MODULE BlobStore ------------------------------
(***************************************************************************)
(* What storage/minio/client.py promises the code that calls it: a call    *)
(* that returns has taken effect, or has looked at the store, at some      *)
(* moment while it was under way; a call that raises may have taken        *)
(* effect any number of times, or never.                                   *)
(***************************************************************************)
CONSTANTS Clients,    \* threads and tasks that call the store
          Paths,      \* object names
          Blobs,      \* contents
          NoBlob      \* no object of that name

VARIABLES store,      \* [Paths -> Blobs \cup {NoBlob}]
          req         \* the call of each client

vars == <<store, req>>

NoReq == [st |-> "idle"]

(* The content a write leaves under its path. *)
Written(r) == IF r.op = "put" THEN r.blob ELSE NoBlob

(* What a read of the store r answers. *)
View(r, s) == CASE r.op = "get"    -> {s[r.path]}
                [] r.op = "exists" -> {p \in {r.path} : s[p] # NoBlob}
                [] r.op = "list"   -> {p \in Paths : s[p] # NoBlob}
                [] OTHER           -> {}

Init == /\ store = [p \in Paths |-> NoBlob]
        /\ req = [c \in Clients |-> NoReq]

Fresh == [st : {"pending"}, op : {"ensure", "put", "get", "delete", "exists", "list"},
          path : Paths, blob : Blobs, seen : {FALSE}, got : {{}}]

Invoke(c) == /\ req[c].st # "pending"
             /\ req'[c] \in Fresh
             /\ req' = [req EXCEPT ![c] = req'[c]]
             /\ UNCHANGED store

(* The call takes effect, or looks: as often as it is attempted. *)
Effect(c) == /\ req[c].st = "pending"
             /\ store' = IF req[c].op \in {"put", "delete"}
                         THEN [store EXCEPT ![req[c].path] = Written(req[c])]
                         ELSE store
             /\ req' = [req EXCEPT ![c].seen = TRUE, ![c].got = View(req[c], store)]

(* Only a call that took effect returns; any call may raise. *)
Return(c) == /\ req[c].st = "pending"
             /\ req[c].seen
             /\ req' = [req EXCEPT ![c].st = "returned"]
             /\ UNCHANGED store

Raise(c) == /\ req[c].st = "pending"
            /\ req' = [req EXCEPT ![c].st = "raised"]
            /\ UNCHANGED store

(* The caller goes on, or dies while the call is under way. *)
Leave(c) == /\ req[c].st # "idle"
            /\ req' = [req EXCEPT ![c] = NoReq]
            /\ UNCHANGED store

Next == \E c \in Clients : Invoke(c) \/ Effect(c) \/ Return(c) \/ Raise(c) \/ Leave(c)

Spec == Init /\ [][Next]_vars
=============================================================================
