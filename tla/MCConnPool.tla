----------------------------- MODULE MCConnPool -----------------------------
(* Instances of ConnPool for TLC. *)
EXTENDS ConnPool, TLC

CONSTANTS r1, r2, c1, c2, h1, h2, s1, s2

\* Bounds on the second connection, which a Purge of one of two needs: it
\* is saved while the first is stored, with the first hosts only and while no
\* other handler than Get, Create and Delete runs; it is deleted before the first
\* one, and Get is not asked for it.  No bound stops a request that has started.
Small ==
  /\ c2 \in born =>
       /\ c1 \in born /\ (Stored(c2) => Stored(c1))
       /\ \A i \in Ids : saved[i] # h2
       /\ \A r \in Requests : at[r] # "write" /\ task[r] \notin {"import", "subs"}
  /\ \A r \in Requests :
       /\ id[r] \in born \/ at[r] \in {"idle", "import"}
       /\ id[r] = c2 => task[r] # "get"

MCNext == Next /\ Small'
MCSpec == Init /\ [][MCNext]_vars /\ Fairness
=============================================================================
