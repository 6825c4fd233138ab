----------------------------- MODULE RoleCache ------------------------------
(***************************************************************************)
(* Roles in the database (internal/security/pg_rbac.go, role_repo.go):      *)
(* every instance keeps a copy for a minute, and the first one to find no   *)
(* role writes those of its configuration file, a transaction for each role *)
(* and one for each user.  A role or user is a row that is there or not: no *)
(* unique index keeps two instances from writing one twice, with the same   *)
(* contents.                                                                *)
(***************************************************************************)
EXTENDS Naturals

CONSTANTS
  Instances,    \* processes that share the database
  ConfigRoles,  \* the roles of the configuration file
  UserRoles,    \* the users of the file and their roles
  MaxFaults     \* bound: crashes and failed statements

VARIABLES
  saved,     \* the roles and users that are in the database
  cached,    \* the copy of each instance: roles, users, and whether there is one
  fresh,     \* the copy is younger than cacheTTL
  loading,   \* where ensureLoaded is, and what it has read or has still to write
  faults     \* what has gone wrong so far

vars == <<saved, cached, fresh, loading, faults>>

Users == DOMAIN UserRoles
NoCopy == [there |-> FALSE, roles |-> {}, users |-> {}]
Idle == [at |-> "idle", roles |-> {}, todo |-> {}, again |-> FALSE]

Init ==
  /\ saved = [roles |-> {}, users |-> {}]
  /\ cached = [i \in Instances |-> NoCopy]
  /\ fresh = [i \in Instances |-> FALSE]
  /\ loading = [i \in Instances |-> Idle]
  /\ faults = 0

\* cacheTTL has passed.
Expire(i) ==
  /\ fresh[i] /\ fresh' = [fresh EXCEPT ![i] = FALSE]
  /\ UNCHANGED <<saved, cached, loading, faults>>

Stale(i) == ~fresh[i]

\* A permission is asked for and there is no fresh copy.  LoadRBACConfig reads the
\* roles first; the write lock keeps others of the process waiting.
ensureLoaded(i) ==
  /\ Stale(i) /\ loading[i].at = "idle"
  /\ loading' = [loading EXCEPT ![i] = [@ EXCEPT !.at = "users", !.roles = saved.roles]]
  /\ UNCHANGED <<saved, cached, fresh, faults>>

\* The users are read next.  No role at all is taken for a new database.
LoadUsers(i) ==
  /\ loading[i].at = "users"
  /\ IF loading[i].roles = {} /\ ~loading[i].again
     THEN /\ loading' = [loading EXCEPT ![i] = [@ EXCEPT !.at = "roles", !.todo = ConfigRoles]]
          /\ UNCHANGED <<cached, fresh>>
     ELSE /\ cached' = [cached EXCEPT ![i] = [there |-> TRUE, roles |-> loading[i].roles, users |-> saved.users]]
          /\ fresh' = [fresh EXCEPT ![i] = TRUE]
          /\ loading' = [loading EXCEPT ![i] = Idle]
  /\ UNCHANGED <<saved, faults>>

\* bootstrap, in the order in which Go visits a map: any.
SaveRole(i, r) ==
  /\ loading[i].at = "roles" /\ r \in loading[i].todo
  /\ saved' = [saved EXCEPT !.roles = @ \cup {r}]
  /\ LET left == loading[i].todo \ {r} IN
       loading' = [loading EXCEPT ![i] = [@ EXCEPT !.at = IF left = {} THEN "assign" ELSE "roles",
                                                   !.todo = IF left = {} THEN Users ELSE left]]
  /\ UNCHANGED <<cached, fresh, faults>>

AssignUserRole(i, u) ==
  /\ loading[i].at = "assign" /\ u \in loading[i].todo
  /\ UserRoles[u] \in saved.roles
  /\ saved' = [saved EXCEPT !.users = @ \cup {u}]
  /\ loading' = [loading EXCEPT ![i].todo = @ \ {u}]
  /\ UNCHANGED <<cached, fresh, faults>>

\* The configuration is read again after bootstrap.
Reload(i) ==
  /\ loading[i].at = "assign" /\ loading[i].todo = {}
  /\ loading' = [loading EXCEPT ![i] = [at |-> "users", roles |-> saved.roles, todo |-> {}, again |-> TRUE]]
  /\ UNCHANGED <<saved, cached, fresh, faults>>

\* A statement fails: the caller is refused, the copy stays as it was.
LoadFails(i) ==
  /\ loading[i].at # "idle"
  /\ faults < MaxFaults /\ faults' = faults + 1
  /\ loading' = [loading EXCEPT ![i] = Idle]
  /\ UNCHANGED <<saved, cached, fresh>>

Crash(i) ==
  /\ faults < MaxFaults /\ faults' = faults + 1
  /\ loading' = [loading EXCEPT ![i] = Idle]
  /\ cached' = [cached EXCEPT ![i] = NoCopy]
  /\ fresh' = [fresh EXCEPT ![i] = FALSE]
  /\ UNCHANGED saved

Loading(i) ==
  \/ ensureLoaded(i) \/ LoadUsers(i) \/ Reload(i)
  \/ \E r \in ConfigRoles : SaveRole(i, r)
  \/ \E u \in Users : AssignUserRole(i, u)

Next == \E i \in Instances : Expire(i) \/ Loading(i) \/ LoadFails(i) \/ Crash(i)

\* Time passes, and permissions are asked for again and again.
Fairness == \A i \in Instances : WF_vars(Expire(i)) /\ WF_vars(Loading(i))

Spec == Init /\ [][Next]_vars /\ Fairness

-----------------------------------------------------------------------------

TypeOK ==
  /\ saved \in [roles : SUBSET ConfigRoles, users : SUBSET Users]
  /\ cached \in [Instances -> [there : BOOLEAN, roles : SUBSET ConfigRoles, users : SUBSET Users]]
  /\ fresh \in [Instances -> BOOLEAN]
  /\ loading \in [Instances -> [at : {"idle", "users", "roles", "assign"}, roles : SUBSET ConfigRoles,
                                todo : SUBSET (ConfigRoles \cup Users), again : BOOLEAN]]
  /\ faults \in 0..MaxFaults

Complete(copy) == copy.roles = ConfigRoles /\ copy.users = Users

\* An instance may load the roles while another is still writing them, and then
\* decides without the missing ones; but only for a while: unless a bootstrap was
\* cut short, every instance ends up with all roles and users for good.
RolesConverge == <>[](faults = 0 => \A i \in Instances : Complete(cached[i]))

=============================================================================
