--------------------------- MODULE InstallationSync ---------------------------
(***************************************************************************)
(* The copy the backend keeps of what GitHub says about the installations  *)
(* of the app, their repositories and the users' roles, and from which     *)
(* every request is authorised.  Webhook deliveries and the users' own     *)
(* synchronisations write it (github_installation_service).  GitHub goes   *)
(* on changing, deliveries overtake each other or are lost, and a          *)
(* synchronisation applies what it fetched some HTTP calls ago.            *)
(*                                                                         *)
(* A transaction of the code is one step.                                  *)
(***************************************************************************)
EXTENDS Naturals, Sequences, FiniteSets, SequencesExt

CONSTANTS
    Users, Installations, Repos,
    Hooks,          \* handlers of deliveries that ask GitHub for the list
    Syncs,          \* the requests that synchronise a user, of any endpoint
    NoUser,         \* a sender who is not a user of the system
    MaxChanges,     \* bound: changes on GitHub
    MaxFailures     \* bound: handlers and synchronisations that fail

InstallationAssumption ==
    /\ NoUser \notin Users /\ "none" \notin Installations
    /\ MaxChanges \in Nat /\ MaxFailures \in Nat

VARIABLES
    standing, granted, role,      \* GitHub's truth
    deliveries,                   \* webhook deliveries not yet handled, oldest first
    installation, links, access,  \* the rows
    hook,                         \* what each handler fetched, NoListing for none
    sync,                         \* what each synchronisation is doing
    changes, failures,            \* counted for the bounds
    disturbed,                    \* history: installations, see Disturbing
    steady                        \* history: users whose syncs saw no change

github == <<standing, granted, role>>
rows == <<installation, links, access>>
vars == <<github, deliveries, rows, hook, sync, changes, failures, disturbed, steady>>

Role == {"none", "read", "admin"}
Access == [inst : Installations, admin : BOOLEAN]
NoAccess == [inst |-> "none", admin |-> FALSE]

Delivery == [kind : {"created", "deleted", "suspend", "unsuspend",
                     "new_permissions_accepted", "added", "removed"},
             inst : Installations, sender : Users \cup {NoUser}, repos : SUBSET Repos]

(* admin: what the listing says of the sender, if it says anything.        *)
NoListing == [kind |-> "none"]
Listing == [delivery : Delivery, seen : SUBSET Repos, admin : BOOLEAN]

(* user: whose rows it writes, that of no other user; visible: the         *)
(* installations listed; todo: those to come; at, seen: the one being      *)
(* synchronised and the role the user has on its repositories; doomed:     *)
(* rows marked for deletion, which the next commit deletes, whatever       *)
(* another synchronisation of the user has written to them.  A row is      *)
(* known here by its repository, in the code by its key: there a row that  *)
(* was deleted and written anew meanwhile is not the one that is doomed.   *)
NoSync == [step |-> "idle", user |-> NoUser, visible |-> {}, todo |-> {}, at |-> {},
           seen |-> [r \in Repos |-> "none"], doomed |-> {}]
Sync == [step : {"idle", "fetch", "apply"}, user : Users \cup {NoUser},
         visible : SUBSET Installations,
         todo : SUBSET Installations, at : SUBSET Installations,
         seen : [Repos -> Role], doomed : SUBSET Repos]

TypeOK ==
    /\ standing \in [Installations -> {"absent", "active", "suspended"}]
    /\ granted \in [Installations -> SUBSET Repos]
    /\ role \in [Users -> [Repos -> Role]]
    /\ deliveries \in Seq(Delivery)
    /\ installation \in [Installations -> {"absent", "active", "suspended", "deleted"}]
    /\ links \subseteq Installations \X Repos
    /\ access \in [Users -> [Repos -> Access \cup {NoAccess}]]
    /\ hook \in [Hooks -> Listing \cup {NoListing}]
    /\ sync \in [Syncs -> Sync]
    /\ changes \in 0..MaxChanges /\ failures \in 0..MaxFailures
    /\ disturbed \subseteq Installations /\ steady \subseteq Users

Init ==
    /\ standing = [i \in Installations |-> "absent"]
    /\ granted = [i \in Installations |-> {}]
    /\ role \in [Users -> [Repos -> Role]]
    /\ deliveries = <<>>
    /\ installation = [i \in Installations |-> "absent"]
    /\ links = {}
    /\ access = [u \in Users |-> [r \in Repos |-> NoAccess]]
    /\ hook = [h \in Hooks |-> NoListing]
    /\ sync = [s \in Syncs |-> NoSync]
    /\ changes = 0 /\ failures = 0
    /\ disturbed = {} /\ steady = {}

Linked(i) == {r \in Repos : <<i, r>> \in links}
(* What GET /user/installations/{i}/repositories answers.                  *)
Visible(u, i) == {r \in granted[i] : role[u][r] # "none"}

-----------------------------------------------------------------------------
(* GitHub                                                                  *)

Change ==
    /\ changes < MaxChanges
    /\ changes' = changes + 1
    /\ steady' = {}
    /\ UNCHANGED <<rows, hook, sync, failures, disturbed>>

Deliver(kind, i, repos) ==
    \E u \in {v \in Users : \A r \in repos : role[v][r] = "admin"} \cup {NoUser} :
        deliveries' = Append(deliveries,
            [kind |-> kind, inst |-> i, sender |-> u, repos |-> repos])

Stand(i, from, to) ==
    /\ standing[i] \in from
    /\ standing' = [standing EXCEPT ![i] = to]

Install(i, repos) ==
    /\ Change
    /\ Stand(i, {"absent"}, "active")
    /\ \A j \in Installations : granted[j] \cap repos = {}
    /\ granted' = [granted EXCEPT ![i] = repos]
    /\ Deliver("created", i, repos)
    /\ UNCHANGED role

Uninstall(i) ==
    /\ Change
    /\ Stand(i, {"active", "suspended"}, "absent")
    /\ granted' = [granted EXCEPT ![i] = {}]
    /\ Deliver("deleted", i, {})
    /\ UNCHANGED role

Suspend(i) ==
    /\ Change
    /\ Stand(i, {"active"}, "suspended")
    /\ Deliver("suspend", i, {})
    /\ UNCHANGED <<granted, role>>

(* These two events carry no repositories: the handler asks for them.      *)
Unsuspend(i) ==
    /\ Change
    /\ Stand(i, {"suspended"}, "active")
    /\ Deliver("unsuspend", i, {})
    /\ UNCHANGED <<granted, role>>

AcceptPermissions(i) ==
    /\ Change
    /\ Stand(i, {"active"}, "active")
    /\ Deliver("new_permissions_accepted", i, {})
    /\ UNCHANGED <<granted, role>>

Grant(i, r) ==
    /\ Change
    /\ standing[i] = "active"
    /\ \A j \in Installations : r \notin granted[j]
    /\ granted' = [granted EXCEPT ![i] = @ \cup {r}]
    /\ Deliver("added", i, {r})
    /\ UNCHANGED <<standing, role>>

Revoke(i, r) ==
    /\ Change
    /\ standing[i] = "active" /\ r \in granted[i]
    /\ granted' = [granted EXCEPT ![i] = @ \ {r}]
    /\ Deliver("removed", i, {r})
    /\ UNCHANGED <<standing, role>>

ChangeRole(u, r) ==
    /\ Change
    /\ \E new \in Role \ {role[u][r]} : role' = [role EXCEPT ![u][r] = new]
    /\ UNCHANGED <<standing, granted, deliveries>>

-----------------------------------------------------------------------------
(* The transactions                                                        *)

WithoutRows(table, i, repos) ==
    [u \in Users |-> [r \in Repos |->
        IF r \in repos /\ table[u][r].inst = i THEN NoAccess ELSE table[u][r]]]

(* Mutant of SyncInstallation: it forgets to mark the row active.          *)
SyncForgettingActive(i, table, repos, full) ==
    /\ installation' = [installation EXCEPT ![i] = IF @ = "absent" THEN "active" ELSE @]
    /\ links' = (IF full THEN links \ ({i} \X Repos) ELSE links) \cup ({i} \X repos)
    /\ access' = IF full THEN WithoutRows(table, i, Linked(i) \ repos) ELSE table
(* sync_installation_payload: the installation is active from here, its    *)
(* repositories are linked, and a full list removes the other links with   *)
(* the access rows that go through them.  table: the access rows, those of *)
(* the user written.                                                       *)
SyncInstallation(i, table, repos, full) ==
    /\ installation' = [installation EXCEPT ![i] = "active"]
    /\ links' = (IF full THEN links \ ({i} \X Repos) ELSE links) \cup ({i} \X repos)
    /\ access' = IF full THEN WithoutRows(table, i, Linked(i) \ repos) ELSE table

(* The user whom a webhook names gets access to every repository of it.    *)
SenderAccess(d, repos, admin) ==
    [u \in Users |-> [r \in Repos |->
        IF u = d.sender /\ r \in repos THEN [inst |-> d.inst, admin |-> admin]
                                       ELSE access[u][r]]]

(* Mutant of StatusAfter: the row is marked with the name of the event.    *)
StatusNamedByEvent(d) == d.kind
StatusAfter(d) == IF d.kind = "deleted" THEN "deleted" ELSE "suspended"

(* deactivate_installation: only a deleted installation loses its rows.    *)
Deactivate(d) ==
    IF installation[d.inst] = "absent"
    THEN UNCHANGED rows
    ELSE /\ installation' = [installation EXCEPT ![d.inst] = StatusAfter(d)]
         /\ IF d.kind = "deleted"
            THEN /\ links' = links \ ({d.inst} \X Repos)
                 /\ access' = WithoutRows(access, d.inst, Repos)
            ELSE UNCHANGED <<links, access>>

(* remove_installation_repositories.                                       *)
RemoveRepositories(d) ==
    /\ links' = links \ ({d.inst} \X d.repos)
    /\ access' = WithoutRows(access, d.inst, Linked(d.inst) \cap d.repos)
    /\ UNCHANGED installation

-----------------------------------------------------------------------------
(* Webhook deliveries                                                      *)

(* Somebody fetched something about i that is still to be applied.         *)
Fetched(i) ==
    \/ \E s \in Syncs : sync[s].step = "apply" /\ i \in sync[s].at
    \/ \E h \in Hooks : hook[h] # NoListing /\ hook[h].delivery.inst = i

(* Handling the k-th delivery disturbs its installation when an older one  *)
(* is still to be handled or somebody holds data from before it.           *)
Disturbing(k) ==
    LET i == deliveries[k].inst
    IN IF Fetched(i) \/ \E j \in 1..k - 1 : deliveries[j].inst = i THEN {i} ELSE {}

TakeDelivery(k) == deliveries' = RemoveAt(deliveries, k)

NeedsListing(d) ==
    d.kind \in {"created", "unsuspend", "new_permissions_accepted"} /\ d.repos = {}

(* _process_installation_event.                                            *)
HandleDelivery(k) ==
    LET d == deliveries[k]
    IN /\ ~NeedsListing(d)
       /\ TakeDelivery(k)
       /\ \/ d.kind \in {"deleted", "suspend"} /\ Deactivate(d)
          \/ d.kind = "removed" /\ RemoveRepositories(d)
          \/ /\ d.kind \notin {"deleted", "suspend", "removed"}
             /\ SyncInstallation(d.inst, SenderAccess(d, d.repos, TRUE), d.repos,
                                 d.kind = "created")
       /\ disturbed' = disturbed \cup Disturbing(k)
       /\ steady' = {}
       /\ UNCHANGED <<github, hook, sync, changes, failures>>

(* list_installation_repositories, with the token of the installation.     *)
ListRepositories(h, k) ==
    LET d == deliveries[k]
    IN /\ hook[h] = NoListing /\ NeedsListing(d)
       /\ standing[d.inst] = "active"
       /\ TakeDelivery(k)
       /\ \E admin \in BOOLEAN : hook' = [hook EXCEPT ![h] =
              [delivery |-> d, seen |-> granted[d.inst], admin |-> admin]]
       /\ disturbed' = disturbed \cup Disturbing(k)
       /\ UNCHANGED <<github, rows, sync, changes, failures, steady>>

ApplyListing(h) ==
    LET d == hook[h].delivery
    IN /\ hook[h] # NoListing
       /\ SyncInstallation(d.inst, SenderAccess(d, hook[h].seen, hook[h].admin),
                           hook[h].seen, d.kind = "created")
       /\ hook' = [hook EXCEPT ![h] = NoListing]
       /\ steady' = {}
       /\ UNCHANGED <<github, deliveries, sync, changes, failures, disturbed>>

(* The delivery is lost, its handler fails, or GitHub refuses the list.    *)
LoseDelivery(k) ==
    LET d == deliveries[k]
        refused == NeedsListing(d) /\ standing[d.inst] # "active"
    IN /\ refused \/ failures < MaxFailures
       /\ failures' = IF refused THEN failures ELSE failures + 1
       /\ TakeDelivery(k)
       /\ disturbed' = disturbed \cup {d.inst}
       /\ UNCHANGED <<github, rows, hook, sync, changes, steady>>

-----------------------------------------------------------------------------
(* sync_user_installations                                                 *)

(* Those of a user that are under way: three endpoints start one, and      *)
(* nothing keeps them apart.                                               *)
Syncing(u) == {s \in Syncs : sync[s].step # "idle" /\ sync[s].user = u}

(* GitHub lists the active installations with a repository the user has a  *)
(* role on, and may list others of accounts the user belongs to.           *)
ListInstallations(s, u) ==
    /\ sync[s].step = "idle"
    /\ \E listed \in SUBSET {i \in Installations : standing[i] = "active"} :
          /\ \A i \in Installations : standing[i] = "active" /\ Visible(u, i) # {}
                                          => i \in listed
          /\ sync' = [sync EXCEPT ![s] = [NoSync EXCEPT
                 !.step = "fetch", !.user = u, !.visible = listed, !.todo = listed]]
    /\ steady' = IF Syncing(u) = {} THEN steady \cup {u} ELSE steady
    /\ UNCHANGED <<github, deliveries, rows, hook, changes, failures, disturbed>>

FetchRepositories(s, i) ==
    LET u == sync[s].user
    IN /\ sync[s].step = "fetch" /\ i \in sync[s].todo
       /\ standing[i] = "active"
       /\ sync' = [sync EXCEPT
              ![s].step = "apply", ![s].at = {i}, ![s].todo = @ \ {i},
              ![s].seen = [r \in Repos |-> IF r \in granted[i] THEN role[u][r] ELSE "none"]]
       /\ UNCHANGED <<github, deliveries, rows, hook, changes, failures, disturbed, steady>>

(* Mutant of StaleRows: nothing is stale.                                  *)
NoRowIsStale(table, i, seen) == {}
(* _remove_stale_user_repository_access, called only when something is     *)
(* visible.                                                                *)
StaleRows(table, i, seen) ==
    IF seen = {} THEN {} ELSE {r \in Repos \ seen : table[r].inst = i}

(* The rows doomed for the last installation go with the first flush.      *)
ApplyRepositories(s) ==
    LET u == sync[s].user
    IN /\ sync[s].step = "apply"
       /\ \E i \in sync[s].at :
             LET seen == {r \in Repos : sync[s].seen[r] # "none"}
                 own == [r \in Repos |->
                     IF r \in seen THEN [inst |-> i, admin |-> sync[s].seen[r] = "admin"]
                     ELSE IF r \in sync[s].doomed THEN NoAccess ELSE access[u][r]]
             IN /\ SyncInstallation(i, [access EXCEPT ![u] = own], seen, FALSE)
                /\ sync' = [sync EXCEPT ![s] = [@ EXCEPT
                       !.step = "fetch", !.at = {}, !.seen = NoSync.seen,
                       !.doomed = StaleRows(own, i, seen)]]
       /\ UNCHANGED <<github, deliveries, hook, changes, failures, disturbed, steady>>

(* _remove_stale_user_installation_access, after the rows doomed before.   *)
KeepsRow(s, row, r) == r \notin sync[s].doomed /\ row.inst \in sync[s].visible

FinishSync(s) ==
    /\ sync[s].step = "fetch" /\ sync[s].todo = {}
    /\ access' = [access EXCEPT ![sync[s].user] =
           [r \in Repos |-> IF KeepsRow(s, @[r], r) THEN @[r] ELSE NoAccess]]
    /\ sync' = [sync EXCEPT ![s] = NoSync]
    /\ UNCHANGED <<github, deliveries, installation, links, hook, changes, failures,
                   disturbed, steady>>

(* A call fails, or a row that another synchronisation wrote at the same   *)
(* time stands in the way, and the session rolls back what it has not      *)
(* committed.                                                              *)
AbortSync(s) ==
    LET refused == \E i \in sync[s].todo : standing[i] # "active"
    IN /\ sync[s].step # "idle"
       /\ \/ sync[s].step = "fetch" /\ refused
          \/ failures < MaxFailures
       /\ failures' = IF sync[s].step = "fetch" /\ refused THEN failures ELSE failures + 1
       /\ sync' = [sync EXCEPT ![s] = NoSync]
       /\ steady' = steady \ {sync[s].user}
       /\ UNCHANGED <<github, deliveries, rows, hook, changes, disturbed>>

-----------------------------------------------------------------------------
GitHubStep ==
    \/ \E i \in Installations :
          \/ \E repos \in SUBSET Repos : Install(i, repos)
          \/ Uninstall(i) \/ Suspend(i) \/ Unsuspend(i) \/ AcceptPermissions(i)
          \/ \E r \in Repos : Grant(i, r) \/ Revoke(i, r)
    \/ \E u \in Users, r \in Repos : ChangeRole(u, r)

WebhookStep ==
    \/ \E k \in DOMAIN deliveries :
          \/ HandleDelivery(k) \/ LoseDelivery(k)
          \/ \E h \in Hooks : ListRepositories(h, k)
    \/ \E h \in Hooks : ApplyListing(h)

SyncStep ==
    \E s \in Syncs :
        \/ \E u \in Users : ListInstallations(s, u)
        \/ ApplyRepositories(s) \/ FinishSync(s) \/ AbortSync(s)
        \/ \E i \in Installations : FetchRepositories(s, i)

Next == GitHubStep \/ WebhookStep \/ SyncStep
Spec == Init /\ [][Next]_vars

-----------------------------------------------------------------------------
(* Authorisation                                                           *)

(* require_repository_access and require_repository_admin.                 *)
CanAccess(u, r) ==
    access[u][r] # NoAccess /\ installation[access[u][r].inst] = "active"
CanAdminister(u, r) == CanAccess(u, r) /\ access[u][r].admin

(* get_active_installation_for_repository, one of these.                   *)
ActiveInstallations(r) ==
    {i \in Installations : <<i, r>> \in links /\ installation[i] = "active"}

-----------------------------------------------------------------------------
(* Properties                                                              *)

(* When the deliveries of an installation were handled one by one and in   *)
(* the order they were sent, and no synchronisation applied data older     *)
(* than one of them, the rows say what GitHub says as soon as none is      *)
(* left, whatever the users' synchronisations did in between: the row is   *)
(* active exactly if the installation is, and exactly its repositories are *)
(* linked.                                                                 *)
HandledDeliveriesAgree ==
    \A i \in Installations \ disturbed :
        ~Fetched(i) /\ (\A k \in DOMAIN deliveries : deliveries[k].inst # i)
        => CASE standing[i] = "active" ->
                    installation[i] = "active" /\ Linked(i) = granted[i]
             [] standing[i] = "suspended" -> installation[i] = "suspended"
             [] OTHER -> installation[i] \in {"absent", "deleted"} /\ Linked(i) = {}

(* A user none of whose synchronisations is under way, and for whom        *)
(* nothing changed or was handled and none failed since one of them        *)
(* started alone, however those that started since overlapped it and each  *)
(* other, may use exactly the repositories that GitHub shows, administer   *)
(* exactly those administered there, and each has an active installation   *)
(* to be analysed with, in whatever order deliveries were handled before.  *)
(* Repositories are excepted whose installation shows the user nothing: an *)
(* empty answer removes no row.                                            *)
SyncedAccessIsGitHubs ==
    \A u \in steady, r \in Repos :
        Syncing(u) = {}
        => \/ /\ CanAccess(u, r) <=> \E i \in Installations :
                     standing[i] = "active" /\ r \in Visible(u, i)
              /\ CanAccess(u, r) => (CanAdminister(u, r) <=> role[u][r] = "admin")
              /\ CanAccess(u, r) => access[u][r].inst \in ActiveInstallations(r)
           \/ access[u][r] # NoAccess /\ Visible(u, access[u][r].inst) = {}
=============================================================================
