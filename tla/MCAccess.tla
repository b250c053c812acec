------------------------------- MODULE MCAccess -------------------------------
(* Who may use what, for TLC: the synchronisation of installations and     *)
(* access rows, and logins with their sessions.  A login ends with a       *)
(* synchronisation but shares no row with it, so each is checked by        *)
(* itself: part says what is going on, and the other half stays as it was  *)
(* at first.  A part does without some members of the sets and makes fewer *)
(* changes than the constants allow, which keeps it small.                 *)
EXTENDS InstallationSync, LoginSession

CONSTANTS i2, r2, y2, a2   \* what some parts do without

VARIABLE part

ASSUME AccessSettings ==
    /\ InstallationAssumption /\ LoginAssumption
    /\ i2 \in Installations /\ r2 \in Repos /\ y2 \in Syncs /\ a2 \in Accounts

accessVars == <<part, vars, loginVars>>

AccessInit ==
    /\ Init /\ LoginInit
    /\ \/ part \in {"one_installation", "transfer", "overlap"}
       \/ /\ part \in {"one_account", "renames"}
          /\ role = [u \in Users |-> [r \in Repos |-> "none"]]
    /\ part \in {"transfer", "overlap"} => \A u \in Users : role[u][r2] = "none"
    /\ part = "overlap" => \A u \in Users : role[u] \in [Repos -> {"none", "admin"}]
    /\ part # "renames" =>
         login = CHOOSE f \in [Accounts -> Logins] :
                    \A a, b \in Accounts : a # b => f[a] # f[b]

\* One installation, in which anything may fail once.
OneInstallation ==
    /\ changes' <= 2 /\ standing'[i2] = "absent"
    /\ sync'[y2] = NoSync

\* A repository that two installations may see.
Transfer ==
    /\ failures' = 0
    /\ \A u \in Users : role'[u][r2] = "none"
    /\ \A i \in Installations : r2 \notin granted'[i]
    /\ sync'[y2] = NoSync

\* Such a repository and two synchronisations of its user, of which the
\* one that starts alone is not y2, and no other reader of a list.
Overlap ==
    /\ failures' = 0 /\ hook' = hook
    /\ \A i \in Installations : standing'[i] # "suspended"
    /\ Len(deliveries') <= 1
    /\ \A u \in Users : role'[u] \in [Repos -> {"none", "admin"}] /\ role'[u][r2] = "none"
    /\ \A i \in Installations : r2 \notin granted'[i]
    /\ sync'[y2] # NoSync => \E y \in Syncs : sync[y] # NoSync

\* One account signs in twice; states and sessions lapse; anything may fail.
OneAccount == renames' = 0 /\ \A c \in Callbacks : callback'[c].account # a2

\* Two accounts that take over each other's logins.
Renames == clock' = 0 /\ failed' = 0 /\ request' = request

AccessNext ==
    /\ UNCHANGED part
    /\ \/ /\ part \in {"one_installation", "transfer", "overlap"}
          /\ Next /\ UNCHANGED loginVars
          /\ part = "one_installation" => OneInstallation
          /\ part = "transfer" => Transfer
          /\ part = "overlap" => Overlap
       \/ /\ part \in {"one_account", "renames"}
          /\ LoginNext /\ UNCHANGED vars
          /\ part = "one_account" => OneAccount
          /\ part = "renames" => Renames

AccessSpec == AccessInit /\ [][AccessNext]_accessVars
=============================================================================
