----------------------------- MODULE Access_proofs -----------------------------
(***************************************************************************)
(* Theorems about who may use what: what webhook deliveries and the users' *)
(* synchronisations make of GitHub's truth, and that a login, an identity  *)
(* and a change are their owner's, for any number of users, installations, *)
(* repositories and handlers, callbacks, requests, accounts and sessions.  *)
(***************************************************************************)
EXTENDS InstallationSync, LoginSession, FiniteSetTheorems, SequenceTheorems, TLAPS

-----------------------------------------------------------------------------
(* INSTALLATIONS AND ACCESS.                                               *)

(* What GitHub sends, and what it never does.                              *)
WellFormed(d) ==
    /\ d \in Delivery
    /\ d.kind \in {"added", "removed"} => \E r \in Repos : d.repos = {r}
    /\ d.kind \in {"deleted", "suspend", "unsuspend", "new_permissions_accepted"} =>
         d.repos = {}

GitHubIsSound ==
    /\ \A k \in DOMAIN deliveries : WellFormed(deliveries[k])
    /\ \A i \in Installations : standing[i] = "absent" => granted[i] = {}
    /\ \A i, j \in Installations : granted[i] \cap granted[j] # {} => i = j

(* A synchronisation applies one installation at a time.                   *)
SyncsAreOrderly ==
    \A s \in Syncs :
        /\ sync[s].step # "idle" => sync[s].user \in Users
        /\ sync[s].todo \subseteq sync[s].visible /\ sync[s].at \subseteq sync[s].visible
        /\ sync[s].at \cap sync[s].todo = {}
        /\ sync[s].step # "apply" => sync[s].at = {}
        /\ sync[s].step = "apply" => \E i \in Installations : sync[s].at = {i}

TInv == TypeOK /\ GitHubIsSound /\ SyncsAreOrderly

-----------------------------------------------------------------------------
(* The pending deliveries of an installation, replayed over its rows,      *)
(* bring the rows to what GitHub says.  What a delivery says of a          *)
(* repository and of the installation itself:                              *)
Affects(d, r) ==
    \/ d.kind \in {"created", "deleted"}
    \/ d.kind \in {"added", "removed"} /\ r \in d.repos
Says(d, r) == d.kind \in {"created", "added"} /\ r \in d.repos
Target(d) == IF d.kind = "deleted" THEN "absent"
             ELSE IF d.kind = "suspend" THEN "suspended" ELSE "active"

About(k, i) == k \in DOMAIN deliveries /\ deliveries[k].inst = i
Concerns(k, i, r) == About(k, i) /\ Affects(deliveries[k], r)
Moves(k, i) == About(k, i) /\ deliveries[k].kind # "removed"
HookAt(h, i) == hook[h] # NoListing /\ hook[h].delivery.inst = i

OneHook(i) == \A g, h \in Hooks : HookAt(g, i) /\ HookAt(h, i) => g = h

(* The last delivery about a repository tells the truth; without one the   *)
(* rows do, and what has been fetched does too.                            *)
NoneConcerns(i, r) == \A k \in DOMAIN deliveries : ~Concerns(k, i, r)
LastTells(i, r) ==
    \A k \in DOMAIN deliveries :
        Concerns(k, i, r) /\ (\A j \in DOMAIN deliveries : Concerns(j, i, r) => j <= k)
        => (Says(deliveries[k], r) <=> r \in granted[i])
RowsTell(i, r) ==
    /\ \A s \in Syncs : i \in sync[s].at /\ sync[s].seen[r] # "none" => r \in granted[i]
    /\ \A h \in Hooks : HookAt(h, i) =>
         /\ r \in hook[h].seen => r \in granted[i]
         /\ hook[h].delivery.kind = "created" /\ r \in granted[i] => r \in hook[h].seen
    /\ (\A h \in Hooks : HookAt(h, i) => hook[h].delivery.kind # "created") =>
         (<<i, r>> \in links <=> r \in granted[i])
LinkFollows(i, r) == LastTells(i, r) /\ (NoneConcerns(i, r) => RowsTell(i, r))

(* The same of the installation itself.                                    *)
Agrees(i) ==
    /\ standing[i] = "active" => installation[i] = "active"
    /\ standing[i] = "suspended" => installation[i] = "suspended"
    /\ standing[i] = "absent" => installation[i] \in {"absent", "deleted"}

NoneMoves(i) == \A k \in DOMAIN deliveries : ~Moves(k, i)
LastMoves(i) ==
    \A k \in DOMAIN deliveries :
        Moves(k, i) /\ (\A j \in DOMAIN deliveries : Moves(j, i) => j <= k)
        => Target(deliveries[k]) = standing[i]
RowIsMoved(i) ==
    /\ \A s \in Syncs : i \in sync[s].at => standing[i] = "active"
    /\ \A h \in Hooks : HookAt(h, i) => standing[i] = "active"
    /\ (\A h \in Hooks : ~HookAt(h, i)) => Agrees(i)
StatusFollows(i) == LastMoves(i) /\ (NoneMoves(i) => RowIsMoved(i))

(* An installation without a row is about to get one.                      *)
RowComes(i) ==
    installation[i] = "absent" /\ (\A h \in Hooks : ~HookAt(h, i)) =>
        \A k \in DOMAIN deliveries : About(k, i) =>
            \E j \in DOMAIN deliveries : j <= k /\ About(j, i) /\ deliveries[j].kind = "created"

Follows(i) ==
    OneHook(i) /\ StatusFollows(i) /\ RowComes(i) /\ \A r \in Repos : LinkFollows(i, r)
DInv == \A i \in Installations \ disturbed : Follows(i)

-----------------------------------------------------------------------------
(* A user whose synchronisations nothing has disturbed.                    *)

(* The row of a repository that an installation shows the user.            *)
RowIsRight(u, r, i) ==
    /\ access[u][r] = [inst |-> i, admin |-> role[u][r] = "admin"]
    /\ <<i, r>> \in links /\ installation[i] = "active"

(* A synchronisation of the user is still to apply the installation.       *)
Awaited(s) == sync[s].todo \cup sync[s].at
Pending(u, i) == \E s \in Syncing(u) : i \in Awaited(s)

(* What is shown is right or comes, and a row without reason goes.         *)
ShownAreRight(u) ==
    \A i \in Installations, r \in Repos :
        standing[i] = "active" /\ r \in Visible(u, i) => RowIsRight(u, r, i) \/ Pending(u, i)
HasReason(u, r, i) ==
    \/ Visible(u, i) = {}
    \/ standing[i] # "active" /\ Syncing(u) # {}
    \/ /\ standing[i] = "active"
       /\ r \in Visible(u, i) \/ Pending(u, i) \/ \E s \in Syncing(u) : r \in sync[s].doomed
RowsHaveReasons(u) ==
    \A r \in Repos : access[u][r] # NoAccess => HasReason(u, r, access[u][r].inst)

(* What each of them lists and sees is true, and what it has applied       *)
(* belongs to no other installation and is not doomed by it; another one   *)
(* may have deleted it, and applies it again.                              *)
IsTrue(s, u) ==
    /\ \A i \in sync[s].visible : standing[i] = "active"
    /\ \A i \in Installations :
         standing[i] = "active" /\ Visible(u, i) # {} => i \in sync[s].visible
    /\ \A i \in sync[s].at, r \in Repos :
         sync[s].seen[r] = IF r \in granted[i] THEN role[u][r] ELSE "none"
    /\ \A i \in Installations \ Awaited(s), r \in Repos :
         standing[i] = "active" /\ r \in Visible(u, i) =>
            r \notin sync[s].doomed /\ access[u][r].inst \in {i, "none"}

IsRight(u) ==
    ShownAreRight(u) /\ RowsHaveReasons(u) /\ \A s \in Syncing(u) : IsTrue(s, u)
SInv == \A u \in steady : IsRight(u)

-----------------------------------------------------------------------------
(* The queue of deliveries.                                                *)

LEMMA RemoveAtEffect ==
    ASSUME NEW S, NEW s \in Seq(S), NEW k \in DOMAIN s
    PROVE  /\ RemoveAt(s, k) \in Seq(S)
           /\ DOMAIN RemoveAt(s, k) = 1 .. Len(s) - 1
           /\ \A j \in 1 .. Len(s) - 1 : RemoveAt(s, k)[j] = IF j < k THEN s[j] ELSE s[j + 1]
  <1> DEFINE before == SubSeq(s, 1, k - 1)
             after == SubSeq(s, k + 1, Len(s))
  <1>1. Len(s) \in Nat /\ DOMAIN s = 1 .. Len(s)
    BY LenProperties
  <1>2. k \in 1 .. Len(s) /\ k - 1 \in 0 .. Len(s) /\ k + 1 \in 1 .. Len(s) + 1
        /\ Len(s) \in (k + 1) - 1 .. Len(s)
    BY <1>1
  <1>3. /\ before \in Seq(S) /\ Len(before) = k - 1
        /\ \A j \in 1 .. k - 1 : before[j] = s[j]
    <2>1. /\ before \in Seq(S) /\ Len(before) = IF 1 <= k - 1 THEN k - 1 - 1 + 1 ELSE 0
          /\ \A j \in 1 .. (k - 1) - 1 + 1 : before[j] = s[1 + j - 1]
      BY <1>1, <1>2, SubSeqProperties
    <2> HIDE DEF before
    <2> QED
      BY <1>1, <1>2, <2>1
  <1>4. /\ after \in Seq(S) /\ Len(after) = Len(s) - k
        /\ \A j \in 1 .. Len(s) - k : after[j] = s[j + k]
    <2>1. /\ after \in Seq(S)
          /\ Len(after) = IF k + 1 <= Len(s) THEN Len(s) - (k + 1) + 1 ELSE 0
          /\ \A j \in 1 .. Len(s) - (k + 1) + 1 : after[j] = s[(k + 1) + j - 1]
      BY <1>1, <1>2, SubSeqProperties
    <2> HIDE DEF after
    <2>2. \A j \in 1 .. Len(s) - k : after[j] = s[j + k]
      <3>1. ASSUME NEW j \in 1 .. Len(s) - k PROVE after[j] = s[j + k]
        <4>1. j \in 1 .. Len(s) - (k + 1) + 1 /\ (k + 1) + j - 1 = j + k
          BY <1>1, <1>2
        <4> QED
          BY <2>1, <4>1
      <3> QED
        BY <3>1
    <2> QED
      BY <1>1, <1>2, <2>1, <2>2
  <1> HIDE DEF before, after
  <1>5. /\ before \o after \in Seq(S) /\ Len(before \o after) = Len(before) + Len(after)
        /\ \A j \in 1 .. Len(before) + Len(after) : (before \o after)[j] =
             IF j <= Len(before) THEN before[j] ELSE after[j - Len(before)]
    BY <1>3, <1>4, ConcatProperties
  <1>6. RemoveAt(s, k) = before \o after
    BY DEF RemoveAt, before, after
  <1> DEFINE rest == before \o after
  <1>7. rest \in Seq(S) /\ Len(rest) = Len(s) - 1
    BY <1>1, <1>2, <1>3, <1>4, <1>5
  <1>8. DOMAIN rest = 1 .. Len(s) - 1
    BY <1>7, LenProperties
  <1>9. ASSUME NEW j \in 1 .. Len(s) - 1 PROVE rest[j] = IF j < k THEN s[j] ELSE s[j + 1]
    <2>1. j \in 1 .. Len(before) + Len(after)
      BY <1>1, <1>2, <1>3, <1>4
    <2>2. rest[j] = IF j <= Len(before) THEN before[j] ELSE after[j - Len(before)]
      BY <1>5, <2>1
    <2>3. CASE j < k
      BY <1>2, <1>3, <2>2, <2>3
    <2>4. CASE ~(j < k)
      <3>1. /\ ~(j <= Len(before)) /\ j - Len(before) \in 1 .. Len(s) - k
            /\ (j - Len(before)) + k = j + 1
        BY <1>1, <1>2, <1>3, <2>4
      <3> QED
        BY <1>4, <2>2, <2>4, <3>1
    <2> QED
      BY <2>3, <2>4
  <1> QED
    BY <1>6, <1>7, <1>8, <1>9

(* Where a delivery stood before the k-th was taken.                       *)
Was(j, k) == IF j < k THEN j ELSE j + 1

LEMMA TakeEffect ==
    ASSUME TInv, NEW k \in DOMAIN deliveries, TakeDelivery(k)
    PROVE  /\ deliveries' \in Seq(Delivery)
           /\ DOMAIN deliveries \subseteq Nat /\ DOMAIN deliveries' \subseteq Nat
           /\ \A j \in DOMAIN deliveries' :
                /\ Was(j, k) \in DOMAIN deliveries \ {k}
                /\ deliveries'[j] = deliveries[Was(j, k)]
           /\ \A m \in DOMAIN deliveries \ {k} : \E j \in DOMAIN deliveries' : Was(j, k) = m
  <1>1. deliveries \in Seq(Delivery)
    BY DEF TInv, TypeOK
  <1>2. Len(deliveries) \in Nat /\ DOMAIN deliveries = 1 .. Len(deliveries)
    BY <1>1, LenProperties
  <1>3. /\ deliveries' \in Seq(Delivery) /\ DOMAIN deliveries' = 1 .. Len(deliveries) - 1
        /\ \A j \in 1 .. Len(deliveries) - 1 :
             deliveries'[j] = IF j < k THEN deliveries[j] ELSE deliveries[j + 1]
    BY <1>1, RemoveAtEffect DEF TakeDelivery
  <1>4. ASSUME NEW j \in DOMAIN deliveries'
        PROVE  Was(j, k) \in DOMAIN deliveries \ {k} /\ deliveries'[j] = deliveries[Was(j, k)]
    BY <1>2, <1>3 DEF Was
  <1>5. ASSUME NEW m \in DOMAIN deliveries \ {k}
        PROVE  \E j \in DOMAIN deliveries' : Was(j, k) = m
    <2>1. CASE m < k
      BY <1>2, <1>3, <2>1 DEF Was
    <2>2. CASE m > k
      <3>1. m - 1 \in DOMAIN deliveries' /\ Was(m - 1, k) = m
        BY <1>2, <1>3, <2>2 DEF Was
      <3> QED
        BY <3>1
    <2> QED
      BY <1>2, <2>1, <2>2
  <1> QED
    BY <1>2, <1>3, <1>4, <1>5

LEMMA SendEffect ==
    ASSUME TInv, NEW d \in Delivery, deliveries' = Append(deliveries, d)
    PROVE  \E n \in Nat :
             /\ deliveries' \in Seq(Delivery)
             /\ DOMAIN deliveries \subseteq 1 .. n - 1
             /\ n \notin DOMAIN deliveries /\ DOMAIN deliveries' = DOMAIN deliveries \cup {n}
             /\ deliveries'[n] = d
             /\ \A j \in DOMAIN deliveries : deliveries'[j] = deliveries[j]
  <1> DEFINE n == Len(deliveries) + 1
  <1>1. deliveries \in Seq(Delivery)
    BY DEF TInv, TypeOK
  <1>2. Len(deliveries) \in Nat /\ DOMAIN deliveries = 1 .. Len(deliveries)
    BY <1>1, LenProperties
  <1>3. /\ deliveries' \in Seq(Delivery) /\ Len(deliveries') = Len(deliveries) + 1
        /\ \A j \in 1 .. Len(deliveries) : deliveries'[j] = deliveries[j]
        /\ deliveries'[Len(deliveries) + 1] = d
    BY <1>1, AppendProperties
  <1>4. DOMAIN deliveries' = 1 .. Len(deliveries) + 1
    BY <1>3, LenProperties
  <1>5. /\ n \in Nat /\ DOMAIN deliveries \subseteq 1 .. n - 1 /\ n \notin DOMAIN deliveries
        /\ DOMAIN deliveries' = DOMAIN deliveries \cup {n}
    BY <1>2, <1>4
  <1> QED
    BY <1>2, <1>3, <1>5

(* What can be said of a change on GitHub: it is of one installation, of   *)
(* which it sends a delivery that tells all that changed; or of a role.    *)
Sent(i, d) ==
    /\ deliveries' = Append(deliveries, d)
    /\ WellFormed(d) /\ d.inst = i
    /\ \A j \in Installations \ {i} : standing'[j] = standing[j] /\ granted'[j] = granted[j]
    /\ \A r \in Repos : IF Affects(d, r) THEN Says(d, r) <=> r \in granted'[i]
                                        ELSE r \in granted'[i] <=> r \in granted[i]
    /\ standing'[i] = IF d.kind = "removed" THEN standing[i] ELSE Target(d)
    /\ standing[i] = "absent" => d.kind = "created"

LEMMA DeliverSends ==
    ASSUME NEW kind \in {"created", "deleted", "suspend", "unsuspend",
                         "new_permissions_accepted", "added", "removed"},
           NEW i \in Installations, NEW repos \in SUBSET Repos, Deliver(kind, i, repos)
    PROVE  \E d \in Delivery : /\ deliveries' = Append(deliveries, d)
                               /\ d.kind = kind /\ d.inst = i /\ d.repos = repos
  <1>1. PICK u \in {v \in Users : \A r \in repos : role[v][r] = "admin"} \cup {NoUser} :
          deliveries' = Append(deliveries,
            [kind |-> kind, inst |-> i, sender |-> u, repos |-> repos])
    BY DEF Deliver
  <1>2. [kind |-> kind, inst |-> i, sender |-> u, repos |-> repos] \in Delivery
    BY DEF Delivery
  <1> QED
    BY <1>1, <1>2

LEMMA GitHubEffect ==
    ASSUME InstallationAssumption, TInv, GitHubStep
    PROVE  /\ UNCHANGED <<rows, hook, sync, failures, disturbed>> /\ steady' = {}
           /\ standing' \in [Installations -> {"absent", "active", "suspended"}]
           /\ granted' \in [Installations -> SUBSET Repos]
           /\ role' \in [Users -> [Repos -> Role]]
           /\ changes' \in 0 .. MaxChanges
           /\ \A i \in Installations : standing'[i] = "absent" => granted'[i] = {}
           /\ \A i, j \in Installations : granted'[i] \cap granted'[j] # {} => i = j
           /\ \/ UNCHANGED <<deliveries, standing, granted>>
              \/ \E i \in Installations, d \in Delivery : Sent(i, d)
  <1>t. /\ standing \in [Installations -> {"absent", "active", "suspended"}]
        /\ granted \in [Installations -> SUBSET Repos]
        /\ role \in [Users -> [Repos -> Role]]
        /\ changes \in 0 .. MaxChanges
        /\ \A i \in Installations : standing[i] = "absent" => granted[i] = {}
        /\ \A i, j \in Installations : granted[i] \cap granted[j] # {} => i = j
    BY DEF TInv, TypeOK, GitHubIsSound
  <1>c. ASSUME Change
        PROVE  /\ UNCHANGED <<rows, hook, sync, failures, disturbed>> /\ steady' = {}
               /\ changes' \in 0 .. MaxChanges
    BY <1>c, <1>t DEF Change, InstallationAssumption
  <1>1. ASSUME NEW i \in Installations, NEW repos \in SUBSET Repos, Install(i, repos)
        PROVE  /\ Change /\ role' = role
               /\ standing' = [standing EXCEPT ![i] = "active"] /\ standing[i] = "absent"
               /\ granted' = [granted EXCEPT ![i] = repos]
               /\ \A j \in Installations : granted[j] \cap repos = {}
               /\ \E d \in Delivery : Sent(i, d)
    <2>1. /\ Change /\ role' = role /\ Deliver("created", i, repos)
          /\ standing' = [standing EXCEPT ![i] = "active"] /\ standing[i] = "absent"
          /\ granted' = [granted EXCEPT ![i] = repos]
          /\ \A j \in Installations : granted[j] \cap repos = {}
      BY <1>1 DEF Install, Stand
    <2>2. PICK d \in Delivery : /\ deliveries' = Append(deliveries, d)
                                /\ d.kind = "created" /\ d.inst = i /\ d.repos = repos
      BY <2>1, DeliverSends
    <2>3. Sent(i, d)
      BY <1>t, <2>1, <2>2 DEF Sent, WellFormed, Affects, Says, Target
    <2> QED
      BY <2>1, <2>3
  <1>2. ASSUME NEW i \in Installations, Uninstall(i)
        PROVE  /\ Change /\ role' = role
               /\ standing' = [standing EXCEPT ![i] = "absent"]
               /\ granted' = [granted EXCEPT ![i] = {}]
               /\ \E d \in Delivery : Sent(i, d)
    <2>1. /\ Change /\ role' = role /\ Deliver("deleted", i, {}) /\ standing[i] # "absent"
          /\ standing' = [standing EXCEPT ![i] = "absent"]
          /\ granted' = [granted EXCEPT ![i] = {}]
      BY <1>2 DEF Uninstall, Stand
    <2>2. PICK d \in Delivery : /\ deliveries' = Append(deliveries, d)
                                /\ d.kind = "deleted" /\ d.inst = i /\ d.repos = {}
      BY <2>1, DeliverSends
    <2>3. Sent(i, d)
      BY <1>t, <2>1, <2>2 DEF Sent, WellFormed, Affects, Says, Target
    <2> QED
      BY <2>1, <2>3
  <1>3. ASSUME NEW i \in Installations, Suspend(i) \/ Unsuspend(i) \/ AcceptPermissions(i)
        PROVE  /\ Change /\ role' = role /\ granted' = granted /\ standing[i] # "absent"
               /\ standing' = [standing EXCEPT ![i] = standing'[i]]
               /\ standing'[i] \in {"active", "suspended"}
               /\ \E d \in Delivery : Sent(i, d)
    <2>1. CASE Suspend(i)
      <3>1. /\ Change /\ role' = role /\ granted' = granted
            /\ Deliver("suspend", i, {}) /\ standing[i] = "active"
            /\ standing' = [standing EXCEPT ![i] = "suspended"]
        BY <2>1 DEF Suspend, Stand
      <3>2. PICK d \in Delivery : /\ deliveries' = Append(deliveries, d)
                                  /\ d.kind = "suspend" /\ d.inst = i /\ d.repos = {}
        BY <3>1, DeliverSends
      <3>3. Sent(i, d)
        BY <1>t, <3>1, <3>2 DEF Sent, WellFormed, Affects, Says, Target
      <3> QED
        BY <1>t, <3>1, <3>3
    <2>2. CASE Unsuspend(i)
      <3>1. /\ Change /\ role' = role /\ granted' = granted
            /\ Deliver("unsuspend", i, {}) /\ standing[i] = "suspended"
            /\ standing' = [standing EXCEPT ![i] = "active"]
        BY <2>2 DEF Unsuspend, Stand
      <3>2. PICK d \in Delivery : /\ deliveries' = Append(deliveries, d)
                                  /\ d.kind = "unsuspend" /\ d.inst = i /\ d.repos = {}
        BY <3>1, DeliverSends
      <3>3. Sent(i, d)
        BY <1>t, <3>1, <3>2 DEF Sent, WellFormed, Affects, Says, Target
      <3> QED
        BY <1>t, <3>1, <3>3
    <2>3. CASE AcceptPermissions(i)
      <3>1. /\ Change /\ role' = role /\ granted' = granted
            /\ Deliver("new_permissions_accepted", i, {}) /\ standing[i] = "active"
            /\ standing' = [standing EXCEPT ![i] = "active"]
        BY <2>3 DEF AcceptPermissions, Stand
      <3>2. PICK d \in Delivery : /\ deliveries' = Append(deliveries, d)
                                  /\ d.kind = "new_permissions_accepted"
                                  /\ d.inst = i /\ d.repos = {}
        BY <3>1, DeliverSends
      <3>3. Sent(i, d)
        BY <1>t, <3>1, <3>2 DEF Sent, WellFormed, Affects, Says, Target
      <3> QED
        BY <1>t, <3>1, <3>3
    <2> QED
      BY <1>3, <2>1, <2>2, <2>3
  <1>4. ASSUME NEW i \in Installations, NEW r \in Repos, Grant(i, r)
        PROVE  /\ Change /\ role' = role /\ standing' = standing /\ standing[i] = "active"
               /\ granted' = [granted EXCEPT ![i] = granted[i] \cup {r}]
               /\ \A j \in Installations : r \notin granted[j]
               /\ \E d \in Delivery : Sent(i, d)
    <2>1. /\ Change /\ role' = role /\ standing' = standing /\ standing[i] = "active"
          /\ Deliver("added", i, {r}) /\ \A j \in Installations : r \notin granted[j]
          /\ granted' = [granted EXCEPT ![i] = granted[i] \cup {r}]
      BY <1>4 DEF Grant
    <2>2. PICK d \in Delivery : /\ deliveries' = Append(deliveries, d)
                                /\ d.kind = "added" /\ d.inst = i /\ d.repos = {r}
      BY <2>1, DeliverSends
    <2>3. Sent(i, d)
      BY <1>t, <2>1, <2>2 DEF Sent, WellFormed, Affects, Says, Target
    <2> QED
      BY <2>1, <2>3
  <1>5. ASSUME NEW i \in Installations, NEW r \in Repos, Revoke(i, r)
        PROVE  /\ Change /\ role' = role /\ standing' = standing /\ standing[i] = "active"
               /\ granted' = [granted EXCEPT ![i] = granted[i] \ {r}]
               /\ \E d \in Delivery : Sent(i, d)
    <2>1. /\ Change /\ role' = role /\ standing' = standing /\ standing[i] = "active"
          /\ Deliver("removed", i, {r})
          /\ granted' = [granted EXCEPT ![i] = granted[i] \ {r}]
      BY <1>5 DEF Revoke
    <2>2. PICK d \in Delivery : /\ deliveries' = Append(deliveries, d)
                                /\ d.kind = "removed" /\ d.inst = i /\ d.repos = {r}
      BY <2>1, DeliverSends
    <2>3. Sent(i, d)
      BY <1>t, <2>1, <2>2 DEF Sent, WellFormed, Affects, Says, Target
    <2> QED
      BY <2>1, <2>3
  <1>6. ASSUME NEW u \in Users, NEW r \in Repos, ChangeRole(u, r)
        PROVE  Change /\ UNCHANGED <<standing, granted, deliveries>>
               /\ role' \in [Users -> [Repos -> Role]]
    BY <1>6, <1>t DEF ChangeRole
  <1> QED
    <2>1. ASSUME NEW i \in Installations, NEW repos \in SUBSET Repos, Install(i, repos)
          PROVE  /\ \A j \in Installations : standing'[j] = "absent" => granted'[j] = {}
                 /\ \A j, k \in Installations : granted'[j] \cap granted'[k] # {} => j = k
      BY <1>t, <1>1, <2>1
    <2>2. ASSUME NEW i \in Installations, Uninstall(i)
          PROVE  /\ \A j \in Installations : standing'[j] = "absent" => granted'[j] = {}
                 /\ \A j, k \in Installations : granted'[j] \cap granted'[k] # {} => j = k
      BY <1>t, <1>2, <2>2
    <2>3. ASSUME NEW i \in Installations, NEW r \in Repos, Grant(i, r)
          PROVE  /\ \A j \in Installations : standing'[j] = "absent" => granted'[j] = {}
                 /\ \A j, k \in Installations : granted'[j] \cap granted'[k] # {} => j = k
      BY <1>t, <1>4, <2>3
    <2>4. ASSUME NEW i \in Installations, NEW r \in Repos, Revoke(i, r)
          PROVE  /\ \A j \in Installations : standing'[j] = "absent" => granted'[j] = {}
                 /\ \A j, k \in Installations : granted'[j] \cap granted'[k] # {} => j = k
      BY <1>t, <1>5, <2>4
    <2>5. CASE \E i \in Installations, repos \in SUBSET Repos : Install(i, repos)
      BY <1>t, <1>c, <1>1, <2>1, <2>5
    <2>6. CASE \E i \in Installations : Uninstall(i)
      BY <1>t, <1>c, <1>2, <2>2, <2>6
    <2>7. CASE \E i \in Installations : Suspend(i) \/ Unsuspend(i) \/ AcceptPermissions(i)
      BY <1>t, <1>c, <1>3, <2>7
    <2>8. CASE \E i \in Installations, r \in Repos : Grant(i, r)
      BY <1>t, <1>c, <1>4, <2>3, <2>8
    <2>9. CASE \E i \in Installations, r \in Repos : Revoke(i, r)
      BY <1>t, <1>c, <1>5, <2>4, <2>9
    <2>10. CASE \E u \in Users, r \in Repos : ChangeRole(u, r)
      BY <1>t, <1>c, <1>6, <2>10
    <2> QED
      BY <2>5, <2>6, <2>7, <2>8, <2>9, <2>10 DEF GitHubStep

-----------------------------------------------------------------------------
(* Types, and what the transactions do.                                    *)
AccessTable == [Users -> [Repos -> Access \cup {NoAccess}]]
RowsTyped ==
    /\ installation \in [Installations -> {"absent", "active", "suspended", "deleted"}]
    /\ links \subseteq Installations \X Repos
    /\ access \in AccessTable

LEMMA TypeFacts ==
    ASSUME TInv
    PROVE  /\ RowsTyped
           /\ standing \in [Installations -> {"absent", "active", "suspended"}]
           /\ granted \in [Installations -> SUBSET Repos]
           /\ role \in [Users -> [Repos -> Role]]
           /\ deliveries \in Seq(Delivery)
           /\ hook \in [Hooks -> Listing \cup {NoListing}] /\ sync \in [Syncs -> Sync]
           /\ \A k \in DOMAIN deliveries : deliveries[k] \in Delivery /\ WellFormed(deliveries[k])
  BY DEF TInv, TypeOK, GitHubIsSound, RowsTyped, AccessTable, WellFormed

LEMMA WithoutRowsEffect ==
    ASSUME NEW table \in AccessTable, NEW i, NEW repos
    PROVE  WithoutRows(table, i, repos) \in AccessTable
  BY DEF AccessTable, WithoutRows

LEMMA SyncInstallationEffect ==
    ASSUME RowsTyped, NEW i \in Installations, NEW table \in AccessTable,
           NEW repos \in SUBSET Repos, SyncInstallation(i, table, repos, FALSE)
    PROVE  /\ RowsTyped' /\ installation'[i] = "active"
           /\ \A j \in Installations \ {i} : installation'[j] = installation[j]
           /\ \A j \in Installations, r \in Repos : <<j, r>> \in links' <=>
                (j = i /\ r \in repos) \/ <<j, r>> \in links
           /\ access' = table
  BY DEF SyncInstallation, RowsTyped

LEMMA FullSyncInstallationEffect ==
    ASSUME RowsTyped, NEW i \in Installations, NEW table \in AccessTable,
           NEW repos \in SUBSET Repos, SyncInstallation(i, table, repos, TRUE)
    PROVE  /\ RowsTyped' /\ installation'[i] = "active"
           /\ \A j \in Installations \ {i} : installation'[j] = installation[j]
           /\ \A j \in Installations, r \in Repos : <<j, r>> \in links' <=>
                IF j = i THEN r \in repos ELSE <<j, r>> \in links
  <1>1. /\ installation' = [installation EXCEPT ![i] = "active"]
        /\ links' = (links \ ({i} \X Repos)) \cup ({i} \X repos)
        /\ access' = WithoutRows(table, i, Linked(i) \ repos)
    BY DEF SyncInstallation
  <1>2. access' \in AccessTable
    BY <1>1, WithoutRowsEffect
  <1>3. links' \subseteq Installations \X Repos
    BY <1>1 DEF RowsTyped
  <1> QED
    BY <1>1, <1>2, <1>3 DEF RowsTyped

LEMMA SenderAccessType ==
    ASSUME RowsTyped, NEW d \in Delivery, NEW repos \in SUBSET Repos, NEW admin \in BOOLEAN
    PROVE  SenderAccess(d, repos, admin) \in AccessTable
  <1>1. [inst |-> d.inst, admin |-> admin] \in Access
    BY DEF Delivery, Access
  <1> QED
    BY <1>1 DEF RowsTyped, AccessTable, SenderAccess

(* A delivery that needs no list.                                          *)
LEMMA HandleDeliveryEffect ==
    ASSUME TInv, NEW k \in DOMAIN deliveries, HandleDelivery(k), NEW d, d = deliveries[k]
    PROVE  /\ UNCHANGED <<github, hook, sync, changes, failures>>
           /\ TakeDelivery(k) /\ steady' = {} /\ disturbed' = disturbed \cup Disturbing(k)
           /\ RowsTyped'
           /\ \A j \in Installations \ {d.inst} : installation'[j] = installation[j]
           /\ \A j \in Installations \ {d.inst}, r \in Repos :
                 <<j, r>> \in links' <=> <<j, r>> \in links
           /\ d.kind # "removed" /\ installation[d.inst] # "absent" =>
                installation'[d.inst] = IF d.kind = "deleted" THEN "deleted"
                                        ELSE IF d.kind = "suspend" THEN "suspended" ELSE "active"
           /\ d.kind \notin {"deleted", "suspend", "removed"} => installation'[d.inst] = "active"
           /\ d.kind = "removed" => installation' = installation
           /\ installation[d.inst] # "absent" \/ d.kind \notin {"deleted", "suspend"} =>
                \A r \in Repos : <<d.inst, r>> \in links' <=>
                    IF Affects(d, r) THEN Says(d, r) ELSE <<d.inst, r>> \in links
  <1>t. RowsTyped /\ d \in Delivery /\ WellFormed(d) /\ d.inst \in Installations
        /\ d.repos \in SUBSET Repos
    BY TypeFacts DEF Delivery
  <1>u. /\ UNCHANGED <<github, hook, sync, changes, failures>>
        /\ TakeDelivery(k) /\ steady' = {} /\ disturbed' = disturbed \cup Disturbing(k)
    BY DEF HandleDelivery
  <1>1. CASE d.kind \in {"deleted", "suspend"} /\ Deactivate(d)
    <2>1. CASE installation[d.inst] = "absent"
      BY <1>t, <1>u, <1>1, <2>1 DEF Deactivate, rows, RowsTyped, AccessTable
    <2>2. CASE installation[d.inst] # "absent" /\ d.kind = "deleted"
      <3>1. /\ installation' = [installation EXCEPT ![d.inst] = "deleted"]
            /\ links' = links \ ({d.inst} \X Repos)
            /\ access' = WithoutRows(access, d.inst, Repos)
        BY <1>1, <2>2 DEF Deactivate, StatusAfter
      <3>2. access' \in AccessTable
        BY <1>t, <3>1, WithoutRowsEffect DEF RowsTyped
      <3> QED
        BY <1>t, <1>u, <2>2, <3>1, <3>2 DEF RowsTyped, Affects, Says
    <2>3. CASE installation[d.inst] # "absent" /\ d.kind = "suspend"
      <3>1. /\ installation' = [installation EXCEPT ![d.inst] = "suspended"]
            /\ links' = links /\ access' = access
        BY <1>1, <2>3 DEF Deactivate, StatusAfter
      <3> QED
        BY <1>t, <1>u, <2>3, <3>1 DEF RowsTyped, AccessTable, Affects, Says
    <2> QED
      BY <1>1, <2>1, <2>2, <2>3
  <1>2. CASE d.kind = "removed" /\ RemoveRepositories(d)
    <2>1. /\ links' = links \ ({d.inst} \X d.repos) /\ installation' = installation
          /\ access' = WithoutRows(access, d.inst, Linked(d.inst) \cap d.repos)
      BY <1>2 DEF RemoveRepositories
    <2>2. access' \in AccessTable
      BY <1>t, <2>1, WithoutRowsEffect DEF RowsTyped
    <2> QED
      BY <1>t, <1>u, <1>2, <2>1, <2>2 DEF RowsTyped, Affects, Says
  <1>3. CASE /\ d.kind \notin {"deleted", "suspend", "removed"}
             /\ SyncInstallation(d.inst, SenderAccess(d, d.repos, TRUE), d.repos,
                                  d.kind = "created")
    <2>1. SenderAccess(d, d.repos, TRUE) \in AccessTable
      BY <1>t, SenderAccessType
    <2>2. d.kind = "created" \/ d.kind = "added"
      BY <1>t, <1>3 DEF HandleDelivery, NeedsListing, Delivery, WellFormed
    <2> DEFINE table == SenderAccess(d, d.repos, TRUE)
               i == d.inst
    <2>s. table \in AccessTable /\ i \in Installations
      BY <1>t, <2>1
    <2> HIDE DEF table, i
    <2>3. CASE d.kind = "created"
      <3>1. SyncInstallation(i, table, d.repos, TRUE)
        BY <1>3, <2>3 DEF SyncInstallation, table, i
      <3>2. /\ RowsTyped' /\ installation'[i] = "active"
            /\ \A j \in Installations \ {i} : installation'[j] = installation[j]
            /\ \A j \in Installations, r \in Repos : <<j, r>> \in links' <=>
                 IF j = i THEN r \in d.repos ELSE <<j, r>> \in links
        BY <1>t, <2>s, <3>1, FullSyncInstallationEffect
      <3> QED
        BY <1>t, <1>u, <2>3, <3>2 DEF Affects, Says, i
    <2>4. CASE d.kind = "added"
      <3>1. SyncInstallation(i, table, d.repos, FALSE)
        BY <1>3, <2>4 DEF SyncInstallation, table, i
      <3>2. /\ RowsTyped' /\ installation'[i] = "active"
            /\ \A j \in Installations \ {i} : installation'[j] = installation[j]
            /\ \A j \in Installations, r \in Repos : <<j, r>> \in links' <=>
                 (j = i /\ r \in d.repos) \/ <<j, r>> \in links
        BY <1>t, <2>s, <3>1, SyncInstallationEffect
      <3> QED
        BY <1>t, <1>u, <2>4, <3>2 DEF Affects, Says, i
    <2> QED
      BY <2>2, <2>3, <2>4
  <1> QED
    BY <1>1, <1>2, <1>3 DEF HandleDelivery

LEMMA ListingIsSome == NoListing \notin Listing
  <1> SUFFICES ASSUME NoListing \in Listing PROVE FALSE
    OBVIOUS
  <1>1. DOMAIN NoListing = {"delivery", "seen", "admin"}
    BY DEF Listing
  <1>2. DOMAIN NoListing = {"kind"}
    BY DEF NoListing
  <1> QED
    BY <1>1, <1>2

LEMMA ListRepositoriesEffect ==
    ASSUME TInv, NEW h \in Hooks, NEW k \in DOMAIN deliveries, ListRepositories(h, k),
           NEW d, d = deliveries[k]
    PROVE  /\ UNCHANGED <<github, rows, sync, changes, failures, steady>>
           /\ TakeDelivery(k) /\ disturbed' = disturbed \cup Disturbing(k)
           /\ NeedsListing(d) /\ standing[d.inst] = "active"
           /\ hook[h] = NoListing /\ hook' \in [Hooks -> Listing \cup {NoListing}]
           /\ hook'[h] \in Listing /\ hook'[h].delivery = d /\ hook'[h].seen = granted[d.inst]
           /\ \A g \in Hooks \ {h} : hook'[g] = hook[g]
  <1>t. /\ d \in Delivery /\ d.inst \in Installations
        /\ granted[d.inst] \in SUBSET Repos
        /\ hook \in [Hooks -> Listing \cup {NoListing}]
    BY TypeFacts DEF Delivery
  <1>1. PICK admin \in BOOLEAN :
          hook' = [hook EXCEPT ![h] = [delivery |-> d, seen |-> granted[d.inst], admin |-> admin]]
    BY DEF ListRepositories
  <1> DEFINE new == [delivery |-> d, seen |-> granted[d.inst], admin |-> admin]
  <1>2. new \in Listing /\ new.delivery = d /\ new.seen = granted[d.inst]
    BY <1>t DEF Listing
  <1> HIDE DEF new
  <1>3. hook' = [hook EXCEPT ![h] = new]
    BY <1>1 DEF new
  <1> QED
    BY <1>t, <1>2, <1>3 DEF ListRepositories

LEMMA ApplyListingEffect ==
    ASSUME TInv, NEW h \in Hooks, ApplyListing(h), NEW i, i = hook[h].delivery.inst
    PROVE  /\ UNCHANGED <<github, deliveries, sync, changes, failures, disturbed>> /\ steady' = {}
           /\ hook[h] \in Listing /\ i \in Installations
           /\ hook' = [hook EXCEPT ![h] = NoListing]
           /\ RowsTyped' /\ installation'[i] = "active"
           /\ \A j \in Installations \ {i} : installation'[j] = installation[j]
           /\ \A j \in Installations, r \in Repos : <<j, r>> \in links' <=>
                IF j = i THEN \/ r \in hook[h].seen
                              \/ hook[h].delivery.kind # "created" /\ <<i, r>> \in links
                ELSE <<j, r>> \in links
  <1> DEFINE d == hook[h].delivery
  <1>1. /\ UNCHANGED <<github, deliveries, sync, changes, failures, disturbed>> /\ steady' = {}
        /\ hook' = [hook EXCEPT ![h] = NoListing] /\ hook[h] # NoListing
        /\ SyncInstallation(i, SenderAccess(d, hook[h].seen, hook[h].admin), hook[h].seen,
                            d.kind = "created")
    BY DEF ApplyListing
  <1>2. RowsTyped /\ hook[h] \in Listing
    BY <1>1, TypeFacts
  <1>3. d \in Delivery /\ hook[h].seen \in SUBSET Repos /\ hook[h].admin \in BOOLEAN
        /\ i \in Installations
    BY <1>2 DEF Listing, Delivery
  <1>4. SenderAccess(d, hook[h].seen, hook[h].admin) \in AccessTable
    BY <1>2, <1>3, SenderAccessType
  <1> HIDE DEF d
  <1> DEFINE table == SenderAccess(d, hook[h].seen, hook[h].admin)
             seen == hook[h].seen
  <1> HIDE DEF table, seen
  <1>5. seen \in SUBSET Repos /\ table \in AccessTable
    BY <1>3, <1>4 DEF table, seen
  <1>6. CASE d.kind = "created"
    <2>1. SyncInstallation(i, table, seen, TRUE)
      BY <1>1, <1>6 DEF SyncInstallation, table, seen
    <2>2. /\ RowsTyped' /\ installation'[i] = "active"
          /\ \A j \in Installations \ {i} : installation'[j] = installation[j]
          /\ \A j \in Installations, r \in Repos : <<j, r>> \in links' <=>
               IF j = i THEN r \in seen ELSE <<j, r>> \in links
      BY <1>2, <1>3, <1>5, <2>1, FullSyncInstallationEffect
    <2> QED
      BY <1>1, <1>2, <1>3, <1>6, <2>2 DEF d, seen
  <1>7. CASE d.kind # "created"
    <2>1. SyncInstallation(i, table, seen, FALSE)
      BY <1>1, <1>7 DEF SyncInstallation, table, seen
    <2>2. /\ RowsTyped' /\ installation'[i] = "active"
          /\ \A j \in Installations \ {i} : installation'[j] = installation[j]
          /\ \A j \in Installations, r \in Repos : <<j, r>> \in links' <=>
               (j = i /\ r \in seen) \/ <<j, r>> \in links
      BY <1>2, <1>3, <1>5, <2>1, SyncInstallationEffect
    <2> QED
      BY <1>1, <1>2, <1>3, <1>7, <2>2 DEF d, seen
  <1> QED
    BY <1>6, <1>7

(* The steps of a synchronisation.                                         *)
LEMMA NoSyncIsSync ==
    /\ NoSync \in Sync /\ NoSync.step = "idle" /\ NoSync.visible = {} /\ NoSync.todo = {}
    /\ NoSync.at = {} /\ NoSync.doomed = {} /\ \A r \in Repos : NoSync.seen[r] = "none"
  BY DEF NoSync, Sync, Role

LEMMA ListInstallationsEffect ==
    ASSUME TInv, NEW s \in Syncs, NEW u \in Users, ListInstallations(s, u)
    PROVE  /\ UNCHANGED <<github, deliveries, rows, hook, changes, failures, disturbed>>
           /\ steady' = IF Syncing(u) = {} THEN steady \cup {u} ELSE steady
           /\ sync'[s].user = u /\ sync[s].step = "idle" /\ sync' \in [Syncs -> Sync]
           /\ \A t \in Syncs \ {s} : sync'[t] = sync[t]
           /\ sync'[s].step = "fetch" /\ sync'[s].at = {} /\ sync'[s].doomed = {}
           /\ sync'[s].todo = sync'[s].visible
           /\ \A i \in sync'[s].visible : standing[i] = "active"
           /\ \A i \in Installations : standing[i] = "active" /\ Visible(u, i) # {} =>
                i \in sync'[s].visible
  <1>1. PICK listed \in SUBSET {i \in Installations : standing[i] = "active"} :
          /\ \A i \in Installations : standing[i] = "active" /\ Visible(u, i) # {} => i \in listed
          /\ sync' = [sync EXCEPT ![s] =
               [NoSync EXCEPT !.step = "fetch", !.user = u, !.visible = listed, !.todo = listed]]
    BY DEF ListInstallations
  <1> DEFINE new == [NoSync EXCEPT
               !.step = "fetch", !.user = u, !.visible = listed, !.todo = listed]
  <1>2. /\ new \in Sync /\ new.step = "fetch" /\ new.at = {} /\ new.doomed = {}
        /\ new.todo = listed /\ new.visible = listed /\ new.user = u
    BY DEF NoSync, Sync, Role
  <1> HIDE DEF new
  <1>3. sync' = [sync EXCEPT ![s] = new] /\ sync \in [Syncs -> Sync]
    BY <1>1, TypeFacts DEF new
  <1> QED
    BY <1>1, <1>2, <1>3 DEF ListInstallations

LEMMA FetchRepositoriesEffect ==
    ASSUME TInv, NEW s \in Syncs, NEW i \in Installations, FetchRepositories(s, i),
           NEW u, u = sync[s].user
    PROVE  /\ u \in Users /\ sync'[s].user = u
           /\ UNCHANGED <<github, deliveries, rows, hook, changes, failures, disturbed, steady>>
           /\ sync[s].step = "fetch" /\ i \in sync[s].todo /\ standing[i] = "active"
           /\ sync' \in [Syncs -> Sync]
           /\ \A t \in Syncs \ {s} : sync'[t] = sync[t]
           /\ sync'[s].step = "apply" /\ sync'[s].at = {i}
           /\ sync'[s].todo = sync[s].todo \ {i}
           /\ sync'[s].visible = sync[s].visible /\ sync'[s].doomed = sync[s].doomed
           /\ \A r \in Repos : sync'[s].seen[r] = IF r \in granted[i] THEN role[u][r] ELSE "none"
  <1> DEFINE seen == [r \in Repos |-> IF r \in granted[i] THEN role[u][r] ELSE "none"]
             new == [sync[s] EXCEPT !.step = "apply", !.at = {i}, !.todo = sync[s].todo \ {i},
                                    !.seen = seen]
  <1>u. u \in Users
    BY DEF FetchRepositories, TInv, SyncsAreOrderly
  <1>1. sync \in [Syncs -> Sync] /\ sync[s] \in Sync /\ role[u] \in [Repos -> Role]
    BY <1>u, TypeFacts
  <1>2. /\ seen \in [Repos -> Role]
        /\ \A r \in Repos : seen[r] = IF r \in granted[i] THEN role[u][r] ELSE "none"
    BY <1>1 DEF Role
  <1>3. sync' = [sync EXCEPT ![s] = new]
    BY DEF FetchRepositories
  <1> HIDE DEF seen
  <1>4. /\ new \in Sync /\ new.user = u
        /\ new.step = "apply" /\ new.at = {i} /\ new.todo = sync[s].todo \ {i}
        /\ new.visible = sync[s].visible /\ new.doomed = sync[s].doomed /\ new.seen = seen
    BY <1>1, <1>2 DEF Sync
  <1> HIDE DEF new
  <1>5. /\ sync' \in [Syncs -> Sync] /\ sync'[s] = new
        /\ \A t \in Syncs \ {s} : sync'[t] = sync[t]
    BY <1>1, <1>3, <1>4
  <1>6. /\ UNCHANGED <<github, deliveries, rows, hook, changes, failures, disturbed, steady>>
        /\ sync[s].step = "fetch" /\ i \in sync[s].todo /\ standing[i] = "active"
    BY DEF FetchRepositories
  <1> QED
    BY <1>u, <1>2, <1>4, <1>5, <1>6

(* What a synchronisation sees, and makes of the user's rows.              *)
SeenBy(s) == {r \in Repos : sync[s].seen[r] # "none"}

LEMMA ApplyRepositoriesEffect ==
    ASSUME TInv, NEW s \in Syncs, ApplyRepositories(s), NEW u, u = sync[s].user
    PROVE  \E i \in sync[s].at :
             /\ UNCHANGED <<github, deliveries, hook, changes, failures, disturbed, steady>>
             /\ u \in Users /\ sync'[s].user = u
             /\ sync[s].step = "apply" /\ i \in Installations /\ sync[s].at = {i}
             /\ RowsTyped' /\ installation'[i] = "active"
             /\ \A j \in Installations \ {i} : installation'[j] = installation[j]
             /\ \A j \in Installations, r \in Repos : <<j, r>> \in links' <=>
                  (j = i /\ r \in SeenBy(s)) \/ <<j, r>> \in links
             /\ \A v \in Users \ {u} : access'[v] = access[v]
             /\ \A t \in Syncs \ {s} : sync'[t] = sync[t]
             /\ \A r \in Repos : access'[u][r] =
                  IF r \in SeenBy(s) THEN [inst |-> i, admin |-> sync[s].seen[r] = "admin"]
                  ELSE IF r \in sync[s].doomed THEN NoAccess ELSE access[u][r]
             /\ sync' \in [Syncs -> Sync]
             /\ sync'[s].step = "fetch" /\ sync'[s].at = {}
             /\ sync'[s].todo = sync[s].todo /\ sync'[s].visible = sync[s].visible
             /\ \A r \in Repos : r \in sync'[s].doomed <=>
                  SeenBy(s) # {} /\ r \notin SeenBy(s) /\ access'[u][r].inst = i
  <1>1. PICK i \in sync[s].at :
          LET seen == {r \in Repos : sync[s].seen[r] # "none"}
              own == [r \in Repos |->
                  IF r \in seen THEN [inst |-> i, admin |-> sync[s].seen[r] = "admin"]
                  ELSE IF r \in sync[s].doomed THEN NoAccess ELSE access[u][r]]
          IN /\ SyncInstallation(i, [access EXCEPT ![u] = own], seen, FALSE)
             /\ sync' = [sync EXCEPT ![s] = [sync[s] EXCEPT
                    !.step = "fetch", !.at = {}, !.seen = NoSync.seen,
                    !.doomed = StaleRows(own, i, seen)]]
    BY DEF ApplyRepositories
  <1> DEFINE seen == SeenBy(s)
             own == [r \in Repos |->
                  IF r \in seen THEN [inst |-> i, admin |-> sync[s].seen[r] = "admin"]
                  ELSE IF r \in sync[s].doomed THEN NoAccess ELSE access[u][r]]
             table == [access EXCEPT ![u] = own]
             doomed == StaleRows(own, i, seen)
             new == [sync[s] EXCEPT !.step = "fetch", !.at = {}, !.seen = NoSync.seen,
                                    !.doomed = doomed]
  <1>2. /\ SyncInstallation(i, table, seen, FALSE)
        /\ sync' = [sync EXCEPT ![s] = new]
    BY <1>1 DEF SeenBy
  <1>3. /\ u \in Users /\ RowsTyped /\ sync \in [Syncs -> Sync] /\ sync[s] \in Sync
        /\ sync[s].step = "apply" /\ sync[s].at \subseteq Installations /\ i \in Installations
        /\ sync[s].at = {i}
    <2>1. RowsTyped /\ sync \in [Syncs -> Sync] /\ sync[s] \in Sync /\ sync[s].step = "apply"
      BY TypeFacts DEF ApplyRepositories
    <2>2. sync[s].at \subseteq Installations
      BY <2>1 DEF Sync
    <2>3. \E j \in Installations : sync[s].at = {j}
      BY <2>1 DEF TInv, SyncsAreOrderly
    <2>4. u \in Users
      BY <2>1 DEF TInv, SyncsAreOrderly
    <2> QED
      BY <2>1, <2>2, <2>3, <2>4
  <1>4. seen \in SUBSET Repos
    BY DEF SeenBy
  <1>5. own \in [Repos -> Access \cup {NoAccess}]
    <2>1. ASSUME NEW r \in Repos
          PROVE  [inst |-> i, admin |-> sync[s].seen[r] = "admin"] \in Access
      BY <1>3 DEF Access
    <2>2. \A r \in Repos : access[u][r] \in Access \cup {NoAccess}
      BY <1>3 DEF RowsTyped, AccessTable
    <2> QED
      BY <2>1, <2>2
  <1>6. /\ \A r \in Repos : own[r] =
             IF r \in seen THEN [inst |-> i, admin |-> sync[s].seen[r] = "admin"]
             ELSE IF r \in sync[s].doomed THEN NoAccess ELSE access[u][r]
        /\ \A r \in Repos : r \in doomed <=> seen # {} /\ r \notin seen /\ own[r].inst = i
        /\ doomed \subseteq Repos
    BY DEF StaleRows
  <1> HIDE DEF own, doomed, seen
  <1>7. /\ table \in AccessTable /\ table[u] = own
        /\ \A v \in Users \ {u} : table[v] = access[v]
    BY <1>3, <1>5 DEF RowsTyped, AccessTable
  <1>8. /\ new \in Sync /\ new.step = "fetch" /\ new.at = {} /\ new.doomed = doomed
        /\ new.todo = sync[s].todo /\ new.visible = sync[s].visible /\ new.user = u
    BY <1>3, <1>6, NoSyncIsSync DEF Sync
  <1> HIDE DEF table, new
  <1>9. /\ sync' \in [Syncs -> Sync] /\ sync'[s] = new
        /\ \A t \in Syncs \ {s} : sync'[t] = sync[t]
    BY <1>2, <1>3, <1>8
  <1>10. /\ RowsTyped' /\ installation'[i] = "active"
         /\ \A j \in Installations \ {i} : installation'[j] = installation[j]
         /\ \A j \in Installations, r \in Repos : <<j, r>> \in links' <=>
              (j = i /\ r \in seen) \/ <<j, r>> \in links
         /\ access' = table
    BY <1>2, <1>3, <1>4, <1>7, SyncInstallationEffect
  <1>11. UNCHANGED <<github, deliveries, hook, changes, failures, disturbed, steady>>
    BY DEF ApplyRepositories
  <1>12. /\ \A v \in Users \ {u} : access'[v] = access[v]
         /\ access'[u] = own
    BY <1>7, <1>9, <1>10
  <1> QED
    BY <1>3, <1>6, <1>8, <1>9, <1>10, <1>11, <1>12 DEF seen

LEMMA FinishSyncEffect ==
    ASSUME TInv, NEW s \in Syncs, FinishSync(s), NEW u, u = sync[s].user
    PROVE  /\ u \in Users
           /\ UNCHANGED <<github, deliveries, installation, links, hook, changes, failures,
                          disturbed, steady>>
           /\ sync[s].step = "fetch" /\ sync[s].todo = {} /\ RowsTyped'
           /\ \A v \in Users \ {u} : access'[v] = access[v]
           /\ \A t \in Syncs \ {s} : sync'[t] = sync[t]
           /\ \A r \in Repos : access'[u][r] =
                IF KeepsRow(s, access[u][r], r) THEN access[u][r] ELSE NoAccess
           /\ sync' \in [Syncs -> Sync] /\ sync'[s] = NoSync
  <1> DEFINE own == [r \in Repos |->
               IF KeepsRow(s, access[u][r], r) THEN access[u][r] ELSE NoAccess]
  <1>1. RowsTyped /\ sync \in [Syncs -> Sync] /\ u \in Users
    BY TypeFacts DEF FinishSync, TInv, SyncsAreOrderly
  <1>2. /\ own \in [Repos -> Access \cup {NoAccess}]
        /\ \A r \in Repos : own[r] = IF KeepsRow(s, access[u][r], r) THEN access[u][r] ELSE NoAccess
    BY <1>1 DEF RowsTyped, AccessTable
  <1>3. access' = [access EXCEPT ![u] = own] /\ sync' = [sync EXCEPT ![s] = NoSync]
    BY DEF FinishSync
  <1> HIDE DEF own
  <1>4. /\ access' \in AccessTable /\ access'[u] = own
        /\ \A v \in Users \ {u} : access'[v] = access[v]
    BY <1>1, <1>2, <1>3 DEF RowsTyped, AccessTable
  <1>5. /\ sync' \in [Syncs -> Sync] /\ sync'[s] = NoSync
        /\ \A t \in Syncs \ {s} : sync'[t] = sync[t]
    BY <1>1, <1>3, NoSyncIsSync
  <1>6. RowsTyped'
    BY <1>1, <1>4 DEF RowsTyped, FinishSync
  <1> QED
    BY <1>1, <1>2, <1>4, <1>5, <1>6 DEF FinishSync

LEMMA AbortSyncEffect ==
    ASSUME InstallationAssumption, TInv, NEW s \in Syncs, AbortSync(s)
    PROVE  /\ UNCHANGED <<github, deliveries, rows, hook, changes, disturbed>>
           /\ failures' \in 0 .. MaxFailures /\ steady' = steady \ {sync[s].user}
           /\ sync' \in [Syncs -> Sync] /\ sync'[s] = NoSync
           /\ \A t \in Syncs \ {s} : sync'[t] = sync[t]
  <1>1. sync \in [Syncs -> Sync] /\ failures \in 0 .. MaxFailures
    BY TypeFacts DEF TInv, TypeOK
  <1>2. /\ failures' \in 0 .. MaxFailures /\ sync' = [sync EXCEPT ![s] = NoSync]
        /\ UNCHANGED <<github, deliveries, rows, hook, changes, disturbed>>
        /\ steady' = steady \ {sync[s].user}
    BY <1>1 DEF AbortSync, InstallationAssumption
  <1> QED
    BY <1>1, <1>2, NoSyncIsSync

-----------------------------------------------------------------------------
(* Types are kept.                                                         *)
LEMMA InitTInv == InstallationAssumption /\ Init => TInv
  <1> SUFFICES ASSUME InstallationAssumption, Init PROVE TInv
    OBVIOUS
  <1>1. DOMAIN deliveries = {} /\ deliveries \in Seq(Delivery)
    BY EmptySeq DEF Init
  <1>2. SyncsAreOrderly
    BY NoSyncIsSync DEF Init, SyncsAreOrderly
  <1>3. GitHubIsSound
    BY <1>1 DEF Init, GitHubIsSound
  <1>4. TypeOK
    BY <1>1, NoSyncIsSync DEF Init, TypeOK, InstallationAssumption
  <1> QED
    BY <1>2, <1>3, <1>4 DEF TInv

LEMMA TakenIsSound ==
    ASSUME TInv, NEW k \in DOMAIN deliveries, TakeDelivery(k), UNCHANGED <<standing, granted>>
    PROVE  GitHubIsSound' /\ deliveries' \in Seq(Delivery)
  BY TakeEffect DEF TInv, GitHubIsSound

LEMMA OrderlyIsKept ==
    ASSUME TInv, NEW s \in Syncs, \A t \in Syncs \ {s} : sync'[t] = sync[t],
           sync'[s].step # "idle" => sync'[s].user \in Users,
           /\ sync'[s].todo \subseteq sync'[s].visible /\ sync'[s].at \subseteq sync'[s].visible
           /\ sync'[s].at \cap sync'[s].todo = {}
           /\ sync'[s].step # "apply" => sync'[s].at = {}
           /\ sync'[s].step = "apply" => \E i \in Installations : sync'[s].at = {i}
    PROVE  SyncsAreOrderly'
  BY DEF TInv, SyncsAreOrderly

LEMMA NextTInv == InstallationAssumption /\ TInv /\ [Next]_vars => TInv'
  <1> SUFFICES ASSUME InstallationAssumption, TInv, [Next]_vars PROVE TInv'
    OBVIOUS
  <1>t. /\ TypeOK /\ GitHubIsSound /\ SyncsAreOrderly /\ RowsTyped
        /\ hook \in [Hooks -> Listing \cup {NoListing}] /\ sync \in [Syncs -> Sync]
        /\ MaxFailures \in Nat
    BY TypeFacts DEF TInv, InstallationAssumption
  <1>k. ASSUME UNCHANGED <<github, deliveries>> PROVE GitHubIsSound'
    BY <1>k, <1>t DEF GitHubIsSound, github
  <1>1. CASE GitHubStep
    <2>1. /\ UNCHANGED <<rows, hook, sync, failures, disturbed>> /\ steady' = {}
          /\ standing' \in [Installations -> {"absent", "active", "suspended"}]
          /\ granted' \in [Installations -> SUBSET Repos]
          /\ role' \in [Users -> [Repos -> Role]]
          /\ changes' \in 0 .. MaxChanges
          /\ \A i \in Installations : standing'[i] = "absent" => granted'[i] = {}
          /\ \A i, j \in Installations : granted'[i] \cap granted'[j] # {} => i = j
          /\ \/ UNCHANGED <<deliveries, standing, granted>>
             \/ \E i \in Installations, d \in Delivery : Sent(i, d)
      BY <1>1, GitHubEffect
    <2>2. deliveries' \in Seq(Delivery) /\ \A k \in DOMAIN deliveries' : WellFormed(deliveries'[k])
      <3>1. CASE deliveries' = deliveries
        BY <1>t, <3>1 DEF TypeOK, GitHubIsSound
      <3>2. ASSUME NEW i \in Installations, NEW d \in Delivery, Sent(i, d)
            PROVE  /\ deliveries' \in Seq(Delivery)
                   /\ \A k \in DOMAIN deliveries' : WellFormed(deliveries'[k])
        <4>1. deliveries' = Append(deliveries, d) /\ WellFormed(d)
          BY <3>2 DEF Sent
        <4> QED
          BY <1>t, <4>1, SendEffect DEF GitHubIsSound
      <3> QED
        BY <2>1, <3>1, <3>2
    <2>3. GitHubIsSound'
      BY <2>1, <2>2 DEF GitHubIsSound
    <2>4. TypeOK'
      BY <1>t, <2>1, <2>2 DEF TypeOK, rows
    <2>5. SyncsAreOrderly'
      BY <1>t, <2>1 DEF SyncsAreOrderly
    <2> QED
      BY <2>3, <2>4, <2>5 DEF TInv
  <1>2. ASSUME NEW k \in DOMAIN deliveries, HandleDelivery(k) PROVE TInv'
    <2> DEFINE d == deliveries[k]
    <2>1. d.inst \in Installations
      BY <1>t, TypeFacts DEF Delivery
    <2>2. /\ UNCHANGED <<github, hook, sync, changes, failures>> /\ TakeDelivery(k)
          /\ steady' = {} /\ disturbed' = disturbed \cup Disturbing(k) /\ RowsTyped'
      BY <1>2, HandleDeliveryEffect
    <2>3. GitHubIsSound' /\ deliveries' \in Seq(Delivery)
      BY <2>2, TakenIsSound DEF github
    <2>4. Disturbing(k) \subseteq Installations
      BY <2>1 DEF Disturbing
    <2>5. TypeOK'
      BY <1>t, <2>2, <2>3, <2>4 DEF TypeOK, github, RowsTyped, AccessTable
    <2> QED
      BY <1>t, <2>2, <2>3, <2>5 DEF TInv, SyncsAreOrderly
  <1>3. ASSUME NEW k \in DOMAIN deliveries, LoseDelivery(k) PROVE TInv'
    <2>1. deliveries[k].inst \in Installations
      BY <1>t, TypeFacts DEF Delivery
    <2>2. /\ UNCHANGED <<github, rows, hook, sync, changes, steady>> /\ TakeDelivery(k)
          /\ disturbed' = disturbed \cup {deliveries[k].inst}
      BY <1>3 DEF LoseDelivery
    <2>3. failures' \in 0 .. MaxFailures
      BY <1>t, <1>3 DEF LoseDelivery, TypeOK
    <2>4. GitHubIsSound' /\ deliveries' \in Seq(Delivery)
      BY <2>2, TakenIsSound DEF github
    <2>5. TypeOK'
      BY <1>t, <2>1, <2>2, <2>3, <2>4 DEF TypeOK, github, rows
    <2> QED
      BY <1>t, <2>2, <2>4, <2>5 DEF TInv, SyncsAreOrderly
  <1>4. ASSUME NEW k \in DOMAIN deliveries, NEW h \in Hooks, ListRepositories(h, k) PROVE TInv'
    <2>1. deliveries[k].inst \in Installations
      BY <1>t, TypeFacts DEF Delivery
    <2>2. /\ UNCHANGED <<github, rows, sync, changes, failures, steady>>
          /\ TakeDelivery(k) /\ disturbed' = disturbed \cup Disturbing(k)
          /\ hook' \in [Hooks -> Listing \cup {NoListing}]
      BY <1>4, ListRepositoriesEffect
    <2>3. GitHubIsSound' /\ deliveries' \in Seq(Delivery)
      BY <2>2, TakenIsSound DEF github
    <2>4. Disturbing(k) \subseteq Installations
      BY <2>1 DEF Disturbing
    <2>5. TypeOK'
      BY <1>t, <2>2, <2>3, <2>4 DEF TypeOK, github, rows
    <2> QED
      BY <1>t, <2>2, <2>3, <2>5 DEF TInv, SyncsAreOrderly
  <1>5. ASSUME NEW h \in Hooks, ApplyListing(h) PROVE TInv'
    <2>1. /\ UNCHANGED <<github, deliveries, sync, changes, failures, disturbed>> /\ steady' = {}
          /\ hook' = [hook EXCEPT ![h] = NoListing] /\ RowsTyped'
      BY <1>5, ApplyListingEffect
    <2>2. hook' \in [Hooks -> Listing \cup {NoListing}]
      BY <1>t, <2>1
    <2>3. TypeOK'
      BY <1>t, <2>1, <2>2 DEF TypeOK, github, RowsTyped, AccessTable
    <2> QED
      BY <1>k, <1>t, <2>1, <2>3 DEF TInv, SyncsAreOrderly
  <1>6. ASSUME NEW s \in Syncs, NEW u \in Users, ListInstallations(s, u) PROVE TInv'
    <2>1. /\ UNCHANGED <<github, deliveries, rows, hook, changes, failures, disturbed>>
          /\ steady' \in {steady, steady \cup {u}} /\ sync'[s].user = u /\ sync' \in [Syncs -> Sync]
          /\ \A t \in Syncs \ {s} : sync'[t] = sync[t]
          /\ sync'[s].step = "fetch" /\ sync'[s].at = {} /\ sync'[s].todo = sync'[s].visible
      BY <1>6, ListInstallationsEffect
    <2>2. SyncsAreOrderly'
      BY <2>1, OrderlyIsKept
    <2>3. TypeOK'
      BY <1>t, <2>1 DEF TypeOK, github, rows
    <2> QED
      BY <1>k, <2>1, <2>2, <2>3 DEF TInv
  <1>7. ASSUME NEW s \in Syncs, NEW i \in Installations, FetchRepositories(s, i) PROVE TInv'
    <2>1. /\ UNCHANGED <<github, deliveries, rows, hook, changes, failures, disturbed, steady>>
          /\ sync'[s].user \in Users /\ i \in sync[s].todo /\ sync' \in [Syncs -> Sync]
          /\ \A t \in Syncs \ {s} : sync'[t] = sync[t]
          /\ sync'[s].step = "apply" /\ sync'[s].at = {i}
          /\ sync'[s].todo = sync[s].todo \ {i} /\ sync'[s].visible = sync[s].visible
      BY <1>7, FetchRepositoriesEffect
    <2>2. sync[s].todo \subseteq sync[s].visible
      BY <1>t DEF SyncsAreOrderly
    <2>3. SyncsAreOrderly'
      BY <2>1, <2>2, OrderlyIsKept
    <2>4. TypeOK'
      BY <1>t, <2>1 DEF TypeOK, github, rows
    <2> QED
      BY <1>k, <2>1, <2>3, <2>4 DEF TInv
  <1>8. ASSUME NEW s \in Syncs, ApplyRepositories(s) PROVE TInv'
    <2>1. /\ UNCHANGED <<github, deliveries, hook, changes, failures, disturbed, steady>>
          /\ RowsTyped' /\ sync' \in [Syncs -> Sync] /\ sync'[s].user \in Users
          /\ \A t \in Syncs \ {s} : sync'[t] = sync[t]
          /\ sync'[s].step = "fetch" /\ sync'[s].at = {}
          /\ sync'[s].todo = sync[s].todo /\ sync'[s].visible = sync[s].visible
      BY <1>8, ApplyRepositoriesEffect
    <2>2. sync[s].todo \subseteq sync[s].visible
      BY <1>t DEF SyncsAreOrderly
    <2>3. SyncsAreOrderly'
      BY <2>1, <2>2, OrderlyIsKept
    <2>4. TypeOK'
      BY <1>t, <2>1 DEF TypeOK, github, RowsTyped, AccessTable
    <2> QED
      BY <1>k, <2>1, <2>3, <2>4 DEF TInv
  <1>9. ASSUME NEW s \in Syncs, FinishSync(s) PROVE TInv'
    <2>1. /\ UNCHANGED <<github, deliveries, installation, links, hook, changes, failures,
                         disturbed, steady>>
          /\ RowsTyped' /\ sync' \in [Syncs -> Sync] /\ sync'[s] = NoSync
          /\ \A t \in Syncs \ {s} : sync'[t] = sync[t]
      BY <1>9, FinishSyncEffect
    <2>2. SyncsAreOrderly'
      BY <2>1, NoSyncIsSync, OrderlyIsKept
    <2>3. TypeOK'
      BY <1>t, <2>1 DEF TypeOK, github, RowsTyped, AccessTable
    <2> QED
      BY <1>k, <2>1, <2>2, <2>3 DEF TInv
  <1>10. ASSUME NEW s \in Syncs, AbortSync(s) PROVE TInv'
    <2>1. /\ UNCHANGED <<github, deliveries, rows, hook, changes, disturbed>>
          /\ failures' \in 0 .. MaxFailures /\ steady' = steady \ {sync[s].user}
          /\ sync' \in [Syncs -> Sync] /\ sync'[s] = NoSync
          /\ \A t \in Syncs \ {s} : sync'[t] = sync[t]
      BY <1>10, AbortSyncEffect
    <2>2. SyncsAreOrderly'
      BY <2>1, NoSyncIsSync, OrderlyIsKept
    <2>3. TypeOK'
      BY <1>t, <2>1 DEF TypeOK, github, rows
    <2> QED
      BY <1>k, <2>1, <2>2, <2>3 DEF TInv
  <1>11. CASE UNCHANGED vars
    BY <1>11, <1>t, <1>k DEF TInv, TypeOK, SyncsAreOrderly, vars, github, rows
  <1> QED
    BY <1>1, <1>2, <1>3, <1>4, <1>5, <1>6, <1>7, <1>8, <1>9, <1>10, <1>11
    DEF Next, WebhookStep, SyncStep

-----------------------------------------------------------------------------
(* Synchronisations that nothing has disturbed.                            *)

(* An access row names an installation.                                    *)
LEMMA RowFacts ==
    ASSUME TInv, NEW u \in Users, NEW r \in Repos
    PROVE  /\ access[u][r] \in Access \cup {NoAccess}
           /\ access[u][r] # NoAccess => access[u][r].inst \in Installations
           /\ access[u][r] = NoAccess => access[u][r].inst = "none"
  <1>1. access[u][r] \in Access \cup {NoAccess}
    BY TypeFacts DEF RowsTyped, AccessTable
  <1>2. \A a \in Access : a.inst \in Installations
    BY DEF Access
  <1>3. NoAccess.inst = "none"
    BY DEF NoAccess
  <1> QED
    BY <1>1, <1>2, <1>3

LEMMA RightRow ==
    ASSUME NEW u, NEW r, NEW i, RowIsRight(u, r, i)
    PROVE  access[u][r].inst = i
  <1>1. access[u][r] = [inst |-> i, admin |-> role[u][r] = "admin"]
    BY DEF RowIsRight
  <1> QED
    BY <1>1

(* A repository is shown by one installation.                              *)
LEMMA ShownByOne ==
    ASSUME TInv, NEW u, NEW i \in Installations, NEW j \in Installations, NEW r,
           r \in Visible(u, i), r \in Visible(u, j)
    PROVE  i = j /\ r \in Repos
  <1>1. r \in granted[i] /\ r \in granted[j]
    BY DEF Visible
  <1>2. granted[i] \subseteq Repos
    BY TypeFacts
  <1> QED
    BY <1>1, <1>2 DEF TInv, GitHubIsSound

LEMMA SInvImplies ==
    ASSUME InstallationAssumption, TInv, SInv PROVE SyncedAccessIsGitHubs
  <1> SUFFICES ASSUME NEW u \in steady, NEW r \in Repos, Syncing(u) = {},
                      access[u][r] # NoAccess => Visible(u, access[u][r].inst) # {}
               PROVE  /\ CanAccess(u, r) <=> \E i \in Installations :
                           standing[i] = "active" /\ r \in Visible(u, i)
                      /\ CanAccess(u, r) => (CanAdminister(u, r) <=> role[u][r] = "admin")
                      /\ CanAccess(u, r) => access[u][r].inst \in ActiveInstallations(r)
    BY DEF SyncedAccessIsGitHubs
  <1>1. IsRight(u) /\ u \in Users /\ access[u][r] \in Access \cup {NoAccess}
    BY TypeFacts DEF SInv, TInv, TypeOK, RowsTyped, AccessTable
  <1>r. \A i \in Installations : standing[i] = "active" /\ r \in Visible(u, i) =>
          RowIsRight(u, r, i)
    BY <1>1 DEF IsRight, ShownAreRight, Pending
  <1>2. CASE access[u][r] = NoAccess
    <2>1. ~CanAccess(u, r)
      BY <1>2 DEF CanAccess
    <2>2. ASSUME NEW i \in Installations, standing[i] = "active", r \in Visible(u, i) PROVE FALSE
      <3>1. access[u][r].inst = i
        BY <1>r, <2>2, RightRow
      <3>2. i = "none"
        BY <1>2, <3>1 DEF NoAccess
      <3> QED
        BY <3>2 DEF InstallationAssumption
    <2> QED
      BY <2>1, <2>2
  <1>3. CASE access[u][r] # NoAccess
    <2> DEFINE i == access[u][r].inst
    <2>1. i \in Installations
      BY <1>1, <1>3 DEF Access
    <2>2. standing[i] = "active" /\ r \in Visible(u, i)
      BY <1>1, <1>3 DEF IsRight, RowsHaveReasons, HasReason, Pending
    <2>3. RowIsRight(u, r, i)
      BY <1>r, <2>1, <2>2
    <2>4. access[u][r].admin <=> role[u][r] = "admin"
      <3>1. access[u][r] = [inst |-> i, admin |-> role[u][r] = "admin"]
        BY <2>3 DEF RowIsRight
      <3> HIDE DEF i
      <3>2. access[u][r].admin = (role[u][r] = "admin")
        BY <3>1
      <3> QED
        BY <3>2
    <2>5. CanAccess(u, r)
      BY <1>3, <2>3 DEF CanAccess, RowIsRight
    <2>6. i \in ActiveInstallations(r)
      BY <2>1, <2>3 DEF ActiveInstallations, RowIsRight
    <2> QED
      BY <2>1, <2>2, <2>4, <2>5, <2>6 DEF CanAdminister
  <1> QED
    BY <1>2, <1>3

(* What others do to a user's rows and synchronisations: links are added   *)
(* and installations marked active.                                        *)
RowsGrow ==
    /\ UNCHANGED github
    /\ \A i \in Installations : installation[i] = "active" => installation'[i] = "active"
    /\ \A i \in Installations, r \in Repos : <<i, r>> \in links => <<i, r>> \in links'

LEMMA GrownFacts ==
    ASSUME RowsGrow, NEW u
    PROVE  /\ \A i : Visible(u, i)' = Visible(u, i)
           /\ \A i : standing'[i] = standing[i] /\ granted'[i] = granted[i]
           /\ role' = role
           /\ \A i \in Installations, r \in Repos :
                access'[u][r] = access[u][r] /\ RowIsRight(u, r, i) => RowIsRight(u, r, i)'
  BY DEF RowsGrow, github, Visible, RowIsRight

LEMMA RightStaysRight ==
    ASSUME TInv, NEW u \in Users, IsRight(u), RowsGrow, access'[u] = access[u],
           Syncing(u)' = Syncing(u), \A s \in Syncing(u) : sync'[s] = sync[s]
    PROVE  IsRight(u)'
  <1>1. /\ \A i : Visible(u, i)' = Visible(u, i)
        /\ \A i : standing'[i] = standing[i] /\ granted'[i] = granted[i]
        /\ role' = role
        /\ \A i \in Installations, r \in Repos : RowIsRight(u, r, i) => RowIsRight(u, r, i)'
    BY GrownFacts
  <1>2. \A s \in Syncing(u) : Awaited(s)' = Awaited(s)
    BY DEF Awaited
  <1>3. \A i : Pending(u, i)' <=> Pending(u, i)
    BY <1>2 DEF Pending
  <1>4. ShownAreRight(u)'
    BY <1>1, <1>3 DEF IsRight, ShownAreRight
  <1>5. RowsHaveReasons(u)'
    BY <1>1, <1>3 DEF IsRight, RowsHaveReasons, HasReason
  <1>6. ASSUME NEW s \in Syncing(u) PROVE IsTrue(s, u)'
    <2>1. IsTrue(s, u) /\ sync'[s] = sync[s] /\ Awaited(s)' = Awaited(s)
      BY <1>2, <1>6 DEF IsRight
    <2> QED
      BY <1>1, <2>1 DEF IsTrue
  <1> QED
    BY <1>4, <1>5, <1>6 DEF IsRight

(* A synchronisation of another user leaves those of this one.             *)
LEMMA SyncingFacts ==
    ASSUME NEW s \in Syncs, \A t \in Syncs \ {s} : sync'[t] = sync[t], NEW u
    PROVE  /\ \A t \in Syncs \ {s} : t \in Syncing(u)' <=> t \in Syncing(u)
           /\ \A t \in Syncs \ {s} : Awaited(t)' = Awaited(t)
           /\ s \in Syncing(u)' <=> sync'[s].step # "idle" /\ sync'[s].user = u
           /\ s \in Syncing(u) <=> sync[s].step # "idle" /\ sync[s].user = u
           /\ Syncing(u) \subseteq Syncs /\ Syncing(u)' \subseteq Syncs
           /\ (s \in Syncing(u)' <=> s \in Syncing(u)) => Syncing(u)' = Syncing(u)
  <1>1. /\ \A t \in Syncs \ {s} : t \in Syncing(u)' <=> t \in Syncing(u)
        /\ \A t \in Syncs \ {s} : Awaited(t)' = Awaited(t)
        /\ s \in Syncing(u)' <=> sync'[s].step # "idle" /\ sync'[s].user = u
        /\ s \in Syncing(u) <=> sync[s].step # "idle" /\ sync[s].user = u
        /\ Syncing(u) \subseteq Syncs /\ Syncing(u)' \subseteq Syncs
    BY DEF Syncing, Awaited
  <1> DEFINE before == Syncing(u)
             after == Syncing(u)'
  <1>2. /\ \A t \in Syncs \ {s} : t \in after <=> t \in before
        /\ before \subseteq Syncs /\ after \subseteq Syncs
    BY <1>1
  <1> HIDE DEF before, after
  <1>3. (s \in after <=> s \in before) => after = before
    BY <1>2
  <1> QED
    BY <1>1, <1>3 DEF before, after

LEMMA ListKeepsRight ==
    ASSUME InstallationAssumption, TInv, NEW s \in Syncs, NEW u \in Users,
           ListInstallations(s, u), Syncing(u) # {} => IsRight(u)
    PROVE  IsRight(u)'
  <1>1. /\ UNCHANGED <<github, rows>> /\ sync[s].step = "idle" /\ sync'[s].user = u
        /\ sync'[s].step = "fetch" /\ sync'[s].at = {}
        /\ sync'[s].todo = sync'[s].visible /\ sync'[s].doomed = {}
        /\ \A i \in sync'[s].visible : standing[i] = "active"
        /\ \A i \in Installations : standing[i] = "active" /\ Visible(u, i) # {} =>
             i \in sync'[s].visible
        /\ \A t \in Syncs \ {s} : sync'[t] = sync[t]
    BY ListInstallationsEffect
  <1>2. RowsGrow /\ access' = access
    BY <1>1 DEF RowsGrow, rows
  <1>3. /\ \A i : Visible(u, i)' = Visible(u, i)
        /\ \A i : standing'[i] = standing[i] /\ granted'[i] = granted[i]
        /\ role' = role
    BY <1>2, GrownFacts
  <1>4. /\ \A t \in Syncing(u) : t \in Syncing(u)' /\ Awaited(t)' = Awaited(t)
                                 /\ sync'[t] = sync[t] /\ t # s
        /\ \A t \in Syncing(u)' : t = s \/ t \in Syncing(u)
        /\ s \in Syncing(u)'
    BY <1>1, SyncingFacts
  <1>5. Awaited(s)' = sync'[s].visible
    BY <1>1 DEF Awaited
  <1>6. \A i \in Installations : standing[i] = "active" /\ Visible(u, i) # {} => Pending(u, i)'
    BY <1>1, <1>4, <1>5 DEF Pending
  <1>7. ShownAreRight(u)'
    BY <1>3, <1>6 DEF ShownAreRight
  <1>8. RowsHaveReasons(u)'
    <2> SUFFICES ASSUME NEW r \in Repos, access[u][r] # NoAccess,
                        NEW j, j = access[u][r].inst
                 PROVE  HasReason(u, r, j)'
      BY <1>2 DEF RowsHaveReasons
    <2>1. j \in Installations
      BY RowFacts
    <2>2. Syncing(u)' # {}
      BY <1>4
    <2> QED
      BY <1>3, <1>6, <2>1, <2>2 DEF HasReason
  <1>9. IsTrue(s, u)'
    BY <1>1, <1>3, <1>5 DEF IsTrue
  <1>10. ASSUME NEW t \in Syncing(u) PROVE IsTrue(t, u)'
    <2>1. IsTrue(t, u)
      BY <1>10 DEF IsRight
    <2> QED
      BY <1>2, <1>3, <1>4, <2>1 DEF IsTrue
  <1> QED
    BY <1>4, <1>7, <1>8, <1>9, <1>10 DEF IsRight

LEMMA FetchKeepsRight ==
    ASSUME TInv, NEW s \in Syncs, NEW i \in Installations, FetchRepositories(s, i),
           NEW u, u = sync[s].user, IsRight(u)
    PROVE  IsRight(u)'
  <1>1. /\ UNCHANGED <<github, rows>> /\ u \in Users /\ sync'[s].user = u
        /\ sync[s].step = "fetch" /\ i \in sync[s].todo
        /\ sync'[s].step = "apply" /\ sync'[s].at = {i} /\ sync'[s].todo = sync[s].todo \ {i}
        /\ sync'[s].visible = sync[s].visible /\ sync'[s].doomed = sync[s].doomed
        /\ \A r \in Repos : sync'[s].seen[r] = IF r \in granted[i] THEN role[u][r] ELSE "none"
        /\ \A t \in Syncs \ {s} : sync'[t] = sync[t]
    BY FetchRepositoriesEffect
  <1>2. RowsGrow /\ access' = access
    BY <1>1 DEF RowsGrow, rows
  <1>3. /\ \A j : Visible(u, j)' = Visible(u, j)
        /\ \A j : standing'[j] = standing[j] /\ granted'[j] = granted[j]
        /\ role' = role
        /\ \A j \in Installations, r \in Repos : RowIsRight(u, r, j) => RowIsRight(u, r, j)'
    BY <1>2, GrownFacts
  <1>4. Awaited(s)' = Awaited(s)
    BY <1>1 DEF Awaited, TInv, SyncsAreOrderly
  <1>5. s \in Syncing(u) /\ Syncing(u)' = Syncing(u) /\ \A t \in Syncing(u) : t \in Syncs
    <2>1. s \in Syncing(u) /\ s \in Syncing(u)'
      BY <1>1, SyncingFacts
    <2> QED
      BY <1>1, <2>1, SyncingFacts
  <1>6. \A t \in Syncing(u) : Awaited(t)' = Awaited(t) /\ sync'[t].doomed = sync[t].doomed
    BY <1>1, <1>4, <1>5, SyncingFacts
  <1>7. \A j : Pending(u, j)' <=> Pending(u, j)
    BY <1>5, <1>6 DEF Pending
  <1>8. ShownAreRight(u)'
    BY <1>3, <1>7 DEF IsRight, ShownAreRight
  <1>9. RowsHaveReasons(u)'
    BY <1>2, <1>3, <1>5, <1>6, <1>7 DEF IsRight, RowsHaveReasons, HasReason
  <1>10. ASSUME NEW t \in Syncing(u) PROVE IsTrue(t, u)'
    <2>1. IsTrue(t, u) /\ t \in Syncs
      BY <1>5, <1>10 DEF IsRight
    <2>2. sync'[t].visible = sync[t].visible
      BY <1>1, <2>1
    <2>3. \A j \in sync'[t].at, r \in Repos :
            sync'[t].seen[r] = IF r \in granted[j] THEN role[u][r] ELSE "none"
      BY <1>1, <2>1 DEF IsTrue
    <2> QED
      BY <1>2, <1>3, <1>6, <2>1, <2>2, <2>3 DEF IsTrue
  <1> QED
    BY <1>5, <1>8, <1>9, <1>10 DEF IsRight

LEMMA ApplyKeepsRight ==
    ASSUME InstallationAssumption, TInv, NEW s \in Syncs, ApplyRepositories(s),
           NEW u, u = sync[s].user, IsRight(u)
    PROVE  IsRight(u)'
  <1>1. PICK i \in sync[s].at :
          /\ UNCHANGED github /\ u \in Users /\ sync'[s].user = u
          /\ sync[s].step = "apply" /\ i \in Installations /\ sync[s].at = {i}
          /\ installation'[i] = "active"
          /\ \A j \in Installations \ {i} : installation'[j] = installation[j]
          /\ \A j \in Installations, r \in Repos : <<j, r>> \in links' <=>
               (j = i /\ r \in SeenBy(s)) \/ <<j, r>> \in links
          /\ \A t \in Syncs \ {s} : sync'[t] = sync[t]
          /\ \A r \in Repos : access'[u][r] =
               IF r \in SeenBy(s) THEN [inst |-> i, admin |-> sync[s].seen[r] = "admin"]
               ELSE IF r \in sync[s].doomed THEN NoAccess ELSE access[u][r]
          /\ sync'[s].step = "fetch" /\ sync'[s].at = {}
          /\ sync'[s].todo = sync[s].todo /\ sync'[s].visible = sync[s].visible
          /\ \A r \in Repos : r \in sync'[s].doomed <=>
               SeenBy(s) # {} /\ r \notin SeenBy(s) /\ access'[u][r].inst = i
    BY ApplyRepositoriesEffect
  <1>2. RowsGrow
    BY <1>1 DEF RowsGrow
  <1>3. /\ \A j : Visible(u, j)' = Visible(u, j)
        /\ \A j : standing'[j] = standing[j] /\ granted'[j] = granted[j]
        /\ role' = role
        /\ \A j \in Installations, r \in Repos :
             access'[u][r] = access[u][r] /\ RowIsRight(u, r, j) => RowIsRight(u, r, j)'
    BY <1>2, GrownFacts
  <1>4. /\ s \in Syncing(u) /\ Syncing(u)' = Syncing(u)
        /\ \A t \in Syncing(u) \ {s} : t \in Syncs /\ sync'[t] = sync[t]
                                       /\ Awaited(t)' = Awaited(t)
    BY <1>1, SyncingFacts
  <1>5. IsTrue(s, u) /\ standing[i] = "active"
    <2>1. IsTrue(s, u)
      BY <1>4 DEF IsRight
    <2> QED
      BY <1>1, <2>1 DEF IsTrue, TInv, SyncsAreOrderly
  <1>6. Awaited(s) = Awaited(s)' \cup {i} /\ i \in Awaited(s)
    BY <1>1 DEF Awaited
  <1>7. \A r \in Repos : r \in SeenBy(s) <=> r \in Visible(u, i)
    BY <1>1, <1>5 DEF IsTrue, SeenBy, Visible
  <1>8. \A r \in Repos : r \in Visible(u, i) => sync[s].seen[r] = role[u][r]
    BY <1>1, <1>5 DEF IsTrue, Visible
  <1>9. SeenBy(s) = Visible(u, i)
    <2>1. granted[i] \subseteq Repos
      BY <1>1, TypeFacts
    <2> QED
      BY <1>7, <2>1 DEF SeenBy, Visible
  (* The rows of what is shown by the installation, and of the rest.       *)
  <1>10. ASSUME NEW r \in Repos, r \in Visible(u, i)
         PROVE  RowIsRight(u, r, i)' /\ access'[u][r].inst = i
    <2>1. access'[u][r] = [inst |-> i, admin |-> role[u][r] = "admin"]
      BY <1>1, <1>7, <1>8, <1>10
    <2>2. RowIsRight(u, r, i)'
      BY <1>1, <1>3, <1>7, <1>10, <2>1 DEF RowIsRight
    <2> QED
      BY <2>1, <2>2
  <1>11. ASSUME NEW r \in Repos, r \notin Visible(u, i)
         PROVE  access'[u][r] = IF r \in sync[s].doomed THEN NoAccess ELSE access[u][r]
    BY <1>1, <1>7, <1>11
  <1>12. ASSUME NEW j, j # i, Pending(u, j) PROVE Pending(u, j)'
    <2>1. PICK t \in Syncing(u) : j \in Awaited(t)
      BY <1>12 DEF Pending
    <2>2. j \in Awaited(t)'
      BY <1>4, <1>6, <1>12, <2>1
    <2> QED
      BY <1>4, <2>2 DEF Pending
  <1>13. ASSUME NEW j \in Installations, NEW r \in Repos,
                standing[j] = "active", r \in Visible(u, j)
         PROVE  RowIsRight(u, r, j)' \/ Pending(u, j)'
    <2>1. CASE j = i
      BY <1>10, <1>13, <2>1
    <2>2. CASE j # i /\ r \in sync[s].doomed
      <3>1. j \in Awaited(s)'
        BY <1>5, <1>6, <1>13, <2>2 DEF IsTrue
      <3> QED
        BY <1>4, <3>1 DEF Pending
    <2>3. CASE j # i /\ r \notin sync[s].doomed
      <3>1. r \notin Visible(u, i)
        BY <1>1, <1>13, <2>3, ShownByOne
      <3>2. access'[u][r] = access[u][r]
        BY <1>11, <2>3, <3>1
      <3>3. RowIsRight(u, r, j) \/ Pending(u, j)
        BY <1>13 DEF IsRight, ShownAreRight
      <3> QED
        BY <1>3, <1>12, <2>3, <3>2, <3>3
    <2> QED
      BY <2>1, <2>2, <2>3
  <1>14. ShownAreRight(u)'
    BY <1>3, <1>13 DEF ShownAreRight
  <1>15. ASSUME NEW r \in Repos, access'[u][r] # NoAccess, NEW j, j = access'[u][r].inst
         PROVE  HasReason(u, r, j)'
    <2>1. CASE r \in Visible(u, i)
      BY <1>3, <1>5, <1>10, <1>15, <2>1 DEF HasReason
    <2>2. CASE r \notin Visible(u, i)
      <3>1. access'[u][r] = access[u][r] /\ r \notin sync[s].doomed
        BY <1>11, <1>15, <2>2
      <3>2. HasReason(u, r, j)
        BY <1>15, <3>1 DEF IsRight, RowsHaveReasons
      <3>3. CASE j = i
        <4>1. Visible(u, i) = {} \/ r \in sync'[s].doomed
          BY <1>1, <1>9, <1>15, <2>2, <3>3
        <4> QED
          BY <1>3, <1>4, <1>5, <3>3, <4>1 DEF HasReason
      <3>4. CASE j # i
        <4>1. Pending(u, j) => Pending(u, j)'
          BY <1>12, <3>4
        <4>2. (\E t \in Syncing(u) : r \in sync[t].doomed) =>
                \E t \in Syncing(u)' : r \in sync'[t].doomed
          BY <1>4, <3>1
        <4> QED
          BY <1>3, <1>4, <3>2, <4>1, <4>2 DEF HasReason
      <3> QED
        BY <3>3, <3>4
    <2> QED
      BY <2>1, <2>2
  <1>16. RowsHaveReasons(u)'
    BY <1>15 DEF RowsHaveReasons
  (* What a synchronisation has applied belongs to no other installation.  *)
  <1>17. ASSUME NEW j \in Installations, NEW r \in Repos, r \in Visible(u, j),
                access[u][r].inst \in {j, "none"} \/ j = i
         PROVE  access'[u][r].inst \in {j, "none"}
    <2>1. CASE r \in Visible(u, i)
      BY <1>1, <1>10, <1>17, <2>1, ShownByOne
    <2>2. CASE r \notin Visible(u, i)
      BY <1>11, <1>17, <2>2 DEF NoAccess
    <2> QED
      BY <2>1, <2>2
  <1>18. ASSUME NEW t \in Syncing(u), t # s PROVE IsTrue(t, u)'
    <2>1. IsTrue(t, u) /\ sync'[t] = sync[t] /\ Awaited(t)' = Awaited(t)
      BY <1>4, <1>18 DEF IsRight
    <2>2. ASSUME NEW j \in Installations \ Awaited(t), NEW r \in Repos,
                 standing[j] = "active", r \in Visible(u, j)
          PROVE  r \notin sync[t].doomed /\ access'[u][r].inst \in {j, "none"}
      BY <1>17, <2>1, <2>2 DEF IsTrue
    <2> QED
      BY <1>3, <2>1, <2>2 DEF IsTrue
  <1>19. IsTrue(s, u)'
    <2>1. ASSUME NEW j \in Installations, j \notin Awaited(s)', NEW r \in Repos,
                 standing[j] = "active", r \in Visible(u, j)
          PROVE  r \notin sync'[s].doomed /\ access'[u][r].inst \in {j, "none"}
      <3>1. access[u][r].inst \in {j, "none"} \/ j = i
        BY <1>5, <1>6, <2>1 DEF IsTrue
      <3>2. access'[u][r].inst \in {j, "none"}
        BY <1>17, <2>1, <3>1
      <3>3. r \notin sync'[s].doomed
        <4> SUFFICES ASSUME r \in sync'[s].doomed PROVE FALSE
          OBVIOUS
        <4>1. r \notin Visible(u, i) /\ access'[u][r].inst = i
          BY <1>1, <1>9
        <4> QED
          BY <1>1, <2>1, <3>2, <4>1 DEF InstallationAssumption
      <3> QED
        BY <3>2, <3>3
    <2> QED
      BY <1>1, <1>3, <1>5, <2>1 DEF IsTrue
  <1> QED
    BY <1>4, <1>14, <1>16, <1>18, <1>19 DEF IsRight

LEMMA FinishKeepsRight ==
    ASSUME InstallationAssumption, TInv, NEW s \in Syncs, FinishSync(s),
           NEW u, u = sync[s].user, IsRight(u)
    PROVE  IsRight(u)'
  <1>1. /\ UNCHANGED <<github, installation, links>> /\ u \in Users
        /\ sync[s].step = "fetch" /\ sync[s].todo = {} /\ sync'[s] = NoSync
        /\ \A t \in Syncs \ {s} : sync'[t] = sync[t]
        /\ \A r \in Repos : access'[u][r] =
             IF KeepsRow(s, access[u][r], r) THEN access[u][r] ELSE NoAccess
    BY FinishSyncEffect
  <1>2. RowsGrow
    BY <1>1 DEF RowsGrow
  <1>3. /\ \A j : Visible(u, j)' = Visible(u, j)
        /\ \A j : standing'[j] = standing[j] /\ granted'[j] = granted[j]
        /\ role' = role
        /\ \A j \in Installations, r \in Repos :
             access'[u][r] = access[u][r] /\ RowIsRight(u, r, j) => RowIsRight(u, r, j)'
    BY <1>2, GrownFacts
  <1>4. /\ s \in Syncing(u)
        /\ \A t \in Syncing(u)' : t \in Syncing(u) /\ t # s
        /\ \A t \in Syncing(u) \ {s} : t \in Syncing(u)' /\ sync'[t] = sync[t]
                                       /\ Awaited(t)' = Awaited(t)
    BY <1>1, SyncingFacts, NoSyncIsSync
  <1>5. IsTrue(s, u) /\ Awaited(s) = {}
    BY <1>1, <1>4 DEF IsRight, TInv, SyncsAreOrderly, Awaited
  <1>6. \A j : Pending(u, j) => Pending(u, j)'
    BY <1>4, <1>5 DEF Pending
  <1>7. ASSUME NEW j \in Installations, NEW r \in Repos,
               standing[j] = "active", r \in Visible(u, j)
        PROVE  RowIsRight(u, r, j)' \/ Pending(u, j)'
    <2>1. CASE RowIsRight(u, r, j)
      <3>1. access[u][r].inst = j
        BY <2>1, RightRow
      <3>2. r \notin sync[s].doomed /\ j \in sync[s].visible
        BY <1>5, <1>7 DEF IsTrue
      <3>3. access'[u][r] = access[u][r]
        BY <1>1, <3>1, <3>2 DEF KeepsRow
      <3> QED
        BY <1>3, <2>1, <3>3
    <2>2. CASE Pending(u, j)
      BY <1>6, <2>2
    <2> QED
      BY <1>7, <2>1, <2>2 DEF IsRight, ShownAreRight
  <1>8. ShownAreRight(u)'
    BY <1>3, <1>7 DEF ShownAreRight
  <1>9. ASSUME NEW r \in Repos, access'[u][r] # NoAccess, NEW j, j = access'[u][r].inst
        PROVE  HasReason(u, r, j)'
    <2>1. access'[u][r] = access[u][r] /\ r \notin sync[s].doomed /\ j \in sync[s].visible
      BY <1>1, <1>9 DEF KeepsRow
    <2>2. HasReason(u, r, j)
      BY <1>9, <2>1 DEF IsRight, RowsHaveReasons
    <2>3. standing[j] = "active"
      BY <1>5, <2>1 DEF IsTrue
    <2>4. (\E t \in Syncing(u) : r \in sync[t].doomed) =>
            \E t \in Syncing(u)' : r \in sync'[t].doomed
      BY <1>4, <2>1
    <2> QED
      BY <1>3, <1>6, <2>2, <2>3, <2>4 DEF HasReason
  <1>10. RowsHaveReasons(u)'
    BY <1>9 DEF RowsHaveReasons
  <1>11. ASSUME NEW t \in Syncing(u)' PROVE IsTrue(t, u)'
    <2>1. IsTrue(t, u) /\ sync'[t] = sync[t] /\ Awaited(t)' = Awaited(t)
      BY <1>4, <1>11 DEF IsRight
    <2>2. \A r \in Repos : access'[u][r] \in {access[u][r], NoAccess}
      BY <1>1
    <2>3. ASSUME NEW j \in Installations \ Awaited(t), NEW r \in Repos,
                 standing[j] = "active", r \in Visible(u, j)
          PROVE  r \notin sync[t].doomed /\ access'[u][r].inst \in {j, "none"}
      BY <2>1, <2>2, <2>3 DEF IsTrue, NoAccess
    <2> QED
      BY <1>3, <2>1, <2>3 DEF IsTrue
  <1> QED
    BY <1>8, <1>10, <1>11 DEF IsRight

LEMMA NextSInv == InstallationAssumption /\ TInv /\ SInv /\ [Next]_vars => SInv'
  <1> SUFFICES ASSUME InstallationAssumption, TInv, SInv, [Next]_vars PROVE SInv'
    OBVIOUS
  <1>t. steady \subseteq Users
    BY DEF TInv, TypeOK
  <1>1. CASE steady' = {}
    BY <1>1 DEF SInv
  <1>2. CASE UNCHANGED <<github, rows, sync, steady>>
    <2>1. RowsGrow /\ access' = access
      BY <1>2 DEF RowsGrow, rows
    <2>2. \A u : Syncing(u)' = Syncing(u)
      BY <1>2 DEF Syncing
    <2> QED
      BY <1>2, <1>t, <2>1, <2>2, RightStaysRight DEF SInv
  (* A step of one of a user's synchronisations leaves the other users.    *)
  <1>o. ASSUME NEW s \in Syncs, NEW u, \A t \in Syncs \ {s} : sync'[t] = sync[t],
               sync[s].step = "idle" \/ sync[s].user = u,
               sync'[s].step = "idle" \/ sync'[s].user = u,
               RowsGrow, NEW v \in Users, v # u, access'[v] = access[v], IsRight(v)
        PROVE  IsRight(v)'
    <2>1. s \notin Syncing(v) /\ s \notin Syncing(v)'
      BY <1>o, SyncingFacts
    <2>2. Syncing(v)' = Syncing(v) /\ \A t \in Syncing(v) : sync'[t] = sync[t]
      BY <1>o, <2>1, SyncingFacts
    <2> QED
      BY <1>o, <2>2, RightStaysRight
  <1>3. ASSUME NEW s \in Syncs, NEW u \in Users, ListInstallations(s, u) PROVE SInv'
    <2>1. /\ UNCHANGED <<github, rows>>
          /\ steady' = IF Syncing(u) = {} THEN steady \cup {u} ELSE steady
          /\ sync[s].step = "idle" /\ sync'[s].user = u
          /\ \A t \in Syncs \ {s} : sync'[t] = sync[t]
      BY <1>3, ListInstallationsEffect
    <2>2. RowsGrow /\ access' = access
      BY <2>1 DEF RowsGrow, rows
    <2>3. \A v \in steady \ {u} : IsRight(v)'
      BY <1>o, <1>t, <2>1, <2>2 DEF SInv
    <2>4. u \in steady' => IsRight(u)'
      BY <1>3, <2>1, ListKeepsRight DEF SInv
    <2> QED
      BY <2>1, <2>3, <2>4 DEF SInv
  <1>4. ASSUME NEW s \in Syncs, NEW i \in Installations, FetchRepositories(s, i) PROVE SInv'
    <2>u. PICK u \in Users : u = sync[s].user
      BY <1>4, FetchRepositoriesEffect
    <2>1. /\ UNCHANGED <<github, rows, steady>> /\ sync'[s].user = u
          /\ \A t \in Syncs \ {s} : sync'[t] = sync[t]
      BY <1>4, <2>u, FetchRepositoriesEffect
    <2>2. RowsGrow /\ access' = access
      BY <2>1 DEF RowsGrow, rows
    <2>3. \A v \in steady \ {u} : IsRight(v)'
      BY <1>o, <1>t, <2>u, <2>1, <2>2 DEF SInv
    <2>4. ASSUME u \in steady PROVE IsRight(u)'
      <3>1. IsRight(u)
        BY <2>4 DEF SInv
      <3> QED
        BY <1>4, <2>u, <3>1, FetchKeepsRight
    <2> QED
      BY <2>1, <2>3, <2>4 DEF SInv
  <1>5. ASSUME NEW s \in Syncs, ApplyRepositories(s) PROVE SInv'
    <2>u. PICK u \in Users : u = sync[s].user
      BY <1>5, ApplyRepositoriesEffect
    <2>1. /\ UNCHANGED <<github, steady>> /\ sync'[s].user = u
          /\ \A v \in Users \ {u} : access'[v] = access[v]
          /\ \A t \in Syncs \ {s} : sync'[t] = sync[t]
          /\ \A i \in Installations : installation[i] = "active" => installation'[i] = "active"
          /\ \A i \in Installations, r \in Repos : <<i, r>> \in links => <<i, r>> \in links'
      BY <1>5, <2>u, ApplyRepositoriesEffect
    <2>2. RowsGrow
      BY <2>1 DEF RowsGrow
    <2>3. \A v \in steady \ {u} : IsRight(v)'
      BY <1>o, <1>t, <2>u, <2>1, <2>2 DEF SInv
    <2>4. ASSUME u \in steady PROVE IsRight(u)'
      <3>1. IsRight(u)
        BY <2>4 DEF SInv
      <3> QED
        BY <1>5, <2>u, <3>1, ApplyKeepsRight
    <2> QED
      BY <2>1, <2>3, <2>4 DEF SInv
  <1>6. ASSUME NEW s \in Syncs, FinishSync(s) PROVE SInv'
    <2>u. PICK u \in Users : u = sync[s].user
      BY <1>6, FinishSyncEffect
    <2>1. /\ UNCHANGED <<github, installation, links, steady>> /\ sync'[s].step = "idle"
          /\ \A v \in Users \ {u} : access'[v] = access[v]
          /\ \A t \in Syncs \ {s} : sync'[t] = sync[t]
      BY <1>6, <2>u, FinishSyncEffect, NoSyncIsSync
    <2>2. RowsGrow
      BY <2>1 DEF RowsGrow
    <2>3. \A v \in steady \ {u} : IsRight(v)'
      BY <1>o, <1>t, <2>u, <2>1, <2>2 DEF SInv
    <2>4. ASSUME u \in steady PROVE IsRight(u)'
      <3>1. IsRight(u)
        BY <2>4 DEF SInv
      <3> QED
        BY <1>6, <2>u, <3>1, FinishKeepsRight
    <2> QED
      BY <2>1, <2>3, <2>4 DEF SInv
  <1>7. ASSUME NEW s \in Syncs, AbortSync(s) PROVE SInv'
    <2> DEFINE u == sync[s].user
    <2>1. /\ UNCHANGED <<github, rows>> /\ steady' = steady \ {u} /\ sync'[s].step = "idle"
          /\ \A t \in Syncs \ {s} : sync'[t] = sync[t]
      BY <1>7, AbortSyncEffect, NoSyncIsSync
    <2>2. RowsGrow /\ access' = access
      BY <2>1 DEF RowsGrow, rows
    <2>3. \A v \in steady \ {u} : IsRight(v)'
      BY <1>o, <1>t, <2>1, <2>2 DEF SInv
    <2> QED
      BY <2>1, <2>3 DEF SInv
  <1>8. \/ steady' = {}
        \/ UNCHANGED <<github, rows, sync, steady>>
        \/ SyncStep
    <2>1. CASE GitHubStep
      BY <2>1, GitHubEffect
    <2>2. CASE WebhookStep
      BY <2>2 DEF WebhookStep, HandleDelivery, LoseDelivery, ListRepositories, ApplyListing
    <2>3. CASE UNCHANGED vars
      BY <2>3 DEF vars
    <2> QED
      BY <2>1, <2>2, <2>3 DEF Next
  <1> QED
    BY <1>1, <1>2, <1>3, <1>4, <1>5, <1>6, <1>7, <1>8 DEF SyncStep

-----------------------------------------------------------------------------
(* Pending deliveries bring the rows to what GitHub says.                  *)

(* A step that leaves what concerns an installation alone, but for taking  *)
(* or adding deliveries about others and ending synchronisations.          *)
SameAt(i) ==
    /\ standing'[i] = standing[i] /\ granted'[i] = granted[i]
    /\ installation'[i] = installation[i]
    /\ \A r \in Repos : <<i, r>> \in links' <=> <<i, r>> \in links
    /\ \A h \in Hooks : HookAt(h, i)' <=> HookAt(h, i)
    /\ \A h \in Hooks : HookAt(h, i) => hook'[h] = hook[h]
    /\ \A s \in Syncs : i \in sync'[s].at => i \in sync[s].at /\ sync'[s].seen = sync[s].seen

SameQueueAt(i, f) ==
    /\ \A j \in DOMAIN deliveries' : About(j, i)' =>
         f[j] \in DOMAIN deliveries /\ deliveries'[j] = deliveries[f[j]]
    /\ \A m \in DOMAIN deliveries : About(m, i) =>
         \E j \in DOMAIN deliveries' : f[j] = m /\ deliveries'[j] = deliveries[m]
    /\ \A j, m \in DOMAIN deliveries' : j <= m <=> f[j] <= f[m]

LEMMA SameFollows ==
    ASSUME NEW i \in Installations, NEW f, SameAt(i), SameQueueAt(i, f), Follows(i)
    PROVE  Follows(i)'
  <1>1. OneHook(i)'
    BY DEF SameAt, Follows, OneHook
  <1>2. ASSUME NEW r \in Repos PROVE LinkFollows(i, r)'
    <2>1. \A j \in DOMAIN deliveries' : Concerns(j, i, r)' => Concerns(f[j], i, r)
      BY DEF SameQueueAt, Concerns, About
    <2>2. \A m \in DOMAIN deliveries : Concerns(m, i, r) =>
            \E j \in DOMAIN deliveries' : f[j] = m /\ Concerns(j, i, r)'
      BY DEF SameQueueAt, Concerns, About
    <2>3. ASSUME NEW k \in DOMAIN deliveries', Concerns(k, i, r)',
                 \A j \in DOMAIN deliveries' : Concerns(j, i, r)' => j <= k
          PROVE  Says(deliveries'[k], r) <=> r \in granted'[i]
      <3>1. f[k] \in DOMAIN deliveries /\ deliveries'[k] = deliveries[f[k]] /\ Concerns(f[k], i, r)
        BY <2>1, <2>3 DEF SameQueueAt, Concerns
      <3>2. \A m \in DOMAIN deliveries : Concerns(m, i, r) => m <= f[k]
        BY <2>2, <2>3 DEF SameQueueAt
      <3>3. Says(deliveries[f[k]], r) <=> r \in granted[i]
        BY <3>1, <3>2 DEF Follows, LinkFollows, LastTells
      <3> QED
        BY <3>1, <3>3 DEF SameAt
    <2>4. ASSUME NoneConcerns(i, r)' PROVE RowsTell(i, r)'
      <3>1. RowsTell(i, r)
        BY <2>2, <2>4 DEF NoneConcerns, Follows, LinkFollows
      <3> QED
        BY <3>1 DEF RowsTell, SameAt
    <2> QED
      BY <2>3, <2>4 DEF LinkFollows, LastTells
  <1>3. StatusFollows(i)'
    <2>1. \A j \in DOMAIN deliveries' : Moves(j, i)' => Moves(f[j], i)
      BY DEF SameQueueAt, Moves, About
    <2>2. \A m \in DOMAIN deliveries : Moves(m, i) =>
            \E j \in DOMAIN deliveries' : f[j] = m /\ Moves(j, i)'
      BY DEF SameQueueAt, Moves, About
    <2>3. ASSUME NEW k \in DOMAIN deliveries', Moves(k, i)',
                 \A j \in DOMAIN deliveries' : Moves(j, i)' => j <= k
          PROVE  Target(deliveries'[k]) = standing'[i]
      <3>1. f[k] \in DOMAIN deliveries /\ deliveries'[k] = deliveries[f[k]] /\ Moves(f[k], i)
        BY <2>1, <2>3 DEF SameQueueAt, Moves
      <3>2. \A m \in DOMAIN deliveries : Moves(m, i) => m <= f[k]
        BY <2>2, <2>3 DEF SameQueueAt
      <3>3. Target(deliveries[f[k]]) = standing[i]
        BY <3>1, <3>2 DEF Follows, StatusFollows, LastMoves
      <3> QED
        BY <3>1, <3>3 DEF SameAt
    <2>4. ASSUME NoneMoves(i)' PROVE RowIsMoved(i)'
      <3>1. RowIsMoved(i)
        BY <2>2, <2>4 DEF NoneMoves, Follows, StatusFollows
      <3> QED
        BY <3>1 DEF RowIsMoved, Agrees, SameAt
    <2> QED
      BY <2>3, <2>4 DEF StatusFollows, LastMoves
  <1>4. RowComes(i)'
    <2> SUFFICES ASSUME installation'[i] = "absent", \A h \in Hooks : ~HookAt(h, i)',
                        NEW k \in DOMAIN deliveries', About(k, i)'
                 PROVE  \E j \in DOMAIN deliveries' :
                          j <= k /\ About(j, i)' /\ deliveries'[j].kind = "created"
      BY DEF RowComes
    <2>1. f[k] \in DOMAIN deliveries /\ About(f[k], i)
      BY DEF SameQueueAt, About
    <2>2. PICK m \in DOMAIN deliveries : m <= f[k] /\ About(m, i) /\ deliveries[m].kind = "created"
      BY <2>1 DEF SameAt, Follows, RowComes
    <2>3. PICK j \in DOMAIN deliveries' : f[j] = m /\ deliveries'[j] = deliveries[m]
      BY <2>2 DEF SameQueueAt
    <2> QED
      BY <2>2, <2>3 DEF SameQueueAt, About
  <1> QED
    BY <1>1, <1>2, <1>3, <1>4 DEF Follows

LEMMA KeptFollows ==
    ASSUME TInv, NEW i \in Installations, SameAt(i), deliveries' = deliveries, Follows(i)
    PROVE  Follows(i)'
  <1> DEFINE f == [j \in DOMAIN deliveries |-> j]
  <1>1. SameQueueAt(i, f)
    BY DEF SameQueueAt, About
  <1> HIDE DEF f
  <1> QED
    BY <1>1, SameFollows

LEMMA TakenElsewhere ==
    ASSUME TInv, NEW k \in DOMAIN deliveries, TakeDelivery(k),
           NEW i \in Installations, deliveries[k].inst # i, SameAt(i), Follows(i)
    PROVE  Follows(i)'
  <1> DEFINE f == [j \in DOMAIN deliveries' |-> Was(j, k)]
  <1>1. /\ DOMAIN deliveries \subseteq Nat /\ DOMAIN deliveries' \subseteq Nat
        /\ \A j \in DOMAIN deliveries' :
             /\ Was(j, k) \in DOMAIN deliveries \ {k}
             /\ deliveries'[j] = deliveries[Was(j, k)]
        /\ \A m \in DOMAIN deliveries \ {k} : \E j \in DOMAIN deliveries' : Was(j, k) = m
    BY TakeEffect
  <1>2. \A j, m \in DOMAIN deliveries' : j <= m <=> Was(j, k) <= Was(m, k)
    BY <1>1 DEF Was
  <1>3. SameQueueAt(i, f)
    BY <1>1, <1>2 DEF SameQueueAt, About
  <1> HIDE DEF f
  <1> QED
    BY <1>3, SameFollows

LEMMA SentElsewhere ==
    ASSUME TInv, NEW j \in Installations, NEW d \in Delivery, Sent(j, d),
           NEW i \in Installations, j # i, SameAt(i), Follows(i)
    PROVE  Follows(i)'
  <1>1. PICK n \in Nat :
          /\ n \notin DOMAIN deliveries /\ DOMAIN deliveries' = DOMAIN deliveries \cup {n}
          /\ deliveries'[n] = d
          /\ \A m \in DOMAIN deliveries : deliveries'[m] = deliveries[m]
    BY SendEffect DEF Sent
  <1>2. d.inst = j
    BY DEF Sent
  <1> DEFINE f == [m \in DOMAIN deliveries' |-> m]
  <1>3. SameQueueAt(i, f)
    BY <1>1, <1>2 DEF SameQueueAt, About
  <1> HIDE DEF f
  <1> QED
    BY <1>3, SameFollows

(* What GitHub sends of an installation is the last word about it.         *)
LEMMA SentFollows ==
    ASSUME TInv, NEW i \in Installations, NEW d \in Delivery, Sent(i, d),
           UNCHANGED <<installation, links, hook, sync>>, Follows(i)
    PROVE  Follows(i)'
  <1>1. PICK n \in Nat :
          /\ DOMAIN deliveries \subseteq 1 .. n - 1
          /\ n \notin DOMAIN deliveries /\ DOMAIN deliveries' = DOMAIN deliveries \cup {n}
          /\ deliveries'[n] = d
          /\ \A m \in DOMAIN deliveries : deliveries'[m] = deliveries[m]
    BY SendEffect DEF Sent
  <1>2. d.inst = i /\ About(n, i)' /\ n \in DOMAIN deliveries'
    BY <1>1 DEF Sent, About
  <1>3. \A m \in DOMAIN deliveries : m < n /\ (About(m, i)' <=> About(m, i))
    BY <1>1 DEF About
  <1>4. OneHook(i)' /\ \A h \in Hooks : HookAt(h, i)' <=> HookAt(h, i)
    BY DEF Follows, OneHook, HookAt
  <1>5. ASSUME NEW r \in Repos PROVE LinkFollows(i, r)'
    <2>1. /\ Concerns(n, i, r)' <=> Affects(d, r)
          /\ \A m \in DOMAIN deliveries : Concerns(m, i, r)' <=> Concerns(m, i, r)
      BY <1>1, <1>2, <1>3 DEF Concerns
    <2>2. CASE Affects(d, r)
      <3>1. Says(d, r) <=> r \in granted'[i]
        BY <2>2 DEF Sent
      <3>2. ~NoneConcerns(i, r)'
        BY <1>2, <2>1, <2>2 DEF NoneConcerns
      <3>3. LastTells(i, r)'
        <4> SUFFICES ASSUME NEW k \in DOMAIN deliveries', Concerns(k, i, r)',
                            \A j \in DOMAIN deliveries' : Concerns(j, i, r)' => j <= k
                     PROVE  Says(deliveries'[k], r) <=> r \in granted'[i]
          BY DEF LastTells
        <4>1. n <= k
          BY <1>2, <2>1, <2>2
        <4>2. k = n
          BY <1>1, <1>3, <4>1
        <4> QED
          BY <1>1, <3>1, <4>2
      <3> QED
        BY <3>2, <3>3 DEF LinkFollows
    <2>3. CASE ~Affects(d, r)
      <3>1. r \in granted'[i] <=> r \in granted[i]
        BY <2>3 DEF Sent
      <3>2. LastTells(i, r)'
        BY <1>1, <2>1, <2>3, <3>1 DEF LastTells, Follows, LinkFollows
      <3>3. NoneConcerns(i, r)' => NoneConcerns(i, r)
        BY <1>1, <2>1 DEF NoneConcerns
      <3>4. RowsTell(i, r) => RowsTell(i, r)'
        BY <1>4, <3>1 DEF RowsTell
      <3> QED
        BY <3>2, <3>3, <3>4 DEF Follows, LinkFollows
    <2> QED
      BY <2>2, <2>3
  <1>6. StatusFollows(i)'
    <2>1. /\ Moves(n, i)' <=> d.kind # "removed"
          /\ \A m \in DOMAIN deliveries : Moves(m, i)' <=> Moves(m, i)
      BY <1>1, <1>2, <1>3 DEF Moves
    <2>2. CASE d.kind # "removed"
      <3>1. Target(d) = standing'[i]
        BY <2>2 DEF Sent
      <3>2. ~NoneMoves(i)'
        BY <1>2, <2>1, <2>2 DEF NoneMoves
      <3>3. LastMoves(i)'
        <4> SUFFICES ASSUME NEW k \in DOMAIN deliveries', Moves(k, i)',
                            \A j \in DOMAIN deliveries' : Moves(j, i)' => j <= k
                     PROVE  Target(deliveries'[k]) = standing'[i]
          BY DEF LastMoves
        <4>1. n <= k
          BY <1>2, <2>1, <2>2
        <4>2. k = n
          BY <1>1, <1>3, <4>1
        <4> QED
          BY <1>1, <3>1, <4>2
      <3> QED
        BY <3>2, <3>3 DEF StatusFollows
    <2>3. CASE d.kind = "removed"
      <3>1. standing'[i] = standing[i]
        BY <2>3 DEF Sent
      <3>2. LastMoves(i)'
        BY <1>1, <2>1, <2>3, <3>1 DEF LastMoves, Follows, StatusFollows
      <3>3. NoneMoves(i)' => NoneMoves(i)
        BY <1>1, <2>1 DEF NoneMoves
      <3>4. RowIsMoved(i) => RowIsMoved(i)'
        BY <1>4, <3>1 DEF RowIsMoved, Agrees
      <3> QED
        BY <3>2, <3>3, <3>4 DEF Follows, StatusFollows
    <2> QED
      BY <2>2, <2>3
  <1>7. RowComes(i)'
    <2> SUFFICES ASSUME installation'[i] = "absent", \A h \in Hooks : ~HookAt(h, i)',
                        NEW k \in DOMAIN deliveries', About(k, i)'
                 PROVE  \E j \in DOMAIN deliveries' :
                          j <= k /\ About(j, i)' /\ deliveries'[j].kind = "created"
      BY DEF RowComes
    <2>1. installation[i] = "absent" /\ \A h \in Hooks : ~HookAt(h, i)
      BY <1>4
    <2>2. ASSUME NEW m \in DOMAIN deliveries, About(m, i), m <= k
          PROVE  \E j \in DOMAIN deliveries' :
                   j <= k /\ About(j, i)' /\ deliveries'[j].kind = "created"
      <3>1. PICK j \in DOMAIN deliveries : j <= m /\ About(j, i) /\ deliveries[j].kind = "created"
        BY <2>1, <2>2 DEF Follows, RowComes
      <3>2. j \in DOMAIN deliveries' /\ About(j, i)' /\ deliveries'[j].kind = "created" /\ j <= k
        BY <1>1, <1>3, <2>2, <3>1
      <3> QED
        BY <3>2
    <2>3. CASE \E m \in DOMAIN deliveries : About(m, i) /\ m <= k
      BY <2>2, <2>3
    <2>4. CASE \A m \in DOMAIN deliveries : ~(About(m, i) /\ m <= k)
      <3>1. k = n
        BY <1>1, <1>3, <2>4
      <3>2. \A m \in DOMAIN deliveries : ~About(m, i)
        BY <1>1, <1>3, <2>4, <3>1
      <3>3. RowIsMoved(i)
        BY <3>2 DEF Follows, StatusFollows, NoneMoves, Moves
      <3>4. standing[i] = "absent"
        BY <2>1, <3>3, TypeFacts DEF RowIsMoved, Agrees
      <3>5. d.kind = "created"
        BY <3>4 DEF Sent
      <3> QED
        BY <1>1, <1>2, <3>1, <3>5
    <2> QED
      BY <2>3, <2>4
  <1> QED
    BY <1>4, <1>5, <1>6, <1>7 DEF Follows

(* Handling the oldest delivery about an installation, of which nobody has *)
(* fetched anything.                                                       *)
LEMMA UndisturbedIsFirst ==
    ASSUME TInv, NEW k \in DOMAIN deliveries, NEW i \in Installations, i = deliveries[k].inst,
           i \notin Disturbing(k)
    PROVE  /\ \A h \in Hooks : ~HookAt(h, i)
           /\ \A s \in Syncs : i \notin sync[s].at
           /\ About(k, i) /\ \A m \in DOMAIN deliveries : About(m, i) => k <= m
  <1>1. ~Fetched(i) /\ \A j \in 1 .. k - 1 : deliveries[j].inst # i
    BY DEF Disturbing
  <1>2. deliveries \in Seq(Delivery)
    BY TypeFacts
  <1>3. Len(deliveries) \in Nat /\ DOMAIN deliveries = 1 .. Len(deliveries)
    BY <1>2, LenProperties
  <1>4. \A s \in Syncs : i \notin sync[s].at
    BY <1>1 DEF Fetched, TInv, SyncsAreOrderly
  <1>5. \A h \in Hooks : ~HookAt(h, i)
    BY <1>1 DEF Fetched, HookAt
  <1> QED
    BY <1>1, <1>3, <1>4, <1>5 DEF About

(* What its deliveries say once the oldest is taken.                       *)
LEMMA TakenFirst ==
    ASSUME TInv, NEW k \in DOMAIN deliveries, TakeDelivery(k), UNCHANGED <<standing, granted>>,
           NEW i \in Installations, NEW d, d = deliveries[k], About(k, i),
           \A m \in DOMAIN deliveries : About(m, i) => k <= m, Follows(i)
    PROVE  /\ \A r \in Repos :
                /\ LastTells(i, r)'
                /\ NoneConcerns(i, r)' => IF Affects(d, r) THEN Says(d, r) <=> r \in granted[i]
                                                         ELSE NoneConcerns(i, r)
           /\ LastMoves(i)'
           /\ NoneMoves(i)' => IF d.kind # "removed" THEN Target(d) = standing[i]
                                                     ELSE NoneMoves(i)
           /\ installation[i] = "absent" /\ (\A h \in Hooks : ~HookAt(h, i)) => d.kind = "created"
  <1>1. /\ DOMAIN deliveries \subseteq Nat /\ DOMAIN deliveries' \subseteq Nat
        /\ \A j \in DOMAIN deliveries' :
             /\ Was(j, k) \in DOMAIN deliveries \ {k}
             /\ deliveries'[j] = deliveries[Was(j, k)]
        /\ \A m \in DOMAIN deliveries \ {k} : \E j \in DOMAIN deliveries' : Was(j, k) = m
    BY TakeEffect
  <1>2. \A j, m \in DOMAIN deliveries' : j <= m <=> Was(j, k) <= Was(m, k)
    BY <1>1 DEF Was
  <1>3. ASSUME NEW r \in Repos
        PROVE  /\ LastTells(i, r)'
               /\ NoneConcerns(i, r)' => IF Affects(d, r) THEN Says(d, r) <=> r \in granted[i]
                                                        ELSE NoneConcerns(i, r)
    <2>1. \A j \in DOMAIN deliveries' : Concerns(j, i, r)' <=> Concerns(Was(j, k), i, r)
      BY <1>1 DEF Concerns, About
    <2>2. \A m \in DOMAIN deliveries : Concerns(m, i, r) => k <= m
      BY DEF Concerns
    <2>3. LastTells(i, r)'
      <3> SUFFICES ASSUME NEW n \in DOMAIN deliveries', Concerns(n, i, r)',
                          \A j \in DOMAIN deliveries' : Concerns(j, i, r)' => j <= n
                   PROVE  Says(deliveries'[n], r) <=> r \in granted'[i]
        BY DEF LastTells
      <3>1. Concerns(Was(n, k), i, r) /\ k <= Was(n, k)
        BY <1>1, <2>1, <2>2
      <3>2. ASSUME NEW m \in DOMAIN deliveries, Concerns(m, i, r) PROVE m <= Was(n, k)
        <4>1. CASE m = k
          BY <3>1, <4>1
        <4>2. CASE m # k
          <5>1. PICK j \in DOMAIN deliveries' : Was(j, k) = m
            BY <1>1, <4>2
          <5>2. j <= n
            BY <2>1, <3>2, <5>1
          <5> QED
            BY <1>2, <5>1, <5>2
        <4> QED
          BY <4>1, <4>2
      <3>3. Says(deliveries[Was(n, k)], r) <=> r \in granted[i]
        BY <1>1, <3>1, <3>2 DEF LastTells, Follows, LinkFollows
      <3> QED
        BY <1>1, <3>3
    <2>4. ASSUME NoneConcerns(i, r)' PROVE \A m \in DOMAIN deliveries : Concerns(m, i, r) => m = k
      BY <1>1, <2>1, <2>4 DEF NoneConcerns
    <2>5. Concerns(k, i, r) <=> Affects(d, r)
      BY DEF Concerns
    <2>6. CASE Affects(d, r)
      BY <1>1, <2>3, <2>4, <2>5, <2>6 DEF LastTells, Follows, LinkFollows
    <2>7. CASE ~Affects(d, r)
      BY <2>3, <2>4, <2>5, <2>7 DEF NoneConcerns
    <2> QED
      BY <2>6, <2>7
  <1>4. /\ LastMoves(i)'
        /\ NoneMoves(i)' => IF d.kind # "removed" THEN Target(d) = standing[i] ELSE NoneMoves(i)
    <2>1. \A j \in DOMAIN deliveries' : Moves(j, i)' <=> Moves(Was(j, k), i)
      BY <1>1 DEF Moves, About
    <2>2. \A m \in DOMAIN deliveries : Moves(m, i) => k <= m
      BY DEF Moves
    <2>3. LastMoves(i)'
      <3> SUFFICES ASSUME NEW n \in DOMAIN deliveries', Moves(n, i)',
                          \A j \in DOMAIN deliveries' : Moves(j, i)' => j <= n
                   PROVE  Target(deliveries'[n]) = standing'[i]
        BY DEF LastMoves
      <3>1. Moves(Was(n, k), i) /\ k <= Was(n, k)
        BY <1>1, <2>1, <2>2
      <3>2. ASSUME NEW m \in DOMAIN deliveries, Moves(m, i) PROVE m <= Was(n, k)
        <4>1. CASE m = k
          BY <3>1, <4>1
        <4>2. CASE m # k
          <5>1. PICK j \in DOMAIN deliveries' : Was(j, k) = m
            BY <1>1, <4>2
          <5>2. j <= n
            BY <2>1, <3>2, <5>1
          <5> QED
            BY <1>2, <5>1, <5>2
        <4> QED
          BY <4>1, <4>2
      <3>3. Target(deliveries[Was(n, k)]) = standing[i]
        BY <1>1, <3>1, <3>2 DEF LastMoves, Follows, StatusFollows
      <3> QED
        BY <1>1, <3>3
    <2>4. ASSUME NoneMoves(i)' PROVE \A m \in DOMAIN deliveries : Moves(m, i) => m = k
      BY <1>1, <2>1, <2>4 DEF NoneMoves
    <2>5. Moves(k, i) <=> d.kind # "removed"
      BY DEF Moves
    <2>6. CASE d.kind # "removed"
      BY <1>1, <2>3, <2>4, <2>5, <2>6 DEF LastMoves, Follows, StatusFollows
    <2>7. CASE d.kind = "removed"
      BY <2>3, <2>4, <2>5, <2>7 DEF NoneMoves
    <2> QED
      BY <2>6, <2>7
  <1>5. ASSUME installation[i] = "absent", \A h \in Hooks : ~HookAt(h, i)
        PROVE  d.kind = "created"
    <2>1. PICK j \in DOMAIN deliveries : j <= k /\ About(j, i) /\ deliveries[j].kind = "created"
      BY <1>5 DEF Follows, RowComes
    <2>2. j = k
      BY <1>1, <2>1
    <2> QED
      BY <2>1, <2>2
  <1> QED
    BY <1>3, <1>4, <1>5

LEMMA HandledFollows ==
    ASSUME TInv, NEW k \in DOMAIN deliveries, HandleDelivery(k),
           NEW i \in Installations, i = deliveries[k].inst, i \notin Disturbing(k), Follows(i)
    PROVE  Follows(i)'
  <1> DEFINE d == deliveries[k]
  <1>1. /\ \A h \in Hooks : ~HookAt(h, i)
        /\ \A s \in Syncs : i \notin sync[s].at
        /\ About(k, i) /\ \A m \in DOMAIN deliveries : About(m, i) => k <= m
    BY UndisturbedIsFirst
  <1>2. /\ UNCHANGED <<standing, granted, hook, sync>> /\ TakeDelivery(k)
        /\ d.kind # "removed" /\ installation[i] # "absent" =>
             installation'[i] = IF d.kind = "deleted" THEN "deleted"
                                ELSE IF d.kind = "suspend" THEN "suspended" ELSE "active"
        /\ d.kind \notin {"deleted", "suspend", "removed"} => installation'[i] = "active"
        /\ d.kind = "removed" => installation' = installation
        /\ installation[i] # "absent" \/ d.kind \notin {"deleted", "suspend"} =>
             \A r \in Repos : <<i, r>> \in links' <=>
                 IF Affects(d, r) THEN Says(d, r) ELSE <<i, r>> \in links
    BY HandleDeliveryEffect DEF github
  <1>3. /\ \A r \in Repos :
             /\ LastTells(i, r)'
             /\ NoneConcerns(i, r)' => IF Affects(d, r) THEN Says(d, r) <=> r \in granted[i]
                                                      ELSE NoneConcerns(i, r)
        /\ LastMoves(i)'
        /\ NoneMoves(i)' => IF d.kind # "removed" THEN Target(d) = standing[i] ELSE NoneMoves(i)
        /\ installation[i] = "absent" /\ (\A h \in Hooks : ~HookAt(h, i)) => d.kind = "created"
    BY <1>1, <1>2, TakenFirst
  <1> HIDE DEF d
  <1>4. installation[i] # "absent" \/ d.kind = "created"
    BY <1>1, <1>3
  <1>5. \A h \in Hooks : ~HookAt(h, i)'
    BY <1>1, <1>2 DEF HookAt
  <1>6. ASSUME NEW r \in Repos PROVE LinkFollows(i, r)'
    <2>1. <<i, r>> \in links' <=> IF Affects(d, r) THEN Says(d, r) ELSE <<i, r>> \in links
      BY <1>2, <1>4
    <2>2. ASSUME NoneConcerns(i, r)' PROVE <<i, r>> \in links' <=> r \in granted'[i]
      <3>1. CASE Affects(d, r)
        BY <1>2, <1>3, <2>1, <2>2, <3>1
      <3>2. CASE ~Affects(d, r)
        <4>1. RowsTell(i, r)
          BY <1>3, <2>2, <3>2 DEF Follows, LinkFollows
        <4> QED
          BY <1>1, <1>2, <2>1, <3>2, <4>1 DEF RowsTell
      <3> QED
        BY <3>1, <3>2
    <2>3. NoneConcerns(i, r)' => RowsTell(i, r)'
      BY <1>1, <1>2, <1>5, <2>2 DEF RowsTell
    <2> QED
      BY <1>3, <2>3 DEF LinkFollows
  <1>7. StatusFollows(i)'
    <2>1. ASSUME NoneMoves(i)' PROVE Agrees(i)'
      <3>1. CASE d.kind # "removed"
        BY <1>2, <1>3, <1>4, <2>1, <3>1 DEF Agrees, Target
      <3>2. CASE d.kind = "removed"
        <4>1. Agrees(i)
          BY <1>1, <1>3, <2>1, <3>2 DEF Follows, StatusFollows, RowIsMoved
        <4> QED
          BY <1>2, <3>2, <4>1 DEF Agrees
      <3> QED
        BY <3>1, <3>2
    <2>2. NoneMoves(i)' => RowIsMoved(i)'
      BY <1>1, <1>2, <1>5, <2>1 DEF RowIsMoved
    <2> QED
      BY <1>3, <2>2 DEF StatusFollows
  <1>8. installation'[i] # "absent"
    BY <1>2, <1>4
  <1> QED
    BY <1>5, <1>6, <1>7, <1>8 DEF Follows, OneHook, RowComes

LEMMA ListedFollows ==
    ASSUME TInv, NEW h \in Hooks, NEW k \in DOMAIN deliveries, ListRepositories(h, k),
           NEW i \in Installations, i = deliveries[k].inst, i \notin Disturbing(k), Follows(i)
    PROVE  Follows(i)'
  <1> DEFINE d == deliveries[k]
  <1>1. /\ \A g \in Hooks : ~HookAt(g, i)
        /\ \A s \in Syncs : i \notin sync[s].at
        /\ About(k, i) /\ \A m \in DOMAIN deliveries : About(m, i) => k <= m
    BY UndisturbedIsFirst
  <1>2. /\ UNCHANGED <<standing, granted, installation, links, sync>> /\ TakeDelivery(k)
        /\ d.kind \in {"created", "unsuspend", "new_permissions_accepted"}
        /\ standing[i] = "active"
        /\ hook'[h] \in Listing /\ hook'[h].delivery = d /\ hook'[h].seen = granted[i]
        /\ \A g \in Hooks \ {h} : hook'[g] = hook[g]
    BY ListRepositoriesEffect DEF github, rows, NeedsListing
  <1>3. /\ \A r \in Repos :
             /\ LastTells(i, r)'
             /\ NoneConcerns(i, r)' => IF Affects(d, r) THEN Says(d, r) <=> r \in granted[i]
                                                      ELSE NoneConcerns(i, r)
        /\ LastMoves(i)'
    BY <1>1, <1>2, TakenFirst
  <1>4. HookAt(h, i)' /\ \A g \in Hooks \ {h} : ~HookAt(g, i)'
    BY <1>1, <1>2, ListingIsSome DEF HookAt
  <1> HIDE DEF d
  <1>5. ASSUME NEW r \in Repos PROVE LinkFollows(i, r)'
    <2>1. ASSUME NoneConcerns(i, r)', d.kind # "created"
          PROVE  <<i, r>> \in links' <=> r \in granted'[i]
      <3>1. RowsTell(i, r)
        BY <1>2, <1>3, <2>1 DEF Follows, LinkFollows, Affects
      <3> QED
        BY <1>1, <1>2, <3>1 DEF RowsTell
    <2>2. NoneConcerns(i, r)' => RowsTell(i, r)'
      BY <1>1, <1>2, <1>4, <2>1 DEF RowsTell
    <2> QED
      BY <1>3, <2>2 DEF LinkFollows
  <1>6. StatusFollows(i)'
    BY <1>1, <1>2, <1>3, <1>4 DEF StatusFollows, RowIsMoved
  <1> QED
    BY <1>4, <1>5, <1>6 DEF Follows, OneHook, RowComes

LEMMA AppliedListingFollows ==
    ASSUME TInv, NEW h \in Hooks, ApplyListing(h),
           NEW i \in Installations, i = hook[h].delivery.inst, Follows(i)
    PROVE  Follows(i)'
  <1>1. /\ UNCHANGED <<standing, granted, deliveries, sync>> /\ hook[h] # NoListing
        /\ hook' = [hook EXCEPT ![h] = NoListing] /\ installation'[i] = "active"
        /\ \A r \in Repos : <<i, r>> \in links' <=>
             \/ r \in hook[h].seen
             \/ hook[h].delivery.kind # "created" /\ <<i, r>> \in links
    BY ApplyListingEffect, ListingIsSome DEF github
  <1>2. HookAt(h, i) /\ \A g \in Hooks : HookAt(g, i) => g = h
    BY <1>1 DEF HookAt, Follows, OneHook
  <1>3. hook \in [Hooks -> Listing \cup {NoListing}]
    BY TypeFacts
  <1>4. \A g \in Hooks : ~HookAt(g, i)'
    BY <1>1, <1>2, <1>3 DEF HookAt
  <1>5. ASSUME NEW r \in Repos PROVE LinkFollows(i, r)'
    <2>1. LastTells(i, r)' /\ (NoneConcerns(i, r)' => NoneConcerns(i, r))
      BY <1>1 DEF Follows, LinkFollows, LastTells, NoneConcerns, Concerns, About
    <2>2. RowsTell(i, r) => RowsTell(i, r)'
      BY <1>1, <1>2, <1>4 DEF RowsTell
    <2> QED
      BY <2>1, <2>2 DEF Follows, LinkFollows
  <1>6. StatusFollows(i)'
    <2>1. LastMoves(i)' /\ (NoneMoves(i)' => NoneMoves(i))
      BY <1>1 DEF Follows, StatusFollows, LastMoves, NoneMoves, Moves, About
    <2>2. RowIsMoved(i) => RowIsMoved(i)'
      BY <1>1, <1>2, <1>4 DEF RowIsMoved, Agrees
    <2> QED
      BY <2>1, <2>2 DEF Follows, StatusFollows
  <1> QED
    BY <1>1, <1>4, <1>5, <1>6 DEF Follows, OneHook, RowComes

(* What a synchronisation fetches and applies is true.                     *)
LEMMA FetchedFollows ==
    ASSUME TInv, NEW s \in Syncs, NEW i \in Installations, FetchRepositories(s, i), Follows(i)
    PROVE  Follows(i)'
  <1>1. /\ UNCHANGED <<standing, granted, deliveries, installation, links, hook>>
        /\ standing[i] = "active"
        /\ \A t \in Syncs \ {s} : sync'[t] = sync[t]
        /\ \A r \in Repos : sync'[s].seen[r] # "none" => r \in granted[i]
    BY FetchRepositoriesEffect DEF github, rows
  <1>2. \A g \in Hooks : HookAt(g, i)' <=> HookAt(g, i)
    BY <1>1 DEF HookAt
  <1>3. ASSUME NEW r \in Repos PROVE LinkFollows(i, r)'
    <2>1. LastTells(i, r)' /\ (NoneConcerns(i, r)' => NoneConcerns(i, r))
      BY <1>1 DEF Follows, LinkFollows, LastTells, NoneConcerns, Concerns, About
    <2>2. RowsTell(i, r) => RowsTell(i, r)'
      BY <1>1, <1>2 DEF RowsTell
    <2> QED
      BY <2>1, <2>2 DEF Follows, LinkFollows
  <1>4. StatusFollows(i)'
    <2>1. LastMoves(i)' /\ (NoneMoves(i)' => NoneMoves(i))
      BY <1>1 DEF Follows, StatusFollows, LastMoves, NoneMoves, Moves, About
    <2>2. RowIsMoved(i) => RowIsMoved(i)'
      BY <1>1, <1>2 DEF RowIsMoved, Agrees
    <2> QED
      BY <2>1, <2>2 DEF Follows, StatusFollows
  <1> QED
    BY <1>1, <1>2, <1>3, <1>4 DEF Follows, OneHook, RowComes, About

LEMMA AppliedRepositoriesFollow ==
    ASSUME TInv, NEW s \in Syncs, NEW i \in Installations, i \in sync[s].at,
           ApplyRepositories(s), Follows(i)
    PROVE  Follows(i)'
  <1>1. /\ UNCHANGED <<standing, granted, deliveries, hook>>
        /\ installation'[i] = "active"
        /\ \A r \in Repos : <<i, r>> \in links' <=> r \in SeenBy(s) \/ <<i, r>> \in links
        /\ \A t \in Syncs \ {s} : sync'[t] = sync[t]
        /\ sync'[s].at = {}
    BY ApplyRepositoriesEffect DEF github
  <1>2. \A g \in Hooks : HookAt(g, i)' <=> HookAt(g, i)
    BY <1>1 DEF HookAt
  <1>3. ASSUME NEW r \in Repos PROVE LinkFollows(i, r)'
    <2>1. LastTells(i, r)' /\ (NoneConcerns(i, r)' => NoneConcerns(i, r))
      BY <1>1 DEF Follows, LinkFollows, LastTells, NoneConcerns, Concerns, About
    <2>2. RowsTell(i, r) => RowsTell(i, r)'
      BY <1>1, <1>2 DEF RowsTell, SeenBy
    <2> QED
      BY <2>1, <2>2 DEF Follows, LinkFollows
  <1>4. StatusFollows(i)'
    <2>1. LastMoves(i)' /\ (NoneMoves(i)' => NoneMoves(i))
      BY <1>1 DEF Follows, StatusFollows, LastMoves, NoneMoves, Moves, About
    <2>2. RowIsMoved(i) => RowIsMoved(i)'
      BY <1>1, <1>2 DEF RowIsMoved, Agrees
    <2> QED
      BY <2>1, <2>2 DEF Follows, StatusFollows
  <1> QED
    BY <1>1, <1>2, <1>3, <1>4 DEF Follows, OneHook, RowComes

LEMMA InitInv == InstallationAssumption /\ Init => DInv /\ SInv
  <1> SUFFICES ASSUME InstallationAssumption, Init PROVE DInv /\ SInv
    OBVIOUS
  <1>1. DOMAIN deliveries = {}
    BY EmptySeq DEF Init
  <1>2. ASSUME NEW i \in Installations PROVE Follows(i)
    <2>1. \A h \in Hooks : ~HookAt(h, i)
      BY DEF Init, HookAt
    <2>2. \A s \in Syncs : i \notin sync[s].at
      BY NoSyncIsSync DEF Init
    <2>3. \A r \in Repos : <<i, r>> \notin links /\ r \notin granted[i]
      BY DEF Init
    <2>4. \A r \in Repos : LinkFollows(i, r)
      BY <1>1, <2>1, <2>2, <2>3 DEF LinkFollows, LastTells, RowsTell
    <2>5. StatusFollows(i)
      BY <1>1, <2>1, <2>2 DEF StatusFollows, LastMoves, RowIsMoved, Agrees, Init
    <2> QED
      BY <1>1, <2>1, <2>4, <2>5 DEF Follows, OneHook, RowComes
  <1>3. steady = {}
    BY DEF Init
  <1> QED
    BY <1>2, <1>3 DEF DInv, SInv

LEMMA NextDInv == InstallationAssumption /\ TInv /\ DInv /\ [Next]_vars => DInv'
  <1> SUFFICES ASSUME InstallationAssumption, TInv, DInv, [Next]_vars,
                      NEW i \in Installations \ disturbed'
               PROVE  Follows(i)'
    BY DEF DInv
  <1>1. CASE GitHubStep
    <2>1. /\ UNCHANGED <<rows, hook, sync, disturbed>>
          /\ \/ UNCHANGED <<deliveries, standing, granted>>
             \/ \E j \in Installations, d \in Delivery : Sent(j, d)
      BY <1>1, GitHubEffect
    <2>2. Follows(i)
      BY <2>1 DEF DInv
    <2>3. CASE UNCHANGED <<deliveries, standing, granted>>
      <3>1. SameAt(i)
        BY <2>1, <2>3 DEF SameAt, HookAt, rows
      <3> QED
        BY <2>2, <2>3, <3>1, KeptFollows
    <2>4. ASSUME NEW j \in Installations, NEW d \in Delivery, Sent(j, d) PROVE Follows(i)'
      <3>1. CASE j = i
        BY <2>1, <2>2, <2>4, <3>1, SentFollows DEF rows
      <3>2. CASE j # i
        <4>1. SameAt(i)
          BY <2>1, <2>4, <3>2 DEF SameAt, HookAt, rows, Sent
        <4> QED
          BY <2>2, <2>4, <3>2, <4>1, SentElsewhere
      <3> QED
        BY <3>1, <3>2
    <2> QED
      BY <2>1, <2>3, <2>4
  <1>2. ASSUME NEW k \in DOMAIN deliveries, HandleDelivery(k) PROVE Follows(i)'
    <2>1. /\ UNCHANGED <<standing, granted, hook, sync>> /\ TakeDelivery(k)
          /\ disturbed' = disturbed \cup Disturbing(k)
          /\ \A j \in Installations \ {deliveries[k].inst} :
               /\ installation'[j] = installation[j]
               /\ \A r \in Repos : <<j, r>> \in links' <=> <<j, r>> \in links
      BY <1>2, HandleDeliveryEffect DEF github
    <2>2. Follows(i) /\ i \notin Disturbing(k)
      BY <2>1 DEF DInv
    <2>3. CASE deliveries[k].inst = i
      BY <1>2, <2>2, <2>3, HandledFollows
    <2>4. CASE deliveries[k].inst # i
      <3>1. SameAt(i)
        BY <2>1, <2>4 DEF SameAt, HookAt
      <3> QED
        BY <2>1, <2>2, <2>4, <3>1, TakenElsewhere
    <2> QED
      BY <2>3, <2>4
  <1>3. ASSUME NEW k \in DOMAIN deliveries, LoseDelivery(k) PROVE Follows(i)'
    <2>1. /\ UNCHANGED <<github, rows, hook, sync>> /\ TakeDelivery(k)
          /\ disturbed' = disturbed \cup {deliveries[k].inst}
      BY <1>3 DEF LoseDelivery
    <2>2. Follows(i) /\ deliveries[k].inst # i
      BY <2>1 DEF DInv
    <2>3. SameAt(i)
      BY <2>1 DEF SameAt, HookAt, github, rows
    <2> QED
      BY <2>1, <2>2, <2>3, TakenElsewhere
  <1>4. ASSUME NEW k \in DOMAIN deliveries, NEW h \in Hooks, ListRepositories(h, k)
        PROVE  Follows(i)'
    <2>1. /\ UNCHANGED <<github, rows, sync>> /\ TakeDelivery(k)
          /\ disturbed' = disturbed \cup Disturbing(k) /\ hook[h] = NoListing
          /\ hook'[h].delivery = deliveries[k]
          /\ \A g \in Hooks \ {h} : hook'[g] = hook[g]
      BY <1>4, ListRepositoriesEffect
    <2>2. Follows(i) /\ i \notin Disturbing(k)
      BY <2>1 DEF DInv
    <2>3. CASE deliveries[k].inst = i
      BY <1>4, <2>2, <2>3, ListedFollows
    <2>4. CASE deliveries[k].inst # i
      <3>1. ~HookAt(h, i) /\ ~HookAt(h, i)'
        BY <2>1, <2>4 DEF HookAt
      <3>2. \A g \in Hooks \ {h} : HookAt(g, i)' <=> HookAt(g, i)
        BY <2>1 DEF HookAt
      <3>3. SameAt(i)
        BY <2>1, <3>1, <3>2 DEF SameAt, github, rows
      <3> QED
        BY <2>1, <2>2, <2>4, <3>3, TakenElsewhere
    <2> QED
      BY <2>3, <2>4
  <1>5. ASSUME NEW h \in Hooks, ApplyListing(h) PROVE Follows(i)'
    <2>1. /\ UNCHANGED <<github, deliveries, sync, disturbed>>
          /\ hook' = [hook EXCEPT ![h] = NoListing]
          /\ \A j \in Installations \ {hook[h].delivery.inst} :
               /\ installation'[j] = installation[j]
               /\ \A r \in Repos : <<j, r>> \in links' <=> <<j, r>> \in links
      <3>1. hook[h].delivery.inst \in Installations
        BY <1>5, ApplyListingEffect
      <3> QED
        BY <1>5, <3>1, ApplyListingEffect
    <2>2. Follows(i)
      BY <2>1 DEF DInv
    <2>3. CASE hook[h].delivery.inst = i
      BY <1>5, <2>2, <2>3, AppliedListingFollows
    <2>4. CASE hook[h].delivery.inst # i
      <3>1. hook'[h] = NoListing /\ \A g \in Hooks \ {h} : hook'[g] = hook[g]
        BY <2>1, TypeFacts
      <3>2. ~HookAt(h, i) /\ ~HookAt(h, i)'
        BY <2>4, <3>1 DEF HookAt
      <3>3. \A g \in Hooks \ {h} : HookAt(g, i)' <=> HookAt(g, i)
        BY <3>1 DEF HookAt
      <3>4. SameAt(i)
        BY <2>1, <2>4, <3>1, <3>2, <3>3 DEF SameAt, github
      <3> QED
        BY <2>1, <2>2, <3>4, KeptFollows
    <2> QED
      BY <2>3, <2>4
  <1>6. ASSUME NEW s \in Syncs, \/ \E u \in Users : ListInstallations(s, u)
                                \/ FinishSync(s)
                                \/ AbortSync(s)
        PROVE  Follows(i)'
    <2>1. /\ UNCHANGED <<github, deliveries, installation, links, hook, disturbed>>
          /\ sync'[s].at = {} /\ \A t \in Syncs \ {s} : sync'[t] = sync[t]
      <3>1. CASE \E u \in Users : ListInstallations(s, u)
        BY <3>1, ListInstallationsEffect DEF rows
      <3>2. CASE FinishSync(s)
        BY <3>2, FinishSyncEffect, NoSyncIsSync
      <3>3. CASE AbortSync(s)
        BY <3>3, AbortSyncEffect, NoSyncIsSync DEF rows
      <3> QED
        BY <1>6, <3>1, <3>2, <3>3
    <2>2. Follows(i)
      BY <2>1 DEF DInv
    <2>3. SameAt(i)
      BY <2>1 DEF SameAt, HookAt, github
    <2> QED
      BY <2>1, <2>2, <2>3, KeptFollows
  <1>7. ASSUME NEW s \in Syncs, NEW j \in Installations, FetchRepositories(s, j)
        PROVE  Follows(i)'
    <2>1. /\ UNCHANGED <<github, deliveries, rows, hook, disturbed>>
          /\ sync'[s].at = {j} /\ \A t \in Syncs \ {s} : sync'[t] = sync[t]
      BY <1>7, FetchRepositoriesEffect
    <2>2. Follows(i)
      BY <2>1 DEF DInv
    <2>3. CASE j = i
      BY <1>7, <2>2, <2>3, FetchedFollows
    <2>4. CASE j # i
      <3>1. SameAt(i)
        BY <2>1, <2>4 DEF SameAt, HookAt, github, rows
      <3> QED
        BY <2>1, <2>2, <3>1, KeptFollows
    <2> QED
      BY <2>3, <2>4
  <1>8. ASSUME NEW s \in Syncs, ApplyRepositories(s) PROVE Follows(i)'
    <2>1. PICK j \in sync[s].at :
            /\ UNCHANGED <<github, deliveries, hook, disturbed>>
            /\ \A m \in Installations \ {j} :
                 /\ installation'[m] = installation[m]
                 /\ \A r \in Repos : <<m, r>> \in links' <=> <<m, r>> \in links
            /\ sync'[s].at = {} /\ \A t \in Syncs \ {s} : sync'[t] = sync[t]
      <3>1. PICK j \in sync[s].at :
              /\ UNCHANGED <<github, deliveries, hook, disturbed>>
              /\ \A m \in Installations \ {j} : installation'[m] = installation[m]
              /\ \A m \in Installations, r \in Repos : <<m, r>> \in links' <=>
                   (m = j /\ r \in SeenBy(s)) \/ <<m, r>> \in links
              /\ sync'[s].at = {} /\ \A t \in Syncs \ {s} : sync'[t] = sync[t]
        BY <1>8, ApplyRepositoriesEffect
      <3> QED
        BY <3>1
    <2>2. Follows(i)
      BY <2>1 DEF DInv
    <2>3. CASE i = j
      BY <1>8, <2>2, <2>3, AppliedRepositoriesFollow
    <2>4. CASE i # j
      <3>1. SameAt(i)
        BY <2>1, <2>4 DEF SameAt, HookAt, github
      <3> QED
        BY <2>1, <2>2, <3>1, KeptFollows
    <2> QED
      BY <2>3, <2>4
  <1>9. CASE UNCHANGED vars
    <2>1. Follows(i) /\ SameAt(i) /\ deliveries' = deliveries
      BY <1>9 DEF vars, DInv, SameAt, HookAt, github, rows
    <2> QED
      BY <2>1, KeptFollows
  <1> QED
    BY <1>1, <1>2, <1>3, <1>4, <1>5, <1>6, <1>7, <1>8, <1>9 DEF Next, WebhookStep, SyncStep

LEMMA DInvImplies == TInv /\ DInv => HandledDeliveriesAgree
  <1> SUFFICES ASSUME TInv, DInv, NEW i \in Installations \ disturbed, ~Fetched(i),
                      \A k \in DOMAIN deliveries : deliveries[k].inst # i
               PROVE  CASE standing[i] = "active" ->
                             installation[i] = "active" /\ Linked(i) = granted[i]
                        [] standing[i] = "suspended" -> installation[i] = "suspended"
                        [] OTHER -> installation[i] \in {"absent", "deleted"} /\ Linked(i) = {}
    BY DEF HandledDeliveriesAgree
  <1>1. /\ standing[i] \in {"absent", "active", "suspended"} /\ granted[i] \subseteq Repos
        /\ links \subseteq Installations \X Repos
        /\ standing[i] = "absent" => granted[i] = {}
    BY TypeFacts DEF TInv, GitHubIsSound, RowsTyped
  <1>2. \A h \in Hooks : ~HookAt(h, i)
    BY DEF Fetched, HookAt
  <1>3. Follows(i)
    BY DEF DInv
  <1>4. Agrees(i)
    BY <1>2, <1>3 DEF Follows, StatusFollows, NoneMoves, Moves, About, RowIsMoved
  <1>5. \A r \in Repos : <<i, r>> \in links <=> r \in granted[i]
    BY <1>2, <1>3 DEF Follows, LinkFollows, NoneConcerns, Concerns, About, RowsTell
  <1>6. Linked(i) = granted[i]
    BY <1>1, <1>5 DEF Linked
  <1>7. CASE standing[i] = "active"
    <2>1. installation[i] = "active" /\ Linked(i) = granted[i]
      BY <1>4, <1>6, <1>7 DEF Agrees
    <2> QED
      BY <1>7, <2>1
  <1>8. CASE standing[i] = "suspended"
    <2>1. installation[i] = "suspended" /\ standing[i] # "active"
      BY <1>4, <1>8 DEF Agrees
    <2> QED
      BY <1>8, <2>1, Zenon
  <1>9. CASE standing[i] = "absent"
    <2>1. installation[i] \in {"absent", "deleted"} /\ Linked(i) = {}
      BY <1>1, <1>4, <1>6, <1>9 DEF Agrees
    <2>2. standing[i] # "active" /\ standing[i] # "suspended"
      BY <1>9
    <2> QED
      BY <2>1, <2>2, Zenon
  <1> QED
    BY <1>1, <1>7, <1>8, <1>9

-----------------------------------------------------------------------------
(* The theorems.                                                           *)

(* Whatever GitHub sends and in whatever order it is handled, the rows,    *)
(* the fetched lists and the synchronisations under way keep their types.  *)
THEOREM SyncTypes == ASSUME InstallationAssumption PROVE Spec => []TypeOK
  <1>1. Init => TInv
    BY InitTInv
  <1>2. TInv /\ [Next]_vars => TInv'
    BY NextTInv
  <1>3. TInv => TypeOK
    BY DEF TInv
  <1> QED
    BY <1>1, <1>2, <1>3, PTL DEF Spec

(* Once the deliveries of an installation are handled one by one and in    *)
(* order, its row and its links say what GitHub says, whatever the users'  *)
(* synchronisations wrote in between.                                      *)
THEOREM DeliveriesAgree == ASSUME InstallationAssumption PROVE Spec => []HandledDeliveriesAgree
  <1>1. Init => TInv /\ DInv
    BY InitTInv, InitInv
  <1>2. TInv /\ DInv /\ [Next]_vars => TInv' /\ DInv'
    BY NextTInv, NextDInv
  <1>3. TInv /\ DInv => HandledDeliveriesAgree
    BY DInvImplies
  <1> QED
    BY <1>1, <1>2, <1>3, PTL DEF Spec

(* After a user's synchronisation that started alone and that nothing      *)
(* overtook, however many of the same user started since and overlapped    *)
(* it, the user may use and administer what GitHub shows, through an       *)
(* active installation, whatever deliveries made of the rows before.       *)
THEOREM SyncedAccess == ASSUME InstallationAssumption PROVE Spec => []SyncedAccessIsGitHubs
  <1>1. Init => TInv /\ SInv
    BY InitTInv, InitInv
  <1>2. TInv /\ SInv /\ [Next]_vars => TInv' /\ SInv'
    BY NextTInv, NextSInv
  <1>3. TInv /\ SInv => SyncedAccessIsGitHubs
    BY SInvImplies
  <1> QED
    BY <1>1, <1>2, <1>3, PTL DEF Spec

-----------------------------------------------------------------------------
(* LOGINS AND SESSIONS.                                                    *)

(* The steps of a callback that has consumed its state.                    *)
Paid == {"upsert", "write", "sync", "session"}
Spent == {"consumed", "deleted"}

(* A callback has the state, and later the identity, that it works with;   *)
(* a request names a session that exists.                                  *)
HandlersHaveData ==
    /\ \A c \in Callbacks : callback[c].step # "idle" => callback[c].state \in States
    /\ \A c \in Callbacks : callback[c].step \in {"consume"} \cup Paid =>
         callback[c].account \in Accounts /\ callback[c].name \in Logins
    /\ \A q \in Requests : request[q].step # "idle" => request[q].session \in DOMAIN sessions

HInv == LoginTypeOK /\ HandlersHaveData

-----------------------------------------------------------------------------
(* A state is spent when somebody has paid with it, and pays for one.      *)
SpentByPayers ==
    /\ \A c \in Callbacks : callback[c].step \in Paid => state[callback[c].state].kind \in Spent
    /\ \A n \in DOMAIN sessions : state[sessions[n].state].kind \in Spent
PayersDiffer ==
    /\ \A c, d \in Callbacks :
         /\ callback[c].step \in Paid /\ callback[d].step \in Paid
         /\ callback[c].state = callback[d].state
         => c = d
    /\ \A m, n \in DOMAIN sessions : sessions[m].state = sessions[n].state => m = n
    /\ \A c \in Callbacks, n \in DOMAIN sessions :
         callback[c].step \in Paid => callback[c].state # sessions[n].state

OInv == SpentByPayers /\ PayersDiffer

(* A callback that found or wrote the user has one.                        *)
HasUser ==
    \A c \in Callbacks :
        \/ callback[c].step \in {"sync", "session"}
        \/ callback[c].step = "write" /\ callback[c].known
        => user[callback[c].account] # NoLogin

UInv == IdentityIsUnique /\ HasUser

(* A session is revoked by a logout and by nothing else, and what a        *)
(* request has been told about an ended session stays true.                *)
EndedStaysEnded ==
    /\ \A n \in DOMAIN sessions : sessions[n].over <=> sessions[n].revoked
    /\ \A q \in Requests :
         \/ request[q].step # "idle" /\ request[q].late
         \/ request[q].step \in {"authenticate", "logout"} /\ ~request[q].token
         => ~Active(request[q].session)
AInv == EndedStaysEnded /\ \A q \in performed : q.token /\ ~q.late

LInv == HInv /\ OInv /\ UInv /\ AInv

-----------------------------------------------------------------------------
(* Types, and what the actions do to the sessions.                         *)

LEMMA InitHInv == LoginAssumption /\ LoginInit => HInv
  <1> SUFFICES ASSUME LoginAssumption, LoginInit PROVE HInv
    OBVIOUS
  <1>1. /\ callback = [c \in Callbacks |-> IdleCallback] /\ IdleCallback \in Callback
        /\ request = [q \in Requests |-> IdleRequest] /\ IdleRequest \in Request
    BY DEF LoginInit, IdleCallback, Callback, IdleRequest, Request
  <1>2. HandlersHaveData
    BY <1>1 DEF HandlersHaveData, IdleCallback, IdleRequest, Paid
  <1>3. sessions \in Seq(Session)
    BY EmptySeq DEF LoginInit
  <1>4. state \in [States -> State] /\ clock \in 0..MaxTime /\ renames \in 0..MaxRenames
        /\ failed \in 0..MaxFailed
    BY DEF LoginInit, State, LoginAssumption
  <1> QED
    BY <1>1, <1>2, <1>3, <1>4 DEF HInv, LoginTypeOK, LoginInit

(* A session that is created comes after the others.                       *)
LEMMA CreateSessionEffect ==
    ASSUME LoginAssumption, HInv, NEW c \in Callbacks, CreateSession(c)
    PROVE  /\ sessions' \in Seq(Session)
           /\ Len(sessions) + 1 \notin DOMAIN sessions
           /\ DOMAIN sessions' = DOMAIN sessions \cup {Len(sessions) + 1}
           /\ \A n \in DOMAIN sessions : sessions'[n] = sessions[n]
           /\ sessions'[Len(sessions) + 1] =
                [account |-> callback[c].account, state |-> callback[c].state,
                 expires |-> clock + SessionTTL, revoked |-> FALSE, over |-> FALSE]
  <1> DEFINE new == [account |-> callback[c].account, state |-> callback[c].state,
                     expires |-> clock + SessionTTL, revoked |-> FALSE, over |-> FALSE]
  <1>1. clock \in Nat /\ SessionTTL \in Nat /\ sessions \in Seq(Session)
    BY DEF HInv, LoginTypeOK, LoginAssumption
  <1>2. callback[c].state \in States /\ callback[c].account \in Accounts
    BY DEF CreateSession, At, HInv, HandlersHaveData, Paid
  <1>3. new \in Session
    BY <1>1, <1>2 DEF Session
  <1>4. sessions' = Append(sessions, new)
    BY DEF CreateSession
  <1> HIDE DEF new
  <1>5. /\ sessions' \in Seq(Session) /\ Len(sessions') = Len(sessions) + 1
        /\ \A n \in 1 .. Len(sessions) : sessions'[n] = sessions[n]
        /\ sessions'[Len(sessions) + 1] = new
    BY <1>1, <1>3, <1>4, AppendProperties
  <1>6. DOMAIN sessions = 1 .. Len(sessions) /\ DOMAIN sessions' = 1 .. Len(sessions')
        /\ Len(sessions) \in Nat
    BY <1>1, <1>5, LenProperties
  <1> QED
    BY <1>5, <1>6 DEF new

(* A logout revokes the session it names, unless that has expired.         *)
LEMMA LogoutEffect ==
    ASSUME HInv, NEW q \in Requests, Logout(q), NEW n, n = request[q].session
    PROVE  /\ n \in DOMAIN sessions
           /\ sessions' \in Seq(Session)
           /\ DOMAIN sessions' = DOMAIN sessions
           /\ \A m \in DOMAIN sessions :
                /\ m # n => sessions'[m] = sessions[m]
                /\ sessions'[m].account = sessions[m].account
                /\ sessions'[m].state = sessions[m].state
                /\ sessions'[m].expires = sessions[m].expires
           /\ \/ sessions[n].expires <= clock /\ sessions' = sessions
              \/ sessions'[n].revoked /\ sessions'[n].over = (sessions[n].over \/ request[q].token)
  <1> DEFINE ended == [sessions[n] EXCEPT !.revoked = TRUE, !.over = @ \/ request[q].token]
  <1>1. /\ n \in DOMAIN sessions /\ sessions \in Seq(Session) /\ request[q].token \in BOOLEAN
        /\ clock \in Nat
    BY DEF Logout, HInv, LoginTypeOK, HandlersHaveData, Request
  <1>2. n \in 1 .. Len(sessions) /\ DOMAIN sessions = 1 .. Len(sessions)
    BY <1>1, LenProperties
  <1>3. sessions[n] \in Session
    BY <1>1, <1>2, ElementOfSeq
  <1>4. /\ ended \in Session /\ ended.revoked
        /\ ended.over = (sessions[n].over \/ request[q].token)
        /\ ended.account = sessions[n].account /\ ended.state = sessions[n].state
        /\ ended.expires = sessions[n].expires
    BY <1>1, <1>3 DEF Session
  <1>5. CASE sessions[n].expires > clock
    <2>1. sessions' = [sessions EXCEPT ![n] = ended]
      BY <1>5 DEF Logout
    <2> HIDE DEF ended
    <2>2. /\ sessions' \in Seq(Session) /\ Len(sessions') = Len(sessions)
          /\ \A m \in 1 .. Len(sessions) :
               sessions'[m] = IF m = n THEN ended ELSE sessions[m]
      BY <1>1, <1>2, <1>4, <2>1, ExceptSeq
    <2>3. DOMAIN sessions' = 1 .. Len(sessions')
      BY <2>2, LenProperties
    <2> QED
      BY <1>1, <1>2, <1>4, <2>2, <2>3
  <1>6. CASE ~(sessions[n].expires > clock)
    <2>1. sessions' = sessions
      BY <1>6 DEF Logout
    <2>2. sessions[n].expires \in Nat
      BY <1>3 DEF Session
    <2> QED
      BY <1>1, <1>6, <2>1, <2>2
  <1> QED
    BY <1>5, <1>6

LEMMA IdentifiedCallback ==
    ASSUME NEW r \in Callback, NEW a \in Accounts, NEW l \in Logins, r.state \in States,
           NEW new, new = [r EXCEPT !.step = "consume", !.account = a, !.name = l]
    PROVE  /\ new \in Callback /\ new.state \in States
           /\ new.account \in Accounts /\ new.name \in Logins
  <1>1. new = [r EXCEPT !.step = "consume", !.account = a, !.name = l]
    OBVIOUS
  <1>2. /\ new.step = "consume" /\ new.account = a /\ new.name = l
        /\ new.state = r.state /\ new.known = r.known
    BY <1>1 DEF Callback
  <1> QED
    BY <1>1, <1>2 DEF Callback

LEMMA NextHInv == LoginAssumption /\ HInv /\ [LoginNext]_loginVars => HInv'
  <1> SUFFICES ASSUME LoginAssumption, HInv, [LoginNext]_loginVars PROVE HInv'
    OBVIOUS
  <1>t. LoginTypeOK /\ HandlersHaveData
    BY DEF HInv
  <1>n. /\ clock \in Nat /\ StateTTL \in Nat /\ MaxTime \in Nat /\ renames \in Nat
        /\ MaxRenames \in Nat /\ failed \in Nat /\ MaxFailed \in Nat
        /\ NoState \notin States /\ NoAccount \notin Accounts /\ NoLogin \notin Logins
    BY <1>t DEF LoginTypeOK, LoginAssumption
  <1>i. IdleCallback \in Callback /\ IdleCallback.step = "idle" /\ IdleRequest \in Request
        /\ IdleRequest.step = "idle"
    BY DEF IdleCallback, Callback, IdleRequest, Request
  (* What a step of one callback has to show.                              *)
  <1>c. ASSUME NEW c \in Callbacks, NEW new \in Callback,
               callback' = [callback EXCEPT ![c] = new],
               new.step # "idle" => new.state \in States,
               new.step \in {"consume"} \cup Paid =>
                  new.account \in Accounts /\ new.name \in Logins,
               UNCHANGED <<request, sessions>>
        PROVE  HandlersHaveData' /\ callback' \in [Callbacks -> Callback]
    BY <1>c, <1>t DEF HandlersHaveData, LoginTypeOK
  <1>1. CASE Tick
    BY <1>1, <1>t, <1>n DEF Tick, HInv, LoginTypeOK, HandlersHaveData, naming, identity
  <1>2. ASSUME NEW a \in Accounts, Rename(a) PROVE HInv'
    <2>1. login' \in [Accounts -> Logins] /\ renames' \in 0 .. MaxRenames
      BY <1>2, <1>t, <1>n DEF Rename, LoginTypeOK
    <2> QED
      BY <1>2, <1>t, <2>1 DEF Rename, HInv, LoginTypeOK, HandlersHaveData, identity
  <1>3. ASSUME NEW s \in States, CreateState(s) PROVE HInv'
    <2>1. state' \in [States -> State]
      BY <1>3, <1>t, <1>n DEF CreateState, LoginTypeOK, State
    <2> QED
      BY <1>3, <1>t, <2>1 DEF CreateState, HInv, LoginTypeOK, HandlersHaveData, naming, identity
  <1>4. ASSUME NEW c \in Callbacks, NEW s \in States, ReceiveCallback(c, s) PROVE HInv'
    <2> DEFINE new == [callback[c] EXCEPT !.step = "exchange", !.state = s]
    <2>1. callback' = [callback EXCEPT ![c] = new]
      BY <1>4 DEF ReceiveCallback
    <2>2. new \in Callback /\ new.step = "exchange" /\ new.state = s
      BY <1>t DEF LoginTypeOK, Callback
    <2> HIDE DEF new
    <2>3. HandlersHaveData' /\ callback' \in [Callbacks -> Callback]
      BY <1>4, <1>c, <2>1, <2>2 DEF ReceiveCallback, Paid
    <2> QED
      BY <1>4, <1>t, <2>3 DEF ReceiveCallback, HInv, LoginTypeOK, naming, identity
  <1>5. ASSUME NEW c \in Callbacks, Identify(c) PROVE HInv'
    <2>1. PICK a \in Accounts : callback' = [callback EXCEPT
            ![c].step = "consume", ![c].account = a, ![c].name = login[a]]
      BY <1>5 DEF Identify
    <2> DEFINE new == [callback[c] EXCEPT !.step = "consume", !.account = a, !.name = login[a]]
    <2>2. callback' = [callback EXCEPT ![c] = new]
      BY <2>1
    <2>3. /\ new \in Callback /\ new.state \in States
          /\ new.account \in Accounts /\ new.name \in Logins
      <3>1. callback[c] \in Callback /\ callback[c].state \in States /\ login[a] \in Logins
        BY <1>5, <1>t DEF Identify, At, LoginTypeOK, HandlersHaveData
      <3> QED
        BY <3>1, IdentifiedCallback
    <2> HIDE DEF new
    <2>4. HandlersHaveData' /\ callback' \in [Callbacks -> Callback]
      BY <1>5, <1>c, <2>2, <2>3 DEF Identify
    <2> QED
      BY <1>5, <1>t, <2>4 DEF Identify, HInv, LoginTypeOK, naming, identity
  <1>6. ASSUME NEW c \in Callbacks, ConsumeState(c) PROVE HInv'
    <2> DEFINE s == callback[c].state
               new == IF Consumable(s) THEN [callback[c] EXCEPT !.step = "upsert"] ELSE IdleCallback
    <2>1. callback' = [callback EXCEPT ![c] = new]
      BY <1>6 DEF ConsumeState, Consume, Goto, Refuse
    <2>2. /\ new \in Callback /\ (new.step # "idle" => new.state \in States)
          /\ new.step # "idle" => new.account \in Accounts /\ new.name \in Logins
      BY <1>6, <1>t, <1>i DEF ConsumeState, At, LoginTypeOK, Callback, HandlersHaveData
    <2> HIDE DEF new
    <2>3. HandlersHaveData' /\ callback' \in [Callbacks -> Callback]
      BY <1>6, <1>c, <2>1, <2>2 DEF ConsumeState, Paid
    <2>4. s \in States
      BY <1>6, <1>t DEF ConsumeState, At, HandlersHaveData
    <2>5. state' \in [States -> State]
      BY <1>6, <1>t, <2>4 DEF ConsumeState, Consume, LoginTypeOK, State
    <2> QED
      BY <1>6, <1>t, <2>3, <2>5 DEF ConsumeState, HInv, LoginTypeOK, naming, identity
  <1>7. ASSUME NEW c \in Callbacks, FindUser(c) PROVE HInv'
    <2> DEFINE new == [callback[c] EXCEPT !.step = "write",
                                          !.known = user[callback[c].account] # NoLogin]
    <2>1. callback' = [callback EXCEPT ![c] = new]
      BY <1>7 DEF FindUser
    <2>2. /\ new \in Callback /\ new.state \in States
          /\ new.account \in Accounts /\ new.name \in Logins
      BY <1>7, <1>t DEF FindUser, At, LoginTypeOK, Callback, HandlersHaveData, Paid
    <2> HIDE DEF new
    <2>3. HandlersHaveData' /\ callback' \in [Callbacks -> Callback]
      BY <1>7, <1>c, <2>1, <2>2 DEF FindUser
    <2> QED
      BY <1>7, <1>t, <2>3 DEF FindUser, HInv, LoginTypeOK, naming, identity
  <1>8. ASSUME NEW c \in Callbacks, WriteUser(c) PROVE HInv'
    <2> DEFINE a == callback[c].account
               new == IF Conflict(c) THEN IdleCallback ELSE [callback[c] EXCEPT !.step = "sync"]
    <2>1. callback' = [callback EXCEPT ![c] = new]
      BY <1>8 DEF WriteUser, Goto, Refuse
    <2>2. /\ new \in Callback /\ (new.step # "idle" => new.state \in States)
          /\ new.step # "idle" => new.account \in Accounts /\ new.name \in Logins
      BY <1>8, <1>t, <1>i DEF WriteUser, At, LoginTypeOK, Callback, HandlersHaveData, Paid
    <2> HIDE DEF new
    <2>3. HandlersHaveData' /\ callback' \in [Callbacks -> Callback]
      BY <1>8, <1>c, <2>1, <2>2 DEF WriteUser, Paid
    <2>4. a \in Accounts /\ callback[c].name \in Logins
      BY <1>8, <1>t DEF WriteUser, At, HandlersHaveData, Paid
    <2>5. user' \in [Accounts -> Logins \cup {NoLogin}]
      BY <1>8, <1>t, <2>4 DEF WriteUser, LoginTypeOK, identity
    <2>6. connections' \in [Accounts -> Nat]
      BY <1>8, <1>t, <2>4 DEF WriteUser, LoginTypeOK, identity
    <2> QED
      BY <1>8, <1>t, <2>3, <2>5, <2>6 DEF WriteUser, HInv, LoginTypeOK, naming
  <1>9. ASSUME NEW c \in Callbacks, Synchronise(c) PROVE HInv'
    <2> DEFINE new == [callback[c] EXCEPT !.step = "session"]
    <2>1. callback' = [callback EXCEPT ![c] = new]
      BY <1>9 DEF Synchronise, Goto
    <2>2. /\ new \in Callback /\ new.state \in States
          /\ new.account \in Accounts /\ new.name \in Logins
      BY <1>9, <1>t DEF Synchronise, At, LoginTypeOK, Callback, HandlersHaveData, Paid
    <2> HIDE DEF new
    <2>3. HandlersHaveData' /\ callback' \in [Callbacks -> Callback]
      BY <1>9, <1>c, <2>1, <2>2 DEF Synchronise
    <2> QED
      BY <1>9, <1>t, <2>3 DEF Synchronise, HInv, LoginTypeOK, naming, identity
  <1>10. ASSUME NEW c \in Callbacks, CreateSession(c) PROVE HInv'
    <2>1. callback' = [callback EXCEPT ![c] = IdleCallback]
      BY <1>10 DEF CreateSession, Refuse
    <2>2. sessions' \in Seq(Session) /\ DOMAIN sessions \subseteq DOMAIN sessions'
      BY <1>10, CreateSessionEffect
    <2>3. HandlersHaveData' /\ callback' \in [Callbacks -> Callback]
      BY <1>10, <1>t, <1>i, <2>1, <2>2 DEF CreateSession, HandlersHaveData, LoginTypeOK, Paid
    <2> QED
      BY <1>10, <1>t, <2>2, <2>3 DEF CreateSession, HInv, LoginTypeOK, naming, identity
  <1>11. ASSUME NEW c \in Callbacks, FailCallback(c) PROVE HInv'
    <2>1. callback' = [callback EXCEPT ![c] = IdleCallback]
      BY <1>11 DEF FailCallback, Refuse
    <2>2. HandlersHaveData' /\ callback' \in [Callbacks -> Callback]
      BY <1>11, <1>c, <1>i, <2>1 DEF FailCallback, Paid
    <2>3. failed' \in 0 .. MaxFailed
      BY <1>11, <1>t, <1>n DEF FailCallback, LoginTypeOK
    <2> QED
      BY <1>11, <1>t, <2>2, <2>3 DEF FailCallback, HInv, LoginTypeOK, naming, identity
  (* What a step of one request has to show.                               *)
  <1>q. ASSUME NEW q \in Requests, NEW new \in Request, request' = [request EXCEPT ![q] = new],
               new.step # "idle" => new.session \in DOMAIN sessions,
               UNCHANGED callback, DOMAIN sessions' = DOMAIN sessions
        PROVE  HandlersHaveData' /\ request' \in [Requests -> Request]
    BY <1>q, <1>t DEF HandlersHaveData, LoginTypeOK
  <1>12. ASSUME NEW q \in Requests, NEW n \in DOMAIN sessions, NEW kind \in {"change", "logout"},
                NEW token \in BOOLEAN, RequestArrives(q, n, kind, token)
         PROVE  HInv'
    <2> DEFINE new == [step |-> "csrf", kind |-> kind, session |-> n, token |-> token,
                       late |-> sessions[n].over \/ sessions[n].expires <= clock]
    <2>1. request' = [request EXCEPT ![q] = new]
      BY <1>12 DEF RequestArrives
    <2>2. sessions \in Seq(Session) /\ n \in 1 .. Len(sessions)
      BY <1>t, LenProperties DEF LoginTypeOK
    <2>3. sessions[n] \in Session /\ Len(sessions) \in Nat
      BY <2>2, ElementOfSeq, LenProperties
    <2>4. new \in Request /\ new.session = n
      BY <2>2, <2>3 DEF Request, Session
    <2> HIDE DEF new
    <2>5. HandlersHaveData' /\ request' \in [Requests -> Request]
      BY <1>12, <1>q, <2>1, <2>4 DEF RequestArrives
    <2> QED
      BY <1>12, <1>t, <2>5 DEF RequestArrives, HInv, LoginTypeOK, naming, identity
  <1>13. ASSUME NEW q \in Requests, CheckToken(q) PROVE HInv'
    <2> DEFINE next == IF request[q].kind = "logout" THEN "logout" ELSE "authenticate"
               new == IF RefusesToken(q) THEN IdleRequest ELSE [request[q] EXCEPT !.step = next]
    <2>1. request' = [request EXCEPT ![q] = new]
      BY <1>13 DEF CheckToken
    <2>2. new \in Request /\ (new.step # "idle" => new.session \in DOMAIN sessions)
      BY <1>13, <1>t, <1>i DEF CheckToken, LoginTypeOK, Request, HandlersHaveData
    <2> HIDE DEF new
    <2>3. HandlersHaveData' /\ request' \in [Requests -> Request]
      BY <1>13, <1>q, <2>1, <2>2 DEF CheckToken
    <2> QED
      BY <1>13, <1>t, <2>3 DEF CheckToken, HInv, LoginTypeOK, naming, identity
  <1>14. ASSUME NEW q \in Requests, Authenticate(q) PROVE HInv'
    <2>1. request' = [request EXCEPT ![q] = IdleRequest]
      BY <1>14 DEF Authenticate
    <2>2. HandlersHaveData' /\ request' \in [Requests -> Request]
      BY <1>14, <1>i, <1>q, <2>1 DEF Authenticate
    <2>3. performed' \subseteq Request
      BY <1>14, <1>t DEF Authenticate, LoginTypeOK
    <2> QED
      BY <1>14, <1>t, <2>2, <2>3 DEF Authenticate, HInv, LoginTypeOK, naming, identity
  <1>15. ASSUME NEW q \in Requests, Logout(q) PROVE HInv'
    <2>1. request' = [request EXCEPT ![q] = IdleRequest]
      BY <1>15 DEF Logout
    <2>2. sessions' \in Seq(Session) /\ DOMAIN sessions' = DOMAIN sessions
      BY <1>15, LogoutEffect
    <2>3. HandlersHaveData' /\ request' \in [Requests -> Request]
      BY <1>15, <1>i, <1>q, <2>1, <2>2 DEF Logout
    <2> QED
      BY <1>15, <1>t, <2>2, <2>3 DEF Logout, HInv, LoginTypeOK, naming, identity
  <1>16. CASE UNCHANGED loginVars
    BY <1>16, <1>t DEF loginVars, naming, identity, HInv, LoginTypeOK, HandlersHaveData
  <1> QED
    BY <1>1, <1>2, <1>3, <1>4, <1>5, <1>6, <1>7, <1>8, <1>9, <1>10, <1>11, <1>12, <1>13,
       <1>14, <1>15, <1>16 DEF LoginNext, CallbackStep

-----------------------------------------------------------------------------
(* An OAuth state admits one login.                                        *)

LEMMA InitOInv == LoginInit => OInv
  BY DEF LoginInit, OInv, SpentByPayers, PayersDiffer, IdleCallback, Paid

(* A step of one callback that does not consume a state.                   *)
LEMMA CallbackKeepsPayers ==
    ASSUME HInv, OInv, NEW c \in Callbacks, UNCHANGED <<state, sessions>>,
           \A d \in Callbacks \ {c} : callback'[d] = callback[d],
           callback'[c].step \in Paid =>
             callback[c].step \in Paid /\ callback'[c].state = callback[c].state
    PROVE  OInv'
  <1>1. \A d \in Callbacks : callback'[d].step \in Paid =>
          callback[d].step \in Paid /\ callback'[d].state = callback[d].state
    OBVIOUS
  <1>2. SpentByPayers'
    BY <1>1 DEF OInv, SpentByPayers
  <1>3. PayersDiffer'
    BY <1>1 DEF OInv, PayersDiffer
  <1> QED
    BY <1>2, <1>3 DEF OInv

LEMMA NextOInv == LoginAssumption /\ HInv /\ OInv /\ [LoginNext]_loginVars => OInv'
  <1> SUFFICES ASSUME LoginAssumption, HInv, OInv, [LoginNext]_loginVars PROVE OInv'
    OBVIOUS
  <1>t. /\ callback \in [Callbacks -> Callback] /\ state \in [States -> State]
        /\ sessions \in Seq(Session)
        /\ \A c \in Callbacks : callback[c].step # "idle" => callback[c].state \in States
        /\ \A n \in DOMAIN sessions : sessions[n] \in Session
    <2>1. \A n \in DOMAIN sessions : sessions[n] \in Session
      BY ElementOfSeq, LenProperties DEF HInv, LoginTypeOK
    <2> QED
      BY <2>1 DEF HInv, LoginTypeOK, HandlersHaveData
  <1>i. IdleCallback.step = "idle"
    BY DEF IdleCallback
  <1>1. CASE UNCHANGED <<state, sessions, callback>>
    BY <1>1 DEF OInv, SpentByPayers, PayersDiffer
  <1>2. ASSUME NEW s \in States, CreateState(s) PROVE OInv'
    <2>1. /\ UNCHANGED <<callback, sessions>> /\ state[s].kind = "absent"
          /\ \A t \in States : state[t].kind \in Spent => state'[t].kind \in Spent
      BY <1>2, <1>t DEF CreateState, State, Spent
    <2>2. /\ \A c \in Callbacks : callback[c].step \in Paid => callback[c].state \in States
          /\ \A n \in DOMAIN sessions : sessions[n].state \in States
      BY <1>t DEF Paid, Session
    <2> QED
      BY <2>1, <2>2 DEF OInv, SpentByPayers, PayersDiffer
  <1>3. ASSUME NEW c \in Callbacks, NEW s \in States, ReceiveCallback(c, s) PROVE OInv'
    <2>1. /\ UNCHANGED <<state, sessions>> /\ callback'[c].step = "exchange"
          /\ \A d \in Callbacks \ {c} : callback'[d] = callback[d]
      BY <1>3, <1>t DEF ReceiveCallback, Callback
    <2> QED
      BY <2>1, CallbackKeepsPayers DEF Paid
  <1>4. ASSUME NEW c \in Callbacks, Identify(c) PROVE OInv'
    <2>1. /\ UNCHANGED <<state, sessions>> /\ callback'[c].step = "consume"
          /\ \A d \in Callbacks \ {c} : callback'[d] = callback[d]
      BY <1>4, <1>t DEF Identify, Callback
    <2> QED
      BY <2>1, CallbackKeepsPayers DEF Paid
  <1>5. ASSUME NEW c \in Callbacks, ConsumeState(c) PROVE OInv'
    <2> DEFINE s == callback[c].state
    <2>1. s \in States /\ callback[c].step = "consume"
      BY <1>5, <1>t DEF ConsumeState, At
    <2>2. CASE Consumable(s)
      <3>1. /\ sessions' = sessions /\ state[s].kind = "open" /\ state'[s].kind = "consumed"
            /\ \A t \in States \ {s} : state'[t] = state[t]
            /\ callback'[c].step = "upsert" /\ callback'[c].state = s
            /\ \A d \in Callbacks \ {c} : callback'[d] = callback[d]
        BY <1>5, <1>t, <2>1, <2>2 DEF ConsumeState, Consume, Consumable, Goto, State, Callback
      <3>2. /\ \A d \in Callbacks : callback[d].step \in Paid => callback[d].state # s
            /\ \A n \in DOMAIN sessions : sessions[n].state # s
        BY <3>1 DEF OInv, SpentByPayers, Spent
      <3>3. /\ \A d \in Callbacks : callback[d].step \in Paid => callback[d].state \in States
            /\ \A n \in DOMAIN sessions : sessions[n].state \in States
        BY <1>t DEF Paid, Session
      <3> HIDE DEF s
      <3>4. SpentByPayers'
        BY <3>1, <3>2, <3>3 DEF OInv, SpentByPayers, Spent
      <3>5. PayersDiffer'
        BY <3>1, <3>2 DEF OInv, PayersDiffer
      <3> QED
        BY <3>4, <3>5 DEF OInv
    <2>3. CASE ~Consumable(s)
      <3>1. /\ UNCHANGED <<state, sessions>> /\ callback'[c].step = "idle"
            /\ \A d \in Callbacks \ {c} : callback'[d] = callback[d]
        BY <1>5, <1>t, <1>i, <2>3 DEF ConsumeState, Consume, Refuse
      <3> QED
        BY <3>1, CallbackKeepsPayers DEF Paid
    <2> QED
      BY <2>2, <2>3
  <1>6. ASSUME NEW c \in Callbacks, FindUser(c) PROVE OInv'
    <2>1. /\ UNCHANGED <<state, sessions>> /\ callback[c].step = "upsert"
          /\ callback'[c].state = callback[c].state
          /\ \A d \in Callbacks \ {c} : callback'[d] = callback[d]
      BY <1>6, <1>t DEF FindUser, At, Callback
    <2> QED
      BY <2>1, CallbackKeepsPayers DEF Paid
  <1>7. ASSUME NEW c \in Callbacks, WriteUser(c) PROVE OInv'
    <2>1. /\ UNCHANGED <<state, sessions>> /\ callback[c].step = "write"
          /\ callback'[c].step \in Paid => callback'[c].state = callback[c].state
          /\ \A d \in Callbacks \ {c} : callback'[d] = callback[d]
      <3>1. CASE Conflict(c)
        BY <1>7, <1>t, <1>i, <3>1 DEF WriteUser, At, Refuse, Paid
      <3>2. CASE ~Conflict(c)
        BY <1>7, <1>t, <3>2 DEF WriteUser, At, Goto, Callback
      <3> QED
        BY <3>1, <3>2
    <2> QED
      BY <2>1, CallbackKeepsPayers DEF Paid
  <1>8. ASSUME NEW c \in Callbacks, Synchronise(c) PROVE OInv'
    <2>1. /\ UNCHANGED <<state, sessions>> /\ callback[c].step = "sync"
          /\ callback'[c].state = callback[c].state
          /\ \A d \in Callbacks \ {c} : callback'[d] = callback[d]
      BY <1>8, <1>t DEF Synchronise, At, Goto, Callback
    <2> QED
      BY <2>1, CallbackKeepsPayers DEF Paid
  <1>9. ASSUME NEW c \in Callbacks, CreateSession(c) PROVE OInv'
    <2> DEFINE m == Len(sessions) + 1
    <2>1. /\ m \notin DOMAIN sessions /\ DOMAIN sessions' = DOMAIN sessions \cup {m}
          /\ \A n \in DOMAIN sessions : sessions'[n] = sessions[n]
          /\ sessions'[m] = [account |-> callback[c].account, state |-> callback[c].state,
               expires |-> clock + SessionTTL, revoked |-> FALSE, over |-> FALSE]
      BY <1>9, CreateSessionEffect
    <2>2. /\ state' = state /\ callback[c].step \in Paid /\ callback'[c].step = "idle"
          /\ \A d \in Callbacks \ {c} : callback'[d] = callback[d]
      BY <1>9, <1>t, <1>i DEF CreateSession, At, Refuse, Paid
    <2> HIDE DEF m
    <2>s. sessions'[m].state = callback[c].state
      BY <2>1
    <2>3. SpentByPayers'
      BY <2>1, <2>2, <2>s DEF OInv, SpentByPayers, Paid
    <2>4. \A k, n \in DOMAIN sessions' : sessions'[k].state = sessions'[n].state => k = n
      BY <2>1, <2>2, <2>s DEF OInv, PayersDiffer
    <2>5. \A d \in Callbacks, n \in DOMAIN sessions' :
            callback'[d].step \in Paid => callback'[d].state # sessions'[n].state
      BY <2>1, <2>2, <2>s DEF OInv, PayersDiffer, Paid
    <2>6. \A d, e \in Callbacks :
            /\ callback'[d].step \in Paid /\ callback'[e].step \in Paid
            /\ callback'[d].state = callback'[e].state
            => d = e
      BY <2>2 DEF OInv, PayersDiffer, Paid
    <2> QED
      BY <2>3, <2>4, <2>5, <2>6 DEF OInv, PayersDiffer
  <1>10. ASSUME NEW c \in Callbacks, FailCallback(c) PROVE OInv'
    <2>1. /\ UNCHANGED <<state, sessions>> /\ callback'[c].step = "idle"
          /\ \A d \in Callbacks \ {c} : callback'[d] = callback[d]
      BY <1>10, <1>t, <1>i DEF FailCallback, Refuse
    <2> QED
      BY <2>1, CallbackKeepsPayers DEF Paid
  <1>11. ASSUME NEW q \in Requests, Logout(q) PROVE OInv'
    <2>1. /\ DOMAIN sessions' = DOMAIN sessions
          /\ \A n \in DOMAIN sessions : sessions'[n].state = sessions[n].state
      BY <1>11, LogoutEffect
    <2>2. UNCHANGED <<state, callback>>
      BY <1>11 DEF Logout
    <2> QED
      BY <2>1, <2>2 DEF OInv, SpentByPayers, PayersDiffer
  <1>12. \/ UNCHANGED <<state, sessions, callback>>
         \/ \E s \in States : CreateState(s)
         \/ \E c \in Callbacks :
              \/ \E s \in States : ReceiveCallback(c, s)
              \/ CallbackStep(c)
              \/ FailCallback(c)
         \/ \E q \in Requests : Logout(q)
    BY DEF LoginNext, Tick, Rename, RequestArrives, CheckToken, Authenticate, loginVars
  <1> QED
    BY <1>1, <1>2, <1>3, <1>4, <1>5, <1>6, <1>7, <1>8, <1>9, <1>10, <1>11, <1>12
    DEF CallbackStep

(* Who pays with a state is alone.                                         *)
LEMMA OInvImplies == OInv => StateAdmitsOneLogin
  <1> SUFFICES ASSUME OInv, NEW s \in States
               PROVE  /\ Cardinality(LoginsBy(s)) <= 1
                      /\ LoginsBy(s) # {} => state[s].kind \in {"consumed", "deleted"}
    BY DEF StateAdmitsOneLogin
  <1>1. \A x \in LoginsBy(s) :
          \/ \E n \in DOMAIN sessions : x = <<"session", n>> /\ sessions[n].state = s
          \/ \E c \in Callbacks :
               x = <<"callback", c>> /\ callback[c].state = s /\ callback[c].step \in Paid
    BY DEF LoginsBy, Paid
  <1>2. \A x, y \in LoginsBy(s) : x = y
    BY <1>1 DEF OInv, PayersDiffer
  <1>3. LoginsBy(s) # {} => state[s].kind \in Spent
    BY <1>1 DEF OInv, SpentByPayers
  <1>4. Cardinality(LoginsBy(s)) <= 1
    <2>1. CASE LoginsBy(s) = {}
      BY <2>1, FS_EmptySet
    <2>2. CASE LoginsBy(s) # {}
      <3>1. PICK x \in LoginsBy(s) : TRUE
        BY <2>2
      <3>2. LoginsBy(s) = {x}
        BY <1>2, <3>1
      <3>3. Cardinality({x}) = 1
        BY FS_Singleton
      <3> QED
        BY <3>2, <3>3
    <2> QED
      BY <2>1, <2>2
  <1> QED
    BY <1>3, <1>4 DEF Spent

-----------------------------------------------------------------------------
(* An account has one user and one connection, and a login one user.       *)

LEMMA InitUInv == LoginInit => UInv
  <1> SUFFICES ASSUME LoginInit PROVE UInv
    OBVIOUS
  <1>1. DOMAIN sessions = {}
    BY DEF LoginInit
  <1>2. HasUser
    BY DEF LoginInit, HasUser, IdleCallback
  <1> QED
    BY <1>1, <1>2 DEF LoginInit, UInv, IdentityIsUnique

(* A step that leaves the users and adds nobody who must have one.         *)
LEMMA KeepsIdentity ==
    ASSUME UInv, UNCHANGED identity, HasUser',
           \A n \in DOMAIN sessions' : user[sessions'[n].account] # NoLogin
    PROVE  UInv'
  BY DEF UInv, IdentityIsUnique, identity

LEMMA NextUInv == LoginAssumption /\ HInv /\ UInv /\ [LoginNext]_loginVars => UInv'
  <1> SUFFICES ASSUME LoginAssumption, HInv, UInv, [LoginNext]_loginVars PROVE UInv'
    OBVIOUS
  <1>t. /\ callback \in [Callbacks -> Callback]
        /\ user \in [Accounts -> Logins \cup {NoLogin}] /\ connections \in [Accounts -> Nat]
        /\ \A c \in Callbacks : callback[c].step \in Paid =>
             callback[c].account \in Accounts /\ callback[c].name \in Logins
        /\ NoLogin \notin Logins
    BY DEF HInv, LoginTypeOK, HandlersHaveData, LoginAssumption
  <1>u. /\ HasUser
        /\ \A n \in DOMAIN sessions : user[sessions[n].account] # NoLogin
    BY DEF UInv, IdentityIsUnique
  <1>i. IdleCallback.step = "idle"
    BY DEF IdleCallback
  (* A step of one callback that leaves the users and the sessions.        *)
  <1>c. ASSUME NEW c \in Callbacks, UNCHANGED <<identity, sessions>>,
               \A d \in Callbacks \ {c} : callback'[d] = callback[d],
               \/ callback'[c].step \in {"sync", "session"}
               \/ callback'[c].step = "write" /\ callback'[c].known
               => user[callback'[c].account] # NoLogin
        PROVE  UInv'
    <2>1. HasUser'
      BY <1>c, <1>u DEF HasUser, identity
    <2> QED
      BY <1>c, <1>u, <2>1, KeepsIdentity
  <1>1. CASE UNCHANGED <<identity, sessions, callback>>
    BY <1>1, <1>u, KeepsIdentity DEF HasUser, identity
  <1>2. ASSUME NEW c \in Callbacks, NEW s \in States, ReceiveCallback(c, s) PROVE UInv'
    <2>1. /\ UNCHANGED <<identity, sessions>> /\ callback'[c].step = "exchange"
          /\ \A d \in Callbacks \ {c} : callback'[d] = callback[d]
      BY <1>2, <1>t DEF ReceiveCallback, Callback
    <2> QED
      BY <1>c, <2>1
  <1>3. ASSUME NEW c \in Callbacks, Identify(c) PROVE UInv'
    <2>1. /\ UNCHANGED <<identity, sessions>> /\ callback'[c].step = "consume"
          /\ \A d \in Callbacks \ {c} : callback'[d] = callback[d]
      BY <1>3, <1>t DEF Identify, Callback
    <2> QED
      BY <1>c, <2>1
  <1>4. ASSUME NEW c \in Callbacks, ConsumeState(c) PROVE UInv'
    <2>1. /\ UNCHANGED <<identity, sessions>> /\ callback'[c].step \in {"upsert", "idle"}
          /\ \A d \in Callbacks \ {c} : callback'[d] = callback[d]
      BY <1>4, <1>t, <1>i DEF ConsumeState, Consume, Goto, Refuse, Callback
    <2> QED
      BY <1>c, <2>1
  <1>5. ASSUME NEW c \in Callbacks, FindUser(c) PROVE UInv'
    <2>1. /\ UNCHANGED <<identity, sessions>> /\ callback'[c].step = "write"
          /\ callback'[c].known = (user[callback[c].account] # NoLogin)
          /\ callback'[c].account = callback[c].account
          /\ \A d \in Callbacks \ {c} : callback'[d] = callback[d]
      BY <1>5, <1>t DEF FindUser, Callback
    <2> QED
      BY <1>c, <2>1
  <1>6. ASSUME NEW c \in Callbacks, WriteUser(c), Conflict(c) PROVE UInv'
    <2>1. /\ UNCHANGED <<identity, sessions>> /\ callback'[c].step = "idle"
          /\ \A d \in Callbacks \ {c} : callback'[d] = callback[d]
      BY <1>6, <1>t, <1>i DEF WriteUser, Refuse
    <2> QED
      BY <1>c, <2>1
  <1>7. ASSUME NEW c \in Callbacks, WriteUser(c), ~Conflict(c) PROVE UInv'
    <2> DEFINE a == callback[c].account
    <2>1. /\ a \in Accounts /\ callback[c].name \in Logins /\ sessions' = sessions
          /\ callback[c].step = "write"
      BY <1>7, <1>t DEF WriteUser, At, Paid
    <2>2. /\ callback[c].known \/ user[a] = NoLogin
          /\ \A b \in Accounts \ {a} : user[b] # callback[c].name
      BY <1>7 DEF Conflict
    <2>3. /\ callback'[c].account = a
          /\ \A d \in Callbacks \ {c} : callback'[d] = callback[d]
      BY <1>7, <1>t DEF WriteUser, Goto, Callback
    <2>4. /\ user'[a] = callback[c].name
          /\ \A b \in Accounts \ {a} : user'[b] = user[b]
      BY <1>7, <1>t, <2>1 DEF WriteUser
    <2>5. /\ connections'[a] = IF callback[c].known
                               THEN IF connections[a] = 0 THEN 1 ELSE connections[a]
                               ELSE connections[a] + 1
          /\ \A b \in Accounts \ {a} : connections'[b] = connections[b]
      BY <1>7, <1>t, <2>1 DEF WriteUser
    <2>6. callback[c].known => user[a] # NoLogin
      BY <1>u, <2>1 DEF HasUser
    <2> HIDE DEF a
    <2>7. \A b \in Accounts : user[b] # NoLogin => user'[b] # NoLogin
      BY <1>t, <2>1, <2>4
    <2>8. connections[a] = IF user[a] = NoLogin THEN 0 ELSE 1
      BY <2>1 DEF UInv, IdentityIsUnique
    <2>9. connections'[a] = 1
      BY <2>2, <2>5, <2>6, <2>8
    <2>10. \A b \in Accounts : connections'[b] = IF user'[b] = NoLogin THEN 0 ELSE 1
      BY <1>t, <2>1, <2>4, <2>5, <2>9 DEF UInv, IdentityIsUnique
    <2>11. \A n \in DOMAIN sessions : sessions[n].account \in Accounts
      <3>1. \A n \in DOMAIN sessions : sessions[n] \in Session
        BY ElementOfSeq, LenProperties DEF HInv, LoginTypeOK
      <3> QED
        BY <3>1 DEF Session
    <2>12. \A n \in DOMAIN sessions' : user'[sessions'[n].account] # NoLogin
      BY <1>u, <2>1, <2>7, <2>11
    <2>13. \A b, d \in Accounts : b # d /\ user'[b] # NoLogin => user'[b] # user'[d]
      BY <1>t, <2>1, <2>2, <2>4 DEF UInv, IdentityIsUnique
    <2>14. HasUser'
      <3>1. \A d \in Callbacks : callback[d].step \in {"write", "sync", "session"} =>
              callback[d].account \in Accounts
        BY <1>t DEF Paid
      <3>2. ASSUME NEW d \in Callbacks \ {c},
                   \/ callback'[d].step \in {"sync", "session"}
                   \/ callback'[d].step = "write" /\ callback'[d].known
            PROVE  user'[callback'[d].account] # NoLogin
        BY <1>u, <2>3, <2>7, <3>1, <3>2 DEF HasUser
      <3>3. user'[callback'[c].account] # NoLogin
        BY <1>t, <2>1, <2>3, <2>4
      <3> QED
        BY <3>2, <3>3 DEF HasUser
    <2> QED
      BY <2>10, <2>12, <2>13, <2>14 DEF UInv, IdentityIsUnique
  <1>8. ASSUME NEW c \in Callbacks, Synchronise(c) PROVE UInv'
    <2>1. /\ UNCHANGED <<identity, sessions>> /\ callback[c].step = "sync"
          /\ callback'[c].account = callback[c].account
          /\ \A d \in Callbacks \ {c} : callback'[d] = callback[d]
      BY <1>8, <1>t DEF Synchronise, At, Goto, Callback
    <2> QED
      BY <1>c, <1>u, <2>1 DEF HasUser
  <1>9. ASSUME NEW c \in Callbacks, CreateSession(c) PROVE UInv'
    <2> DEFINE m == Len(sessions) + 1
    <2>1. /\ DOMAIN sessions' = DOMAIN sessions \cup {m}
          /\ \A n \in DOMAIN sessions : sessions'[n] = sessions[n]
          /\ sessions'[m] = [account |-> callback[c].account, state |-> callback[c].state,
               expires |-> clock + SessionTTL, revoked |-> FALSE, over |-> FALSE]
      BY <1>9, CreateSessionEffect
    <2> HIDE DEF m
    <2>2. sessions'[m].account = callback[c].account
      BY <2>1
    <2>3. /\ identity' = identity /\ callback[c].step = "session" /\ callback'[c].step = "idle"
          /\ \A d \in Callbacks \ {c} : callback'[d] = callback[d]
      BY <1>9, <1>t, <1>i DEF CreateSession, At, Refuse
    <2>4. HasUser'
      BY <1>u, <2>3 DEF HasUser, identity
    <2>5. \A n \in DOMAIN sessions' : user[sessions'[n].account] # NoLogin
      BY <1>u, <2>1, <2>2, <2>3 DEF HasUser
    <2> QED
      BY <2>3, <2>4, <2>5, KeepsIdentity
  <1>10. ASSUME NEW c \in Callbacks, FailCallback(c) PROVE UInv'
    <2>1. /\ UNCHANGED <<identity, sessions>> /\ callback'[c].step = "idle"
          /\ \A d \in Callbacks \ {c} : callback'[d] = callback[d]
      BY <1>10, <1>t, <1>i DEF FailCallback, Refuse
    <2> QED
      BY <1>c, <2>1
  <1>11. ASSUME NEW q \in Requests, Logout(q) PROVE UInv'
    <2>1. /\ DOMAIN sessions' = DOMAIN sessions
          /\ \A n \in DOMAIN sessions : sessions'[n].account = sessions[n].account
      BY <1>11, LogoutEffect
    <2>2. UNCHANGED <<identity, callback>>
      BY <1>11 DEF Logout
    <2> QED
      BY <1>u, <2>1, <2>2, KeepsIdentity DEF HasUser, identity
  <1>12. \/ UNCHANGED <<identity, sessions, callback>>
         \/ \E c \in Callbacks :
              \/ \E s \in States : ReceiveCallback(c, s)
              \/ CallbackStep(c)
              \/ FailCallback(c)
         \/ \E q \in Requests : Logout(q)
    BY DEF LoginNext, Tick, Rename, CreateState, RequestArrives, CheckToken, Authenticate, loginVars
  <1> QED
    BY <1>1, <1>2, <1>3, <1>4, <1>5, <1>6, <1>7, <1>8, <1>9, <1>10, <1>11, <1>12
    DEF CallbackStep

-----------------------------------------------------------------------------
(* A change is made with a token, for a session that has not ended.        *)

LEMMA InitAInv == LoginInit => AInv
  <1> SUFFICES ASSUME LoginInit PROVE AInv
    OBVIOUS
  <1>1. DOMAIN sessions = {} /\ performed = {}
    BY DEF LoginInit
  <1> QED
    BY <1>1 DEF LoginInit, AInv, EndedStaysEnded, IdleRequest

(* What a request has been told of its session.                            *)
Told(r) ==
    \/ r.step # "idle" /\ r.late
    \/ r.step \in {"authenticate", "logout"} /\ ~r.token
    => ~Active(r.session)

(* A session that has ended does not become active again.                  *)
LEMMA EndedIsEnded ==
    ASSUME LoginAssumption, HInv, [LoginNext]_loginVars, NEW n \in DOMAIN sessions, ~Active(n)
    PROVE  ~Active(n)'
  <1>t. /\ sessions \in Seq(Session) /\ clock \in Nat /\ sessions[n] \in Session
    BY ElementOfSeq, LenProperties DEF HInv, LoginTypeOK
  <1>1. CASE Tick
    BY <1>1, <1>t DEF Tick, Active, Session
  <1>2. ASSUME NEW c \in Callbacks, CreateSession(c) PROVE ~Active(n)'
    <2>1. sessions'[n] = sessions[n]
      BY <1>2, CreateSessionEffect
    <2>2. clock' = clock
      BY <1>2 DEF CreateSession
    <2> QED
      BY <2>1, <2>2 DEF Active
  <1>3. ASSUME NEW q \in Requests, Logout(q) PROVE ~Active(n)'
    <2>1. /\ sessions'[n].expires = sessions[n].expires
          /\ sessions'[n] = sessions[n] \/ sessions'[n].revoked
      BY <1>3, LogoutEffect
    <2>2. clock' = clock
      BY <1>3 DEF Logout
    <2> QED
      BY <2>1, <2>2 DEF Active
  <1>4. CASE UNCHANGED <<sessions, clock>>
    BY <1>4 DEF Active
  <1>5. \/ Tick
        \/ \E c \in Callbacks : CreateSession(c)
        \/ \E q \in Requests : Logout(q)
        \/ UNCHANGED <<sessions, clock>>
    BY DEF LoginNext, CallbackStep, Rename, CreateState, ReceiveCallback, Identify, ConsumeState,
           FindUser, WriteUser, Synchronise, FailCallback, RequestArrives, CheckToken,
           Authenticate, loginVars
  <1> QED
    BY <1>1, <1>2, <1>3, <1>4, <1>5

LEMMA NextEnded ==
    LoginAssumption /\ HInv /\ EndedStaysEnded /\ [LoginNext]_loginVars => EndedStaysEnded'
  <1> SUFFICES ASSUME LoginAssumption, HInv, EndedStaysEnded, [LoginNext]_loginVars
               PROVE  EndedStaysEnded'
    OBVIOUS
  <1>t. /\ request \in [Requests -> Request] /\ sessions \in Seq(Session)
        /\ \A q \in Requests : request[q].step # "idle" => request[q].session \in DOMAIN sessions
        /\ \A n \in DOMAIN sessions : sessions[n] \in Session
        /\ clock \in Nat
    <2>1. \A n \in DOMAIN sessions : sessions[n] \in Session
      BY ElementOfSeq, LenProperties DEF HInv, LoginTypeOK
    <2> QED
      BY <2>1 DEF HInv, LoginTypeOK, HandlersHaveData
  <1>i. IdleRequest.step = "idle"
    BY DEF IdleRequest
  <1>e. /\ \A n \in DOMAIN sessions : sessions[n].over <=> sessions[n].revoked
        /\ \A q \in Requests : Told(request[q])
    BY DEF EndedStaysEnded, Told
  <1>a. \A n \in DOMAIN sessions : ~Active(n) => ~Active(n)'
    BY EndedIsEnded
  <1>1. \A n \in DOMAIN sessions' : sessions'[n].over <=> sessions'[n].revoked
    <2>1. ASSUME NEW c \in Callbacks, CreateSession(c), NEW n \in DOMAIN sessions'
          PROVE  sessions'[n].over <=> sessions'[n].revoked
      <3> DEFINE m == Len(sessions) + 1
      <3>1. /\ DOMAIN sessions' = DOMAIN sessions \cup {m}
            /\ \A k \in DOMAIN sessions : sessions'[k] = sessions[k]
            /\ sessions'[m] = [account |-> callback[c].account, state |-> callback[c].state,
                 expires |-> clock + SessionTTL, revoked |-> FALSE, over |-> FALSE]
        BY <2>1, CreateSessionEffect
      <3> HIDE DEF m
      <3>2. ~sessions'[m].revoked /\ ~sessions'[m].over
        BY <3>1
      <3> QED
        BY <1>e, <2>1, <3>1, <3>2
    <2>2. ASSUME NEW q \in Requests, Logout(q), NEW n \in DOMAIN sessions'
          PROVE  sessions'[n].over <=> sessions'[n].revoked
      <3> DEFINE m == request[q].session
      <3>1. /\ m \in DOMAIN sessions /\ n \in DOMAIN sessions
            /\ n # m => sessions'[n] = sessions[n]
            /\ \/ sessions[m].expires <= clock /\ sessions' = sessions
               \/ sessions'[m].revoked /\ sessions'[m].over = (sessions[m].over \/ request[q].token)
        BY <2>2, LogoutEffect
      <3>2. request[q].step = "logout" /\ request[q] \in Request
        BY <1>t, <2>2 DEF Logout
      <3>3. CASE ~request[q].token
        <4>1. ~Active(m)
          BY <1>e, <3>2, <3>3 DEF Told
        <4>2. sessions[m].revoked \/ sessions[m].expires <= clock
          BY <1>t, <3>1, <4>1 DEF Active, Session
        <4>3. CASE sessions' = sessions
          BY <1>e, <3>1, <4>3
        <4>4. CASE sessions' # sessions
          <5>1. sessions'[m].revoked /\ sessions'[m].over = (sessions[m].over \/ request[q].token)
            BY <3>1, <4>4
          <5>2. sessions[m].expires > clock
            BY <2>2, <4>4 DEF Logout
          <5>3. sessions[m].revoked
            BY <1>t, <3>1, <4>2, <5>2 DEF Session
          <5>4. sessions[m].over
            BY <1>e, <3>1, <5>3
          <5> QED
            BY <1>e, <3>1, <5>1, <5>4
        <4> QED
          BY <4>3, <4>4
      <3>4. CASE request[q].token
        BY <1>e, <3>1, <3>4
      <3> QED
        BY <3>3, <3>4
    <2>3. CASE UNCHANGED sessions
      BY <1>e, <2>3
    <2>4. \/ UNCHANGED sessions
          \/ \E c \in Callbacks : CreateSession(c)
          \/ \E q \in Requests : Logout(q)
      BY DEF LoginNext, CallbackStep, Tick, Rename, CreateState, ReceiveCallback, Identify,
             ConsumeState, FindUser, WriteUser, Synchronise, FailCallback, RequestArrives,
             CheckToken, Authenticate, loginVars
    <2> QED
      BY <2>1, <2>2, <2>3, <2>4
  (* What a request has been told stays true.                              *)
  <1>2. ASSUME NEW q \in Requests, request'[q] = request[q] PROVE Told(request[q])'
    BY <1>2, <1>a, <1>e, <1>t DEF Told
  <1>3. ASSUME NEW q \in Requests, request'[q] = IdleRequest PROVE Told(request[q])'
    BY <1>3, <1>i DEF Told
  <1>4. ASSUME NEW q \in Requests, NEW n \in DOMAIN sessions, NEW kind \in {"change", "logout"},
               NEW token \in BOOLEAN, RequestArrives(q, n, kind, token), NEW p \in Requests
        PROVE  Told(request[p])'
    <2>1. CASE p = q
      <3>1. /\ request'[q].step = "csrf" /\ request'[q].session = n
            /\ request'[q].late = (sessions[n].over \/ sessions[n].expires <= clock)
        BY <1>4, <1>t DEF RequestArrives
      <3>2. UNCHANGED <<clock, sessions>>
        BY <1>4 DEF RequestArrives
      <3>3. sessions[n].over \/ sessions[n].expires <= clock => ~Active(n)
        BY <1>e, <1>t DEF Active, Session
      <3> QED
        BY <2>1, <3>1, <3>2, <3>3 DEF Told, Active
    <2>2. CASE p # q
      <3>1. request'[p] = request[p]
        BY <1>4, <1>t, <2>2 DEF RequestArrives
      <3> QED
        BY <1>2, <3>1
    <2> QED
      BY <2>1, <2>2
  <1>5. ASSUME NEW q \in Requests, CheckToken(q), NEW p \in Requests PROVE Told(request[p])'
    <2>1. CASE p = q /\ ~RefusesToken(q)
      <3>1. /\ request[q].step = "csrf"
            /\ request'[q].step \in {"authenticate", "logout"}
            /\ request'[q].session = request[q].session /\ request'[q].token = request[q].token
            /\ request'[q].late = request[q].late
        BY <1>5, <1>t, <2>1 DEF CheckToken, Request
      <3>2. UNCHANGED <<clock, sessions>>
        BY <1>5 DEF CheckToken
      <3>3. request[q].late \/ ~request[q].token => ~Active(request[q].session)
        BY <1>e, <2>1, <3>1 DEF Told, RefusesToken
      <3> QED
        BY <2>1, <3>1, <3>2, <3>3 DEF Told, Active
    <2>2. CASE p = q /\ RefusesToken(q)
      <3>1. request'[p] = IdleRequest
        BY <1>5, <1>t, <2>2 DEF CheckToken
      <3> QED
        BY <1>3, <3>1
    <2>3. CASE p # q
      <3>1. request'[p] = request[p]
        BY <1>5, <1>t, <2>3 DEF CheckToken
      <3> QED
        BY <1>2, <3>1
    <2> QED
      BY <2>1, <2>2, <2>3
  <1>6. ASSUME NEW q \in Requests, Authenticate(q) \/ Logout(q), NEW p \in Requests
        PROVE  Told(request[p])'
    <2>1. request'[p] \in {request[p], IdleRequest}
      BY <1>6, <1>t DEF Authenticate, Logout
    <2> QED
      BY <1>2, <1>3, <2>1
  <1>7. ASSUME UNCHANGED request, NEW q \in Requests PROVE Told(request[q])'
    BY <1>2, <1>7
  <1>8. \/ UNCHANGED request
        \/ \E q \in Requests :
             \/ \E n \in DOMAIN sessions, kind \in {"change", "logout"}, token \in BOOLEAN :
                  RequestArrives(q, n, kind, token)
             \/ CheckToken(q)
             \/ Authenticate(q)
             \/ Logout(q)
    BY DEF LoginNext, CallbackStep, Tick, Rename, CreateState, ReceiveCallback, Identify,
           ConsumeState, FindUser, WriteUser, Synchronise, CreateSession, FailCallback, loginVars
  <1>9. \A q \in Requests : Told(request[q])'
    BY <1>2, <1>4, <1>5, <1>6, <1>7, <1>8
  <1> QED
    BY <1>1, <1>9 DEF EndedStaysEnded, Told

(* A request is let through for an active session only, so for one that    *)
(* was active at both looks.                                               *)
LEMMA NextAInv == LoginAssumption /\ HInv /\ AInv /\ [LoginNext]_loginVars => AInv'
  <1> SUFFICES ASSUME LoginAssumption, HInv, AInv, [LoginNext]_loginVars PROVE AInv'
    OBVIOUS
  <1>1. EndedStaysEnded'
    BY NextEnded DEF AInv
  <1>2. ASSUME NEW q \in Requests, Authenticate(q) PROVE \A r \in performed' : r.token /\ ~r.late
    <2>1. request[q].step = "authenticate"
      BY <1>2 DEF Authenticate
    <2>2. Active(request[q].session) => request[q].token /\ ~request[q].late
      BY <2>1 DEF AInv, EndedStaysEnded
    <2> QED
      BY <1>2, <2>2 DEF Authenticate, AInv
  <1>3. performed' = performed \/ \E q \in Requests : Authenticate(q)
    BY DEF LoginNext, CallbackStep, Tick, Rename, CreateState, ReceiveCallback, Identify,
           ConsumeState, FindUser, WriteUser, Synchronise, CreateSession, FailCallback,
           RequestArrives, CheckToken, Logout, loginVars
  <1>4. \A r \in performed' : r.token /\ ~r.late
    BY <1>2, <1>3 DEF AInv
  <1> QED
    BY <1>1, <1>4 DEF AInv

-----------------------------------------------------------------------------
LEMMA LInvInductive ==
    ASSUME LoginAssumption PROVE (LoginInit => LInv) /\ (LInv /\ [LoginNext]_loginVars => LInv')
  BY InitHInv, NextHInv, InitOInv, NextOInv, InitUInv, NextUInv, InitAInv, NextAInv DEF LInv

(* Logins and sessions are sound and typed, however many callbacks,        *)
(* requests and renames meet and wherever a callback fails: an OAuth state *)
(* admits one login, an account has one user with one connection and a     *)
(* login one user, and a change is made with the session's CSRF token, for *)
(* a session that had not ended when the request arrived.                  *)
THEOREM LoginsSound == ASSUME LoginAssumption PROVE LoginSpec => []LoginsAreSound
  <1>1. LoginInit => LInv
    BY LInvInductive
  <1>2. LInv /\ [LoginNext]_loginVars => LInv'
    BY LInvInductive
  <1>3. LInv => LoginsAreSound
    BY OInvImplies
    DEF LInv, HInv, UInv, AInv, EndedStaysEnded, LoginsAreSound, ChangesAreAuthorised
  <1> QED
    BY <1>1, <1>2, <1>3, PTL DEF LoginSpec
=============================================================================
