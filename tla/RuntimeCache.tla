----------------------------- MODULE RuntimeCache -----------------------------
(***************************************************************************)
(* The runtime cache between the read endpoints and the database: a read   *)
(* looks its key up and on a miss computes the payload and then stores it  *)
(* with tags and a time to live; a change commits its rows and then        *)
(* expires tags.  One repository and one user; each key has what its       *)
(* payload is computed from.  An entry is only known by whether its        *)
(* payload is outdated, and whether there is an excuse for it.             *)
(***************************************************************************)
EXTENDS FiniteSets, Functions

CONSTANTS Requests, \* what the API's and the worker's processes are doing
          Keys,     \* the keys in use, of AllKeys
          Nothing

AllKeys == {"repositories", "repository", "pull-requests", "analysis-runs",
            "dashboard-summary", "quality-gate-config", "coverage-config"}
ASSUME CacheAssumption == Keys \subseteq AllKeys

(* What the payload of a key is computed from.                             *)
Depends(key) ==
    CASE key = "repositories" -> {"access", "repository"}
      [] key = "repository" -> {"repository"}
      [] key = "pull-requests" -> {"runs", "pulls"}
      [] key = "analysis-runs" -> {"runs"}
      [] key = "dashboard-summary" -> {"runs", "access", "repository", "gate", "pulls"}
      [] key = "quality-gate-config" -> {"gate"}
      [] key = "coverage-config" -> {"coverage"}

(* Each key's own tag; a list of the user's also has the user's, which     *)
(* nothing expires.                                                        *)
Tags(key) == {key} \cup (IF key \in {"repositories", "dashboard-summary"} THEN {"user"} ELSE {})

(* A change of the rows and the tags it expires.                           *)
Change(rows, tags) == [rows |-> rows, tags |-> tags]
RunTags == {"analysis-runs", "pull-requests", "dashboard-summary"}
NewRun == Change({"runs"}, RunTags)               \* by hand or by a webhook
FinishedRun == Change({"runs"}, RunTags)
(* Mutant of Synced: the dashboard is forgotten.                           *)
SyncedForgettingDashboard == Change({"access", "repository"}, {"repositories"})
Synced == Change({"access", "repository"}, {"repositories", "dashboard-summary"})
GateConfig == Change({"gate"}, {"quality-gate-config"})
CoverageUpdate == Change({"coverage"}, {"coverage-config"})
Changes == {NewRun, FinishedRun, Synced, GateConfig, CoverageUpdate}

(* Changes that expire nothing: a run that starts, a run that a webhook    *)
(* creates in error, pull requests on GitHub.                              *)
QuietChanges == {Change({"runs"}, {}), Change({"pulls"}, {})}

(* The keys that a change outdates and whose tags it does not expire: the  *)
(* dashboard, which shows whether a gate publishes, and the page of a      *)
(* repository, whose tag nothing expires.                                  *)
Forgotten == {<<GateConfig, "dashboard-summary">>, <<Synced, "repository">>}

VARIABLES entry,   \* by key: nothing, or the flags of the stored payload
          request

payloadVars == <<entry, request>>

Fresh == [outdated |-> FALSE, excused |-> FALSE]
Entry == [outdated : BOOLEAN, excused : BOOLEAN]
NoRequest == [phase |-> "idle"]
Computing(key, payload) == [phase |-> "computing", key |-> key, payload |-> payload]
Expiring(tags, next) == [phase |-> "expiring", tags |-> tags, next |-> next]

CacheTypeOK ==
    /\ \A k \in Keys : entry[k] = Nothing \/ entry[k] \in Entry
    /\ \A r \in Requests :
          \/ request[r] = NoRequest
          \/ /\ request[r].phase = "computing"
             /\ request[r].key \in Keys /\ request[r].payload \in Entry
          \/ /\ request[r].phase = "expiring"
             /\ request[r].tags \subseteq AllKeys /\ request[r].next \in Keys \cup {Nothing}

CacheInit ==
    /\ entry = [k \in Keys |-> Nothing]
    /\ request = [r \in Requests |-> NoRequest]

(* What a change does to the payloads that exist, stored or not.           *)
Outdate(payload, key, change) ==
    IF Depends(key) \cap change.rows = {} THEN payload
    ELSE [outdated |-> TRUE,
          excused |-> payload.excused \/ change.tags = {} \/ <<change, key>> \in Forgotten]
OutdatedEntries(change) ==
    [k \in Keys |-> IF entry[k] = Nothing THEN Nothing ELSE Outdate(entry[k], k, change)]
OutdatedRequests(change) ==
    [r \in Requests |->
        IF request[r].phase = "computing"
        THEN [request[r] EXCEPT !.payload = Outdate(@, request[r].key, change)]
        ELSE request[r]]

-----------------------------------------------------------------------------
(* A read that misses; one that hits changes nothing.  The list of the     *)
(* user's repositories synchronises before it computes.                    *)
Miss(r, key) ==
    /\ request[r] = NoRequest /\ entry[key] = Nothing
    /\ IF key = "repositories"
       THEN /\ entry' = OutdatedEntries(Synced)
            /\ request' = [OutdatedRequests(Synced) EXCEPT
                              ![r] = Expiring(Synced.tags, key)]
       ELSE /\ request' = [request EXCEPT ![r] = Computing(key, Fresh)]
            /\ UNCHANGED entry

(* Storing may fail, silently.                                             *)
StorePayload(r) ==
    /\ request[r].phase = "computing"
    /\ entry' \in {entry, [entry EXCEPT ![request[r].key] = request[r].payload]}
    /\ request' = [request EXCEPT ![r] = NoRequest]

CommitChange(r, change) ==
    /\ request[r] = NoRequest
    /\ entry' = OutdatedEntries(change)
    /\ request' = [OutdatedRequests(change) EXCEPT
                      ![r] = Expiring(change.tags, Nothing)]

CommitQuietly(change) ==
    /\ entry' = OutdatedEntries(change)
    /\ request' = OutdatedRequests(change)

(* The execute endpoint expires tags and has changed nothing itself.       *)
Execute(r) ==
    /\ request[r] = NoRequest
    /\ request' = [request EXCEPT ![r] = Expiring(RunTags, Nothing)]
    /\ UNCHANGED entry

(* Mutant of Continue: every expiry is followed by a computation.          *)
ContinueAlways(r) == Computing(request[r].next, Fresh)
Continue(r) == IF request[r].next = Nothing THEN NoRequest ELSE Computing(request[r].next, Fresh)
Touched(r, key) == Tags(key) \cap request[r].tags # {}

(* A payload that is being computed when its tags expire escapes, and so   *)
(* has an excuse.                                                          *)
Excused(r) ==
    [q \in Requests |->
        IF request[q].phase = "computing" /\ Touched(r, request[q].key)
        THEN [request[q] EXCEPT !.payload.excused = TRUE] ELSE request[q]]

ExpireTags(r) ==
    /\ request[r].phase = "expiring"
    /\ entry' = [k \in Keys |-> IF Touched(r, k) THEN Nothing ELSE entry[k]]
    /\ request' = [Excused(r) EXCEPT ![r] = Continue(r)]

(* The cache refuses, which is swallowed, or the process ends before it.   *)
ExpireFails(r) ==
    /\ request[r].phase = "expiring"
    /\ entry' = [k \in Keys |-> IF entry[k] # Nothing /\ Touched(r, k)
                                THEN [entry[k] EXCEPT !.excused = TRUE] ELSE entry[k]]
    /\ request' = [Excused(r) EXCEPT ![r] = Continue(r)]

(* Entries have a time to live.                                            *)
Lapse(k) ==
    /\ entry[k] # Nothing
    /\ entry' = [entry EXCEPT ![k] = Nothing]
    /\ UNCHANGED request

Step(r) ==
    \/ \E k \in Keys : Miss(r, k)
    \/ \E c \in Changes : CommitChange(r, c)
    \/ Execute(r) \/ StorePayload(r) \/ ExpireTags(r) \/ ExpireFails(r)

CacheNext ==
    \/ \E r \in Requests : Step(r)
    \/ \E c \in QuietChanges : CommitQuietly(c)
    \/ \E k \in Keys : Lapse(k)

CacheSpec == CacheInit /\ [][CacheNext]_payloadVars

-----------------------------------------------------------------------------
(* Properties                                                              *)

(* A payload of a key, stored or about to be, is outdated only while the   *)
(* change that outdated it has yet to expire its tags, unless it was being *)
(* computed when they were expired, the expiry failed, or the change is    *)
(* one of those that expire nothing.  The dashboard after a change of the  *)
(* gate configuration and the page of a repository are Forgotten; no       *)
(* change forgets any other key that shows its rows.                       *)
IsExplained(key, payload) ==
    payload.outdated /\ ~payload.excused
    => \E r \in Requests : request[r].phase = "expiring" /\ Touched(r, key)
OutdatedIsExplained ==
    /\ \A k \in Keys : entry[k] # Nothing => IsExplained(k, entry[k])
    /\ \A r \in Requests :
         request[r].phase = "computing" => IsExplained(request[r].key, request[r].payload)

(* The payload cache is sound: well typed, with every outdated payload     *)
(* explained.                                                              *)
PayloadsAreSound == CacheTypeOK /\ OutdatedIsExplained
=============================================================================
