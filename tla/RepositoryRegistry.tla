-------------------------- MODULE RepositoryRegistry --------------------------
(***************************************************************************)
(* The rows of repositories, which stand for GitHub repositories by id and *)
(* by full name, while names change hands on GitHub.  One installation.    *)
(* A payload lists repositories as GitHub had them when it was made; its   *)
(* transaction takes them one at a time and is committed, or lost when a   *)
(* unique constraint fails.  Pull request webhooks find the row by name.   *)
(***************************************************************************)
EXTENDS Naturals, FiniteSets

CONSTANTS
    Repos,  \* GitHub's ids
    Names,
    Rows,   \* keys of repositories
    None

ASSUME RegistryAssumption ==
    /\ None \notin Repos \cup Names
    /\ IsFiniteSet(Repos) /\ IsFiniteSet(Rows) /\ Cardinality(Repos) <= Cardinality(Rows)

VARIABLES
    name,  \* on GitHub: what the installation sees, None for nothing
    past,  \* history: the names each repository has had
    rows,  \* the table repositories
    links, \* installation_repositories: the id of each row's link
    sync,  \* the payload that is applied
    event, \* a pull request webhook under way
    runs   \* the rows of analysis runs, with the repository that was meant

github == <<name, past>>
vars == <<github, rows, links, sync, event, runs>>

Item == [repo : Repos, name : Names]
NoRow == [repo |-> None, name |-> None]
Idle == [phase |-> "idle"]

(* No two rows agree in a unique column.                                   *)
IsUnique(table) ==
    \A w, v \in Rows : w # v /\ table[w] # NoRow /\ table[v] # NoRow =>
        table[w].repo # table[v].repo /\ table[w].name # table[v].name

TypeOK ==
    /\ name \in [Repos -> Names \cup {None}] /\ past \in [Repos -> SUBSET Names]
    /\ \A r \in Repos : name[r] # None => name[r] \in past[r]
    /\ rows \in [Rows -> Item \cup {NoRow}] /\ IsUnique(rows)
    /\ links \in [Rows -> Repos \cup {None}]
    /\ \A w \in Rows : links[w] # None => rows[w] # NoRow
    /\ \/ sync = Idle
       \/ /\ sync.phase = "applying" /\ sync.replace \in BOOLEAN
          /\ sync.left \subseteq sync.payload /\ sync.payload \subseteq Item
          /\ sync.rows \in [Rows -> Item \cup {NoRow}] /\ IsUnique(sync.rows)
          /\ sync.links \in [Rows -> Repos \cup {None}]
    /\ event \in Item \cup {NoRow}
    /\ runs \subseteq [row : Rows, repo : Repos]
    /\ \A run \in runs : rows[run.row] # NoRow

Init ==
    /\ name = [r \in Repos |-> None] /\ past = [r \in Repos |-> {}]
    /\ rows = [w \in Rows |-> NoRow] /\ links = [w \in Rows |-> None]
    /\ sync = Idle /\ event = NoRow /\ runs = {}

-----------------------------------------------------------------------------
(* GitHub: a repository is created, granted or renamed; deleted or revoked. *)

Take(r, n) ==
    /\ \A q \in Repos : name[q] # n
    /\ name' = [name EXCEPT ![r] = n] /\ past' = [past EXCEPT ![r] = @ \cup {n}]
    /\ UNCHANGED <<rows, links, sync, event, runs>>

Leave(r) ==
    /\ name[r] # None
    /\ name' = [name EXCEPT ![r] = None]
    /\ UNCHANGED <<past, rows, links, sync, event, runs>>

Seen == {[repo |-> r, name |-> name[r]] : r \in {q \in Repos : name[q] # None}}

-----------------------------------------------------------------------------
(* A payload arrives: of everything, which replaces, or of a few that were *)
(* added.                                                                  *)
Receive(payload, replace) ==
    /\ sync = Idle
    /\ payload \subseteq Seen /\ (replace => payload = Seen)
    /\ sync' = [phase |-> "applying", payload |-> payload, left |-> payload,
                replace |-> replace, rows |-> rows, links |-> links]
    /\ UNCHANGED <<github, rows, links, event, runs>>

(* Mutant of Matches: only the name counts.                                *)
MatchesByName(table, item) == {w \in Rows : table[w].name = item.name}
(* _upsert_repository takes any row that has the id or the name.           *)
Matches(table, item) == {w \in Rows : table[w].repo = item.repo \/ table[w].name = item.name}

(* Mutant of Free: a row whose repository was removed is used again.       *)
FreeUnlinked(table) == {w \in Rows : sync.links[w] = None}
Free(table) == {w \in Rows : table[w] = NoRow}

Candidates(table, item) == IF Matches(table, item) = {} THEN Free(table) ELSE Matches(table, item)

(* Mutant of Fits: the columns are not unique.                             *)
FitsAnyhow(table, w, item) == TRUE
Fits(table, w, item) == IsUnique([table EXCEPT ![w] = item])

(* Mutant of LinkedTo: a link that is there keeps its id.                  *)
LinkedOnce(w, item) == IF sync.links[w] = None THEN item.repo ELSE sync.links[w]
LinkedTo(w, item) == item.repo

Assign(w, item) ==
    sync' = [sync EXCEPT !.rows[w] = item, !.links[w] = LinkedTo(w, item), !.left = @ \ {item}]

(* One round of sync_installation_payload's loop.                          *)
Upsert(item) ==
    /\ sync # Idle /\ item \in sync.left
    /\ \E w \in Candidates(sync.rows, item) :
          IF Fits(sync.rows, w, item) THEN Assign(w, item) ELSE sync' = Idle
    /\ UNCHANGED <<github, rows, links, event, runs>>

(* _remove_missing_installation_repositories, and the commit.              *)
Commit ==
    /\ sync # Idle /\ sync.left = {}
    /\ rows' = sync.rows
    /\ LET ids == {item.repo : item \in sync.payload}
       IN links' = [w \in Rows |-> IF sync.replace /\ sync.links[w] \notin ids
                                   THEN None ELSE sync.links[w]]
    /\ sync' = Idle
    /\ UNCHANGED <<github, event, runs>>

-----------------------------------------------------------------------------
PullRequestEvent(r) ==
    /\ event = NoRow /\ name[r] # None
    /\ event' = [repo |-> r, name |-> name[r]]
    /\ UNCHANGED <<github, rows, links, sync, runs>>

(* process_github_webhook; a name without a row is ignored, and a row      *)
(* without a link gives a run in error.                                    *)
HandleEvent ==
    /\ event # NoRow
    /\ runs' = runs \cup {[row |-> w, repo |-> event.repo] :
                             w \in {v \in Rows : rows[v].name = event.name}}
    /\ event' = NoRow
    /\ UNCHANGED <<github, rows, links, sync>>

Next ==
    \/ \E r \in Repos : Leave(r) \/ PullRequestEvent(r) \/ \E n \in Names : Take(r, n)
    \/ \E payload \in SUBSET Seen, replace \in BOOLEAN : Receive(payload, replace)
    \/ \E item \in Item : Upsert(item)
    \/ Commit \/ HandleEvent

Spec == Init /\ [][Next]_vars

-----------------------------------------------------------------------------
(* Properties                                                              *)

(* A payload that is committed is stored whole, whatever rows its items    *)
(* met: each repository has a row of its id and name, which is linked, and *)
(* when the payload replaces nothing else is.                              *)
CommittedPayloadIsStored ==
    [][Commit =>
         /\ \A item \in sync.payload :
               \E w \in Rows : rows'[w] = item /\ links'[w] = item.repo
         /\ sync.replace =>
               \A w \in Rows : links'[w] # None => rows'[w] \in sync.payload
      ]_vars

NamesChangedHands == \E r, q \in Repos : r # q /\ past[r] \cap past[q] # {}

(* While no name has been two repositories': payloads that are late and    *)
(* renames between them leave each row with its repository, and the runs   *)
(* of a row are of that repository.                                        *)
RunsStayUnlessNamesMove ==
    ~NamesChangedHands => \A run \in runs : rows[run.row].repo = run.repo

(* Nor is such a payload refused by a constraint.                          *)
PayloadsAreTakenUnlessNamesMove ==
    [][~NamesChangedHands /\ sync # Idle /\ sync' = Idle => Commit]_vars

(* Rows follow their repositories: a payload that commits is stored whole, *)
(* and as long as no name has been two repositories', runs stay with the   *)
(* repository they were made for and no payload is refused by a constraint.*)
RowsFollowRepositories ==
    []RunsStayUnlessNamesMove /\ CommittedPayloadIsStored /\ PayloadsAreTakenUnlessNamesMove
=============================================================================
