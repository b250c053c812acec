--------------------------- MODULE LocalCopies_proofs ---------------------------
(***************************************************************************)
(* Theorems about what the program keeps of what is elsewhere: the rows of *)
(* repositories, for any number of repositories, names and rows; the       *)
(* tokens of installations, for any number of threads that share them: a   *)
(* margin that covers a request and the clocks' difference is enough; and  *)
(* the payloads of the read endpoints, for any number of processes: no     *)
(* change of the rows forgets a payload that shows them.                   *)
(***************************************************************************)
EXTENDS RepositoryRegistry, InstallationToken, RuntimeCache, TLAPS

-----------------------------------------------------------------------------
(* REPOSITORIES.                                                           *)

Table == [Rows -> Item \cup {NoRow}]
LinkTable == [Rows -> Repos \cup {None}]
Payload == [phase : {"applying"}, payload : SUBSET Item, left : SUBSET Item,
            replace : BOOLEAN, rows : Table, links : LinkTable]

(* A link carries the id of its row.                                       *)
LinksAgree(table, links_) == \A w \in Rows : links_[w] # None =>
    table[w] # NoRow /\ table[w].repo = links_[w]

(* No two items of a payload agree in the id or the name.                  *)
IsFunctional(payload) == \A i, j \in payload : i.repo = j.repo \/ i.name = j.name => i = j

(* A transaction has stored what it has taken, and gives up no row.        *)
Applied ==
    /\ \A item \in sync.payload \ sync.left :
         \E w \in Rows : sync.rows[w] = item /\ sync.links[w] = item.repo
    /\ \A w \in Rows : rows[w] # NoRow => sync.rows[w] # NoRow

Typed ==
    /\ name \in [Repos -> Names \cup {None}] /\ past \in [Repos -> SUBSET Names]
    /\ rows \in Table /\ links \in LinkTable
    /\ sync = Idle \/ sync \in Payload
    /\ event \in Item \cup {NoRow}
    /\ runs \subseteq [row : Rows, repo : Repos]

TablesAgree ==
    /\ \A r, q \in Repos : name[r] = name[q] /\ name[r] # None => r = q
    /\ IsUnique(rows) /\ LinksAgree(rows, links)
    /\ \A run \in runs : rows[run.row] # NoRow
    /\ sync # Idle => /\ sync.left \subseteq sync.payload /\ IsFunctional(sync.payload)
                      /\ IsUnique(sync.rows) /\ LinksAgree(sync.rows, sync.links)
                      /\ Applied

TInv == Typed /\ TablesAgree

-----------------------------------------------------------------------------
(* While no name changes hands: whatever carries a name carries one that   *)
(* its repository has had, and rows are kept for their repositories.       *)
HasHad(item) == item # NoRow => item.name \in past[item.repo]

NamesAreHad ==
    /\ \A r \in Repos : name[r] # None => name[r] \in past[r]
    /\ \A w \in Rows : HasHad(rows[w])
    /\ HasHad(event)
    /\ sync # Idle => /\ \A item \in sync.payload : HasHad(item)
                      /\ \A w \in Rows : HasHad(sync.rows[w])
RowsAreKept ==
    ~NamesChangedHands =>
        /\ \A run \in runs : rows[run.row].repo = run.repo
        /\ sync # Idle => \A w \in Rows : rows[w] # NoRow => sync.rows[w].repo = rows[w].repo

NInv == NamesAreHad /\ RowsAreKept

-----------------------------------------------------------------------------
(* What the operators of the model do                                      *)

LEMMA NoRowIsNoItem == NoRow \notin Item /\ Idle \notin Payload
  BY RegistryAssumption DEF NoRow, Item, Idle, Payload

(* What GitHub shows does not name a repository twice.                     *)
LEMMA SeenIsFunctional ==
    ASSUME name \in [Repos -> Names \cup {None}],
           \A r, q \in Repos : name[r] = name[q] /\ name[r] # None => r = q
    PROVE  /\ Seen \subseteq Item /\ IsFunctional(Seen)
           /\ \A item \in Seen : name[item.repo] = item.name /\ item.name # None
  <1>1. \A item \in Seen : \E r \in Repos : /\ name[r] # None /\ name[r] \in Names
                                            /\ item = [repo |-> r, name |-> name[r]]
    BY DEF Seen
  <1>2. Seen \subseteq Item
    BY <1>1 DEF Item
  <1>3. \A item \in Seen : name[item.repo] = item.name /\ item.name # None
    BY <1>1
  <1>4. IsFunctional(Seen)
    BY <1>1 DEF IsFunctional
  <1> QED
    BY <1>2, <1>3, <1>4

(* An item goes to a row that has its id or its name, or to one that is    *)
(* free.                                                                   *)
LEMMA CandidateKinds ==
    ASSUME NEW table \in Table, NEW item \in Item, NEW w \in Candidates(table, item)
    PROVE  /\ w \in Rows
           /\ \/ table[w] # NoRow /\ (table[w].repo = item.repo \/ table[w].name = item.name)
              \/ table[w] = NoRow /\ Matches(table, item) = {}
  <1>1. ASSUME table[w] = NoRow PROVE w \notin Matches(table, item)
    BY <1>1, RegistryAssumption DEF Matches, NoRow, Item
  <1> QED
    BY <1>1 DEF Candidates, Matches, Free

(* Once a row was found that fits, it is the row of the item.              *)
LEMMA AssignEffect ==
    ASSUME sync \in Payload, NEW item \in Item, NEW w \in Rows, Assign(w, item)
    PROVE  /\ sync' \in Payload /\ sync' # Idle
           /\ sync'.payload = sync.payload /\ sync'.replace = sync.replace
           /\ sync'.left = sync.left \ {item}
           /\ sync'.rows = [sync.rows EXCEPT ![w] = item]
           /\ sync'.links = [sync.links EXCEPT ![w] = item.repo]
  <1>1. sync' = [sync EXCEPT !.rows = [sync.rows EXCEPT ![w] = item],
                             !.links = [sync.links EXCEPT ![w] = item.repo],
                             !.left = sync.left \ {item}]
    BY DEF Assign, LinkedTo
  <1>2. /\ [sync.rows EXCEPT ![w] = item] \in Table
        /\ [sync.links EXCEPT ![w] = item.repo] \in LinkTable
        /\ sync.left \ {item} \subseteq Item
    BY DEF Payload, Table, LinkTable, Item
  <1> QED
    BY <1>1, <1>2, NoRowIsNoItem DEF Payload

-----------------------------------------------------------------------------
(* Spec => []TypeOK                                                        *)

LEMMA InitTInv == Init => TInv
  <1> SUFFICES ASSUME Init PROVE TInv
    OBVIOUS
  <1>1. Typed
    BY DEF Init, Typed, Table, LinkTable
  <1>2. /\ \A r \in Repos : name[r] = None
        /\ \A w \in Rows : rows[w] = NoRow /\ links[w] = None
        /\ runs = {} /\ sync = Idle
    BY DEF Init
  <1> QED
    BY <1>1, <1>2 DEF TInv, TablesAgree, IsUnique, LinksAgree

LEMMA AssignTables ==
    ASSUME TInv, sync # Idle, NEW item \in sync.left, NEW w \in Candidates(sync.rows, item),
           Fits(sync.rows, w, item), Assign(w, item)
    PROVE  /\ sync'.left \subseteq sync'.payload /\ IsFunctional(sync'.payload)
           /\ IsUnique(sync'.rows) /\ LinksAgree(sync'.rows, sync'.links)
           /\ \A i \in sync'.payload \ sync'.left :
                \E v \in Rows : sync'.rows[v] = i /\ sync'.links[v] = i.repo
           /\ \A v \in Rows : rows[v] # NoRow => sync'.rows[v] # NoRow
  <1>t. /\ sync \in Payload /\ sync.left \subseteq sync.payload /\ IsFunctional(sync.payload)
        /\ sync.rows \in Table /\ sync.links \in LinkTable /\ item \in Item
        /\ LinksAgree(sync.rows, sync.links) /\ Applied
    BY DEF TInv, Typed, TablesAgree, Payload
  <1>w. /\ w \in Rows
        /\ \/ /\ sync.rows[w] # NoRow
              /\ sync.rows[w].repo = item.repo \/ sync.rows[w].name = item.name
           \/ sync.rows[w] = NoRow
    BY <1>t, CandidateKinds
  <1>s. /\ sync'.payload = sync.payload /\ sync'.left = sync.left \ {item}
        /\ sync'.rows = [sync.rows EXCEPT ![w] = item]
        /\ sync'.links = [sync.links EXCEPT ![w] = item.repo]
    BY <1>t, <1>w, AssignEffect
  <1>r. /\ sync'.rows[w] = item /\ sync'.links[w] = item.repo
        /\ \A v \in Rows : v # w => sync'.rows[v] = sync.rows[v] /\ sync'.links[v] = sync.links[v]
    BY <1>s, <1>t, <1>w DEF Table, LinkTable
  <1>n. NoRow \notin Item
    BY NoRowIsNoItem
  <1>1. IsUnique(sync'.rows)
    BY <1>s DEF Fits
  <1>2. LinksAgree(sync'.rows, sync'.links)
    BY <1>n, <1>r, <1>t DEF LinksAgree
  <1>3. ASSUME NEW i \in sync.payload, i \notin sync.left \ {item}
        PROVE  \E v \in Rows : sync'.rows[v] = i /\ sync'.links[v] = i.repo
    <2>1. CASE i = item
      BY <1>r, <1>w, <2>1
    <2>2. CASE i # item
      <3>1. PICK v \in Rows : sync.rows[v] = i /\ sync.links[v] = i.repo
        BY <1>3, <1>t, <2>2 DEF Applied
      <3>2. i \in Item /\ i.repo # item.repo /\ i.name # item.name
        BY <1>t, <2>2 DEF IsFunctional, Payload
      <3>3. v # w
        BY <1>n, <1>w, <3>1, <3>2
      <3> QED
        BY <1>r, <3>1, <3>3
    <2> QED
      BY <2>1, <2>2
  <1>4. ASSUME NEW v \in Rows, rows[v] # NoRow PROVE sync'.rows[v] # NoRow
    BY <1>4, <1>n, <1>r, <1>t DEF Applied
  <1> QED
    BY <1>1, <1>2, <1>3, <1>4, <1>s, <1>t

LEMMA NextTInv == TInv /\ [Next]_vars => TInv'
  <1> SUFFICES ASSUME TInv, [Next]_vars PROVE TInv'
    OBVIOUS
  <1>t. /\ Typed /\ TablesAgree
        /\ name \in [Repos -> Names \cup {None}] /\ past \in [Repos -> SUBSET Names]
        /\ rows \in Table /\ links \in LinkTable
        /\ sync # Idle => sync \in Payload
        /\ event \in Item \cup {NoRow}
    BY DEF TInv, Typed
  <1>n. NoRow \notin Item /\ Idle \notin Payload
    BY NoRowIsNoItem
  <1>1. ASSUME NEW r \in Repos, NEW n \in Names, Take(r, n) PROVE TInv'
    <2>1. /\ name' = [name EXCEPT ![r] = n] /\ past' = [past EXCEPT ![r] = past[r] \cup {n}]
          /\ \A q \in Repos : name[q] # n
          /\ UNCHANGED <<rows, links, sync, event, runs>>
      BY <1>1 DEF Take
    <2>2. Typed'
      BY <1>t, <2>1 DEF Typed
    <2>3. TablesAgree'
      BY <1>t, <2>1 DEF TablesAgree, Applied
    <2> QED
      BY <2>2, <2>3 DEF TInv
  <1>2. ASSUME NEW r \in Repos, Leave(r) PROVE TInv'
    <2>1. name' = [name EXCEPT ![r] = None] /\ UNCHANGED <<past, rows, links, sync, event, runs>>
      BY <1>2 DEF Leave
    <2>2. Typed'
      BY <1>t, <2>1 DEF Typed
    <2>3. TablesAgree'
      BY <1>t, <2>1 DEF TablesAgree, Applied
    <2> QED
      BY <2>2, <2>3 DEF TInv
  <1>3. ASSUME NEW r \in Repos, PullRequestEvent(r) PROVE TInv'
    <2>1. /\ event' = [repo |-> r, name |-> name[r]] /\ name[r] \in Names
          /\ UNCHANGED <<name, past, rows, links, sync, runs>>
      BY <1>3, <1>t DEF PullRequestEvent, github
    <2>2. event' \in Item
      BY <2>1 DEF Item
    <2>3. Typed'
      BY <1>t, <2>1, <2>2 DEF Typed
    <2>4. TablesAgree'
      BY <1>t, <2>1 DEF TablesAgree, Applied
    <2> QED
      BY <2>3, <2>4 DEF TInv
  <1>4. ASSUME NEW payload \in SUBSET Seen, NEW replace \in BOOLEAN, Receive(payload, replace)
        PROVE  TInv'
    <2>1. /\ sync' = [phase |-> "applying", payload |-> payload, left |-> payload,
                      replace |-> replace, rows |-> rows, links |-> links]
          /\ UNCHANGED <<name, past, rows, links, event, runs>>
      BY <1>4 DEF Receive, github
    <2>2. payload \subseteq Item /\ IsFunctional(payload)
      BY <1>t, SeenIsFunctional DEF TablesAgree, IsFunctional
    <2>3. sync' \in Payload
      BY <1>t, <2>1, <2>2 DEF Payload
    <2>4. Typed'
      BY <1>t, <2>1, <2>3 DEF Typed
    <2>5. /\ sync'.left = payload /\ sync'.payload = payload
          /\ sync'.rows = rows /\ sync'.links = links
      BY <2>1
    <2>6. TablesAgree'
      BY <1>t, <2>1, <2>2, <2>5 DEF TablesAgree, Applied
    <2> QED
      BY <2>4, <2>6 DEF TInv
  <1>5. ASSUME NEW item \in Item, Upsert(item) PROVE TInv'
    <2>1. /\ sync # Idle /\ sync \in Payload /\ item \in sync.left /\ sync.rows \in Table
          /\ UNCHANGED <<name, past, rows, links, event, runs>>
      BY <1>5, <1>t DEF Upsert, github, Payload
    <2>2. PICK w \in Candidates(sync.rows, item) :
            IF Fits(sync.rows, w, item) THEN Assign(w, item) ELSE sync' = Idle
      BY <1>5 DEF Upsert
    <2>3. CASE sync' = Idle
      BY <1>t, <2>1, <2>3 DEF TInv, Typed, TablesAgree
    <2>4. CASE Fits(sync.rows, w, item) /\ Assign(w, item)
      <3>1. w \in Rows /\ sync' \in Payload
        BY <2>1, <2>4, CandidateKinds, AssignEffect
      <3>2. Typed'
        BY <1>t, <2>1, <3>1 DEF Typed
      <3>3. /\ sync'.left \subseteq sync'.payload /\ IsFunctional(sync'.payload)
            /\ IsUnique(sync'.rows) /\ LinksAgree(sync'.rows, sync'.links)
            /\ Applied'
        BY <2>1, <2>4, AssignTables DEF Applied
      <3>4. TablesAgree'
        BY <1>t, <2>1, <3>3 DEF TablesAgree
      <3> QED
        BY <3>2, <3>4 DEF TInv
    <2> QED
      BY <2>2, <2>3, <2>4
  <1>6. CASE Commit
    <2>1. /\ sync # Idle /\ sync.left = {} /\ rows' = sync.rows /\ sync' = Idle
          /\ UNCHANGED <<name, past, event, runs>>
          /\ \A w \in Rows : links'[w] = None \/ links'[w] = sync.links[w]
          /\ links' \in [Rows -> {None} \cup {sync.links[w] : w \in Rows}]
      BY <1>6 DEF Commit, github
    <2>2. /\ sync.rows \in Table /\ sync.links \in LinkTable /\ IsUnique(sync.rows)
          /\ LinksAgree(sync.rows, sync.links) /\ Applied
      BY <1>t, <2>1 DEF Payload, TablesAgree
    <2>3. links' \in LinkTable
      BY <2>1, <2>2 DEF LinkTable
    <2>4. Typed'
      BY <1>t, <2>1, <2>2, <2>3 DEF Typed
    <2>5. LinksAgree(rows', links')
      BY <2>1, <2>2 DEF LinksAgree
    <2>6. \A run \in runs : rows'[run.row] # NoRow
      BY <1>t, <2>1, <2>2 DEF Typed, TablesAgree, Applied
    <2>7. TablesAgree'
      BY <1>t, <2>1, <2>2, <2>5, <2>6 DEF TablesAgree
    <2> QED
      BY <2>4, <2>7 DEF TInv
  <1>7. CASE HandleEvent
    <2>1. /\ event \in Item /\ event' = NoRow
          /\ runs' = runs \cup {[row |-> w, repo |-> event.repo] :
                                  w \in {v \in Rows : rows[v].name = event.name}}
          /\ UNCHANGED <<name, past, rows, links, sync>>
      BY <1>7, <1>t DEF HandleEvent, github
    <2>2. \A w \in Rows : rows[w].name = event.name => rows[w] # NoRow
      BY <2>1, RegistryAssumption DEF NoRow, Item
    <2>3. Typed'
      BY <1>t, <2>1 DEF Typed, Item
    <2>4. TablesAgree'
      BY <1>t, <2>1, <2>2 DEF TablesAgree, Applied
    <2> QED
      BY <2>3, <2>4 DEF TInv
  <1>8. CASE UNCHANGED vars
    BY <1>8, <1>t DEF vars, github, TInv, Typed, TablesAgree, Applied
  <1> QED
    BY <1>1, <1>2, <1>3, <1>4, <1>5, <1>6, <1>7, <1>8 DEF Next

(* The table of repositories is never without its unique columns, a link   *)
(* never without its row, nor is a run.                                    *)
LEMMA TInvImplies == TInv /\ NamesAreHad => TypeOK
  BY NoRowIsNoItem DEF TInv, Typed, TablesAgree, NamesAreHad, TypeOK, LinksAgree, Table,
                       LinkTable, Payload

-----------------------------------------------------------------------------
(* While no name changes hands                                             *)

LEMMA InitNInv == Init => NInv
  <1> SUFFICES ASSUME Init PROVE NInv
    OBVIOUS
  <1>1. /\ \A r \in Repos : name[r] = None
        /\ \A w \in Rows : rows[w] = NoRow
        /\ event = NoRow /\ runs = {} /\ sync = Idle
    BY DEF Init
  <1> QED
    BY <1>1 DEF NInv, NamesAreHad, HasHad, RowsAreKept

(* A repository does not forget its names.                                 *)
LEMMA PastGrows ==
    ASSUME TInv, [Next]_vars
    PROVE  /\ \A r \in Repos : past[r] \subseteq past'[r]
           /\ NamesChangedHands => NamesChangedHands'
  <1>t. past \in [Repos -> SUBSET Names]
    BY DEF TInv, Typed
  <1>1. ASSUME NEW q \in Repos, NEW n \in Names, Take(q, n)
        PROVE  \A r \in Repos : past[r] \subseteq past'[r]
    BY <1>1, <1>t DEF Take
  <1>2. past' = past \/ \E q \in Repos, n \in Names : Take(q, n)
    BY DEF Next, Leave, PullRequestEvent, Receive, Upsert, Commit, HandleEvent, vars, github
  <1>3. \A r \in Repos : past[r] \subseteq past'[r]
    BY <1>1, <1>2
  <1> QED
    BY <1>3 DEF NamesChangedHands

LEMMA NextNamesAreHad == TInv /\ NamesAreHad /\ [Next]_vars => NamesAreHad'
  <1> SUFFICES ASSUME TInv, NamesAreHad, [Next]_vars PROVE NamesAreHad'
    OBVIOUS
  <1>t. /\ name \in [Repos -> Names \cup {None}] /\ past \in [Repos -> SUBSET Names]
        /\ rows \in Table /\ (sync # Idle => sync \in Payload) /\ event \in Item \cup {NoRow}
        /\ \A r, q \in Repos : name[r] = name[q] /\ name[r] # None => r = q
    BY DEF TInv, Typed, TablesAgree
  <1>g. \A r \in Repos : past[r] \subseteq past'[r]
    BY PastGrows
  <1>h. ASSUME NEW item \in Item \cup {NoRow}, HasHad(item)
        PROVE  item # NoRow => item.name \in past'[item.repo]
    BY <1>g, <1>h DEF HasHad, Item
  <1>r. ASSUME UNCHANGED rows PROVE \A w \in Rows : HasHad(rows[w])'
    <2> SUFFICES ASSUME NEW w \in Rows PROVE rows[w] # NoRow => rows[w].name \in past'[rows[w].repo]
      BY <1>r DEF HasHad
    <2> QED
      BY <1>h, <1>t DEF NamesAreHad, Table
  <1>e. ASSUME UNCHANGED event PROVE HasHad(event)'
    <2>1. event # NoRow => event.name \in past'[event.repo]
      BY <1>h, <1>t DEF NamesAreHad
    <2> QED
      BY <1>e, <2>1 DEF HasHad
  <1>y. ASSUME UNCHANGED sync, sync # Idle
        PROVE  /\ \A item \in sync.payload : item # NoRow => item.name \in past'[item.repo]
               /\ \A w \in Rows : sync.rows[w] # NoRow =>
                    sync.rows[w].name \in past'[sync.rows[w].repo]
    BY <1>h, <1>t, <1>y DEF NamesAreHad, Payload, Table
  <1>m. ASSUME UNCHANGED name PROVE \A r \in Repos : name'[r] # None => name'[r] \in past'[r]
    BY <1>g, <1>m DEF NamesAreHad
  <1>1. ASSUME NEW q \in Repos, NEW n \in Names, Take(q, n) PROVE NamesAreHad'
    <2>1. /\ name' = [name EXCEPT ![q] = n] /\ past' = [past EXCEPT ![q] = past[q] \cup {n}]
          /\ UNCHANGED <<rows, links, sync, event, runs>>
      BY <1>1 DEF Take
    <2>2. \A r \in Repos : name'[r] # None => name'[r] \in past'[r]
      BY <1>t, <2>1 DEF NamesAreHad
    <2> QED
      BY <1>r, <1>e, <1>y, <2>1, <2>2 DEF NamesAreHad, HasHad
  <1>2. ASSUME NEW q \in Repos, Leave(q) PROVE NamesAreHad'
    <2>1. name' = [name EXCEPT ![q] = None] /\ UNCHANGED <<past, rows, links, sync, event, runs>>
      BY <1>2 DEF Leave
    <2>2. \A r \in Repos : name'[r] # None => name'[r] \in past'[r]
      BY <1>t, <2>1 DEF NamesAreHad
    <2> QED
      BY <1>r, <1>e, <1>y, <2>1, <2>2 DEF NamesAreHad, HasHad
  <1>3. ASSUME NEW q \in Repos, PullRequestEvent(q) PROVE NamesAreHad'
    <2>1. /\ event' = [repo |-> q, name |-> name[q]] /\ name[q] # None
          /\ UNCHANGED <<name, past, rows, sync>>
      BY <1>3 DEF PullRequestEvent, github
    <2>2. HasHad(event)'
      BY <2>1 DEF HasHad, NamesAreHad
    <2> QED
      BY <1>r, <1>m, <1>y, <2>1, <2>2 DEF NamesAreHad, HasHad
  <1>4. ASSUME NEW payload \in SUBSET Seen, NEW replace \in BOOLEAN, Receive(payload, replace)
        PROVE  NamesAreHad'
    <2>1. /\ sync'.payload = payload /\ sync'.rows = rows
          /\ UNCHANGED <<name, past, rows, event>>
      BY <1>4 DEF Receive, github
    <2>2. \A item \in payload : item.name \in past[item.repo]
      BY <1>t, SeenIsFunctional DEF NamesAreHad, Item
    <2> QED
      BY <1>r, <1>e, <1>m, <2>1, <2>2 DEF NamesAreHad, HasHad
  <1>5. ASSUME NEW item \in Item, Upsert(item) PROVE NamesAreHad'
    <2>1. /\ sync \in Payload /\ sync # Idle /\ item \in sync.left /\ item \in sync.payload
          /\ sync.rows \in Table /\ UNCHANGED <<name, past, rows, event>>
      BY <1>5, <1>t DEF Upsert, github, Payload, TInv, TablesAgree
    <2>2. PICK w \in Candidates(sync.rows, item) :
            IF Fits(sync.rows, w, item) THEN Assign(w, item) ELSE sync' = Idle
      BY <1>5 DEF Upsert
    <2>3. w \in Rows
      BY <2>1, CandidateKinds
    <2>4. CASE sync' = Idle
      BY <1>r, <1>e, <1>m, <2>1, <2>4 DEF NamesAreHad
    <2>5. CASE Assign(w, item)
      <3>1. sync'.payload = sync.payload /\ sync'.rows = [sync.rows EXCEPT ![w] = item]
        BY <2>1, <2>3, <2>5, AssignEffect
      <3>2. \A v \in Rows : sync'.rows[v] \in {item, sync.rows[v]}
        BY <2>1, <3>1 DEF Table
      <3> QED
        BY <1>r, <1>e, <1>m, <2>1, <3>1, <3>2 DEF NamesAreHad, HasHad
    <2> QED
      BY <2>2, <2>4, <2>5
  <1>6. CASE Commit
    <2>1. sync # Idle /\ rows' = sync.rows /\ sync' = Idle /\ UNCHANGED <<name, past, event>>
      BY <1>6 DEF Commit, github
    <2>2. \A w \in Rows : HasHad(rows[w])'
      BY <2>1 DEF NamesAreHad, HasHad
    <2> QED
      BY <1>e, <1>m, <2>1, <2>2 DEF NamesAreHad
  <1>7. CASE HandleEvent
    <2>1. event' = NoRow /\ UNCHANGED <<name, past, rows, sync>>
      BY <1>7 DEF HandleEvent, github
    <2> QED
      BY <1>r, <1>m, <1>y, <2>1 DEF NamesAreHad, HasHad
  <1>8. CASE UNCHANGED vars
    BY <1>8, <1>r, <1>e, <1>m, <1>y DEF vars, github, NamesAreHad, HasHad
  <1> QED
    BY <1>1, <1>2, <1>3, <1>4, <1>5, <1>6, <1>7, <1>8 DEF Next

(* Two rows or items of one name are of one repository.                    *)
LEMMA NameTellsRepository ==
    ASSUME ~NamesChangedHands, NEW i \in Item, NEW j \in Item, HasHad(i), HasHad(j),
           i.name = j.name
    PROVE  i.repo = j.repo
  <1>1. i.name \in past[i.repo] \cap past[j.repo]
    BY NoRowIsNoItem DEF HasHad
  <1> QED
    BY <1>1 DEF NamesChangedHands, Item

(* The row that an item goes to was its repository's, or nobody's.         *)
LEMMA CandidateIsOwn ==
    ASSUME ~NamesChangedHands, TInv, NamesAreHad, sync # Idle, NEW item \in sync.payload,
           NEW w \in Candidates(sync.rows, item)
    PROVE  /\ w \in Rows /\ item \in Item
           /\ sync.rows[w] # NoRow => sync.rows[w].repo = item.repo
           /\ sync.rows[w] = NoRow => Matches(sync.rows, item) = {}
           /\ \A v \in Matches(sync.rows, item) : sync.rows[v].repo = item.repo
  <1>t. /\ sync.rows \in Table /\ item \in Item /\ HasHad(item)
        /\ \A v \in Rows : HasHad(sync.rows[v])
    BY DEF TInv, Typed, Payload, NamesAreHad
  <1>1. ASSUME NEW v \in Rows, sync.rows[v] # NoRow, sync.rows[v].name = item.name
        PROVE  sync.rows[v].repo = item.repo
    <2>1. sync.rows[v] \in Item
      BY <1>1, <1>t DEF Table
    <2> QED
      BY <1>1, <1>t, <2>1, NameTellsRepository
  <1>2. ASSUME NEW v \in Matches(sync.rows, item)
        PROVE  v \in Rows /\ sync.rows[v].repo = item.repo
    <2>1. v \in Rows /\ (sync.rows[v].repo = item.repo \/ sync.rows[v].name = item.name)
      BY DEF Matches
    <2>2. sync.rows[v] # NoRow
      BY <1>t, <2>1, RegistryAssumption DEF NoRow, Item
    <2> QED
      BY <1>1, <2>1, <2>2
  <1> QED
    BY <1>1, <1>2, <1>t, CandidateKinds

(* So that the item always fits.                                           *)
LEMMA CandidateFits ==
    ASSUME ~NamesChangedHands, TInv, NamesAreHad, sync # Idle, NEW item \in sync.payload,
           NEW w \in Candidates(sync.rows, item)
    PROVE  Fits(sync.rows, w, item)
  <1> DEFINE table == [sync.rows EXCEPT ![w] = item]
  <1>t. sync.rows \in Table /\ IsUnique(sync.rows)
    BY DEF TInv, Typed, TablesAgree, Payload
  <1>w. /\ w \in Rows /\ item \in Item
        /\ sync.rows[w] # NoRow => sync.rows[w].repo = item.repo
        /\ sync.rows[w] = NoRow => Matches(sync.rows, item) = {}
        /\ \A v \in Matches(sync.rows, item) : sync.rows[v].repo = item.repo
    BY CandidateIsOwn
  <1>1. ASSUME NEW v \in Rows, v # w, sync.rows[v] # NoRow
        PROVE  sync.rows[v].repo # item.repo /\ sync.rows[v].name # item.name
    <2> SUFFICES ASSUME v \in Matches(sync.rows, item) PROVE FALSE
      BY DEF Matches
    <2>1. sync.rows[v].repo = item.repo /\ sync.rows[w] # NoRow
          /\ sync.rows[w].repo = item.repo
      BY <1>w
    <2> QED
      BY <1>1, <1>t, <1>w, <2>1 DEF IsUnique
  <1>2. /\ table[w] = item
        /\ \A v \in Rows : v # w => table[v] = sync.rows[v]
    BY <1>t, <1>w DEF Table
  <1> HIDE DEF table
  <1>3. IsUnique(table)
    BY <1>1, <1>2, <1>t DEF IsUnique
  <1> QED
    BY <1>3 DEF Fits, table

LEMMA NextRowsAreKept ==
    ASSUME TInv, NamesAreHad, RowsAreKept, [Next]_vars PROVE RowsAreKept'
  <1> SUFFICES ASSUME ~NamesChangedHands'
               PROVE  /\ \A run \in runs' : rows'[run.row].repo = run.repo
                      /\ sync' # Idle => \A w \in Rows : rows'[w] # NoRow =>
                           sync'.rows[w].repo = rows'[w].repo
    BY DEF RowsAreKept
  <1>t. /\ ~NamesChangedHands /\ rows \in Table /\ event \in Item \cup {NoRow}
        /\ runs \subseteq [row : Rows, repo : Repos]
        /\ sync # Idle => sync \in Payload
        /\ \A run \in runs : rows[run.row] # NoRow
    BY PastGrows DEF TInv, Typed, TablesAgree
  <1>k. /\ \A run \in runs : rows[run.row].repo = run.repo
        /\ sync # Idle => \A w \in Rows : rows[w] # NoRow => sync.rows[w].repo = rows[w].repo
    BY <1>t DEF RowsAreKept
  <1>1. CASE UNCHANGED <<rows, sync, runs>>
    BY <1>1, <1>k
  <1>2. ASSUME NEW payload \in SUBSET Seen, NEW replace \in BOOLEAN, Receive(payload, replace)
        PROVE  UNCHANGED <<rows, runs>> /\ sync'.rows = rows
    BY <1>2 DEF Receive
  <1>3. ASSUME NEW item \in Item, Upsert(item)
        PROVE  /\ UNCHANGED <<rows, runs>>
               /\ sync' # Idle => \A v \in Rows : rows[v] # NoRow =>
                    sync'.rows[v].repo = rows[v].repo
    <2>1. /\ sync \in Payload /\ sync # Idle /\ item \in sync.payload
          /\ sync.rows \in Table /\ Applied /\ UNCHANGED <<rows, runs>>
      BY <1>3, <1>t DEF Upsert, Payload, TInv, TablesAgree
    <2>2. PICK w \in Candidates(sync.rows, item) :
            IF Fits(sync.rows, w, item) THEN Assign(w, item) ELSE sync' = Idle
      BY <1>3 DEF Upsert
    <2>3. w \in Rows /\ (sync.rows[w] # NoRow => sync.rows[w].repo = item.repo)
      BY <1>t, <2>1, CandidateIsOwn
    <2>4. ASSUME Assign(w, item), NEW v \in Rows, rows[v] # NoRow
          PROVE  sync'.rows[v].repo = rows[v].repo
      <3>1. sync'.rows = [sync.rows EXCEPT ![w] = item]
        BY <2>1, <2>3, <2>4, AssignEffect
      <3>2. sync.rows[v] # NoRow /\ sync.rows[v].repo = rows[v].repo
        BY <1>k, <2>1, <2>4 DEF Applied
      <3> QED
        BY <2>1, <2>3, <3>1, <3>2 DEF Table
    <2> QED
      BY <2>1, <2>2, <2>4
  <1>4. CASE Commit
    <2>1. sync # Idle /\ sync' = Idle /\ rows' = sync.rows /\ runs' = runs
      BY <1>4 DEF Commit
    <2> QED
      BY <1>k, <1>t, <2>1
  <1>5. CASE HandleEvent
    <2>1. /\ event # NoRow /\ UNCHANGED <<rows, sync>>
          /\ runs' = runs \cup {[row |-> w, repo |-> event.repo] :
                                  w \in {v \in Rows : rows[v].name = event.name}}
      BY <1>5 DEF HandleEvent
    <2>2. ASSUME NEW w \in Rows, rows[w].name = event.name PROVE rows[w].repo = event.repo
      <3>1. rows[w] \in Item /\ event \in Item
        BY <1>t, <2>1, <2>2, RegistryAssumption DEF Table, NoRow, Item
      <3> QED
        BY <1>t, <2>2, <3>1, NameTellsRepository DEF NamesAreHad
    <2> QED
      BY <1>k, <2>1, <2>2
  <1>6. CASE \E payload \in SUBSET Seen, replace \in BOOLEAN : Receive(payload, replace)
    BY <1>2, <1>6, <1>k
  <1>7. CASE \E item \in Item : Upsert(item)
    BY <1>3, <1>7, <1>k
  <1>8. \/ UNCHANGED <<rows, sync, runs>>
        \/ \E payload \in SUBSET Seen, replace \in BOOLEAN : Receive(payload, replace)
        \/ \E item \in Item : Upsert(item)
        \/ Commit
        \/ HandleEvent
    BY DEF Next, Take, Leave, PullRequestEvent, vars
  <1> QED
    BY <1>1, <1>4, <1>5, <1>6, <1>7, <1>8

LEMMA NextNInv == TInv /\ NInv /\ [Next]_vars => NInv'
  BY NextNamesAreHad, NextRowsAreKept DEF NInv

(* A committed payload is stored whole: each item has a row with a link,   *)
(* and if the payload replaces, no other row has one.                      *)
LEMMA CommitStores ==
    ASSUME TInv, Commit
    PROVE  /\ \A item \in sync.payload : \E w \in Rows : rows'[w] = item /\ links'[w] = item.repo
           /\ sync.replace => \A w \in Rows : links'[w] # None => rows'[w] \in sync.payload
  <1> DEFINE ids == {item.repo : item \in sync.payload}
  <1>t. /\ sync # Idle /\ sync \in Payload /\ sync.left = {} /\ rows' = sync.rows
        /\ IsUnique(sync.rows) /\ LinksAgree(sync.rows, sync.links) /\ Applied
        /\ sync.payload \subseteq Item
        /\ links' = [w \in Rows |-> IF sync.replace /\ sync.links[w] \notin ids
                                    THEN None ELSE sync.links[w]]
    BY DEF Commit, TInv, Typed, TablesAgree, Payload
  <1>1. ASSUME NEW item \in sync.payload
        PROVE  \E w \in Rows : sync.rows[w] = item /\ sync.links[w] = item.repo
    BY <1>t DEF Applied
  <1>2. ASSUME NEW item \in sync.payload
        PROVE  \E w \in Rows : rows'[w] = item /\ links'[w] = item.repo
    <2>1. PICK w \in Rows : sync.rows[w] = item /\ sync.links[w] = item.repo
      BY <1>1
    <2>2. sync.links[w] \in ids
      BY <2>1
    <2> QED
      BY <1>t, <2>1, <2>2
  <1>3. ASSUME sync.replace, NEW w \in Rows, links'[w] # None PROVE rows'[w] \in sync.payload
    <2>1. sync.links[w] \in ids /\ sync.links[w] # None
      BY <1>3, <1>t
    <2>2. PICK item \in sync.payload : sync.links[w] = item.repo
      BY <2>1
    <2>3. PICK v \in Rows : sync.rows[v] = item /\ sync.links[v] = item.repo
      BY <1>1
    <2>4. /\ sync.rows[w] # NoRow /\ sync.rows[w].repo = item.repo
          /\ sync.rows[v] # NoRow /\ sync.rows[v].repo = item.repo
      BY <1>t, <2>1, <2>2, <2>3, NoRowIsNoItem DEF LinksAgree
    <2>5. v = w
      BY <1>t, <2>4 DEF IsUnique
    <2> QED
      BY <1>t, <2>3, <2>5
  <1> QED
    BY <1>2, <1>3

(* A payload whose names have not changed hands is not refused.            *)
LEMMA OnlyCommitEnds ==
    ASSUME TInv, NamesAreHad, [Next]_vars, ~NamesChangedHands, sync # Idle, sync' = Idle
    PROVE  Commit
  <1>1. ASSUME NEW item \in Item, Upsert(item) PROVE FALSE
    <2>1. sync \in Payload /\ item \in sync.payload /\ sync.rows \in Table
      BY <1>1 DEF Upsert, TInv, Typed, TablesAgree, Payload
    <2>2. PICK w \in Candidates(sync.rows, item) :
            IF Fits(sync.rows, w, item) THEN Assign(w, item) ELSE sync' = Idle
      BY <1>1 DEF Upsert
    <2>3. Assign(w, item) /\ w \in Rows
      BY <2>1, <2>2, CandidateFits, CandidateIsOwn
    <2> QED
      BY <2>1, <2>3, AssignEffect
  <1> QED
    BY <1>1 DEF Next, Take, Leave, PullRequestEvent, Receive, HandleEvent, vars

(* The unique columns hold, a link has its row and so has a run, whatever  *)
(* payloads, renames and webhooks meet.                                    *)
THEOREM RegistryTypes == Spec => []TypeOK
  <1>1. TInv /\ NInv => TypeOK
    BY TInvImplies DEF NInv
  <1> QED
    BY <1>1, InitTInv, NextTInv, InitNInv, NextNInv, PTL DEF Spec

(* A payload that commits is stored whole, rows it did not list lose their *)
(* link if it replaces; and as long as no name has been two repositories', *)
(* runs stay with the repository they were made for and no payload is      *)
(* refused by a unique constraint.                                         *)
THEOREM RowsFollow == Spec => RowsFollowRepositories
  <1>1. NInv => RunsStayUnlessNamesMove
    BY DEF NInv, RowsAreKept, RunsStayUnlessNamesMove
  <1>2. TInv => [Commit =>
         /\ \A item \in sync.payload : \E w \in Rows : rows'[w] = item /\ links'[w] = item.repo
         /\ sync.replace => \A w \in Rows : links'[w] # None => rows'[w] \in sync.payload]_vars
    BY CommitStores
  <1>3. TInv /\ NInv /\ [Next]_vars =>
          [~NamesChangedHands /\ sync # Idle /\ sync' = Idle => Commit]_vars
    BY OnlyCommitEnds DEF NInv
  <1> QED
    BY <1>1, <1>2, <1>3, InitTInv, NextTInv, InitNInv, NextNInv, PTL
    DEF Spec, RowsFollowRepositories, CommittedPayloadIsStored, PayloadsAreTakenUnlessNamesMove

-----------------------------------------------------------------------------
(* TOKENS.                                                                 *)

(* A thread whose token has not yet been put through commands: what is     *)
(* left and what it has used up of it make more than the margin.           *)
Covered(h) ==
    /\ h.step \in {"storing", "using"} /\ (h.work = "execution" => h.downloads = 0)
       => h.left + h.age + Skew > Margin /\ h.age <= CallTime
    /\ h.step = "posting" => h.age = 0
    /\ h.step \in {"posting", "storing"} => h.downloads = 0

HeldInv == TokenTypeOK /\ \A t \in Threads : Covered(held[t])

LEMMA HeldInvImplies == HeldInv => TokensOutliveRequests
  <1> SUFFICES ASSUME HeldInv, NEW t \in Threads, held[t].step = "using",
                      held[t].work = "execution" => held[t].downloads = 0
               PROVE held[t].left > 0
    BY DEF TokensOutliveRequests
  <1>1. held[t] \in Thread /\ Covered(held[t])
    BY DEF HeldInv, TokenTypeOK
  <1>2. held[t].left \in Nat /\ held[t].age \in Nat
    BY <1>1 DEF Thread
  <1>3. held[t].left + held[t].age + Skew > Margin /\ held[t].age <= CallTime
    BY <1>1 DEF Covered
  <1> QED
    BY <1>2, <1>3, TokenAssumption

LEMMA InitHeldInv == TokenInit => HeldInv
  <1> SUFFICES ASSUME TokenInit PROVE HeldInv
    OBVIOUS
  <1>1. cache \in [Installations -> 0..Lifetime]
    BY TokenAssumption DEF TokenInit
  <1>2. ASSUME NEW t \in Threads
        PROVE held[t] \in Thread /\ held[t].step = "idle" /\ held[t].age = 0
    BY DEF TokenInit
  <1>3. held \in [Threads -> Thread]
    BY DEF TokenInit
  <1> QED
    BY <1>1, <1>2, <1>3, TokenAssumption DEF HeldInv, TokenTypeOK, Covered

(* What a step of one thread has to show for that thread.                  *)
Sound(h) == h \in Thread /\ Covered(h) /\ (h.work = "request" => h.age <= CallTime)

LEMMA HeldChange ==
  ASSUME HeldInv, NEW t \in Threads, NEW h, Sound(h),
         held' = [held EXCEPT ![t] = h], cache' \in [Installations -> 0..Lifetime]
  PROVE  HeldInv'
  <1>1. held' \in [Threads -> Thread]
    BY DEF HeldInv, TokenTypeOK, Sound
  <1>2. ASSUME NEW s \in Threads
        PROVE Covered(held'[s]) /\ (held'[s].work = "request" => held'[s].age <= CallTime)
    BY DEF HeldInv, TokenTypeOK, Sound
  <1>3. \A s \in Threads : Covered(held[s])'
    BY <1>2 DEF Covered
  <1> QED
    BY <1>1, <1>2, <1>3 DEF HeldInv, TokenTypeOK

LEMMA SoundIsEnough ==
  ASSUME cache' \in [Installations -> 0..Lifetime], held' \in [Threads -> Thread],
         \A t \in Threads : Sound(held'[t])
  PROVE  HeldInv'
  BY DEF HeldInv, TokenTypeOK, Sound, Covered

LEMMA IdleSound == ASSUME NEW h \in Thread PROVE Sound(AtRest(h))
  BY TokenAssumption DEF AtRest, Sound, Covered, Thread, Works

LEMMA LessInRange ==
  ASSUME NEW n \in 0..Lifetime
  PROVE  Less(n) \in 0..Lifetime /\ Less(n) + 1 >= n
  BY TokenAssumption DEF Less

LEMMA NextHeldInv == HeldInv /\ [TokenNext]_tokenVars => HeldInv'
  <1> SUFFICES ASSUME HeldInv, [TokenNext]_tokenVars PROVE HeldInv'
    OBVIOUS
  <1>t. /\ cache \in [Installations -> 0..Lifetime]
        /\ held \in [Threads -> Thread]
    BY DEF HeldInv, TokenTypeOK
  <1>s. \A t \in Threads : Sound(held[t])
    BY <1>t DEF HeldInv, TokenTypeOK, Sound
  <1>1. ASSUME NEW t \in Threads, NEW i \in Installations, NEW work \in Works, Ask(t, i, work)
        PROVE HeldInv'
    <2> DEFINE h == [step |-> IF IsUsable(i) THEN "using" ELSE "posting", work |-> work,
                     installation |-> i, left |-> IF IsUsable(i) THEN cache[i] ELSE 0,
                     age |-> 0, downloads |-> 0]
    <2>1. h \in Thread
      BY <1>t, TokenAssumption DEF Thread, Works
    <2>2. Sound(h)
      BY <1>t, <2>1, TokenAssumption DEF Sound, Covered, IsUsable
    <2> QED
      BY <1>1, <1>t, <2>2, HeldChange DEF Ask
  <1>2. ASSUME NEW t \in Threads, Mint(t) PROVE HeldInv'
    <2>1. CASE held' = [held EXCEPT ![t] = AtRest(@)]
      <3>1. Sound(AtRest(held[t]))
        BY <1>t, IdleSound
      <3>2. cache' \in [Installations -> 0..Lifetime]
        BY <1>2, <1>t DEF Mint
      <3> QED
        BY <2>1, <3>1, <3>2, HeldChange
    <2>2. CASE held' = [held EXCEPT ![t].step = "storing", ![t].left = Lifetime]
      <3> DEFINE h == [held[t] EXCEPT !.step = "storing", !.left = Lifetime]
      <3>1. held' = [held EXCEPT ![t] = h]
        BY <2>2, <1>t
      <3>2. Sound(h)
        <4>1. /\ held[t] \in Thread /\ held[t].age = 0 /\ held[t].downloads = 0
          BY <1>2, <1>t, <1>s DEF Mint, Sound, Covered
        <4>2. h \in Thread
          <5> DEFINE step == "storing"
                     left == Lifetime
          <5>1. step \in {"idle", "posting", "storing", "using"} /\ left \in 0..Lifetime
            BY TokenAssumption
          <5> HIDE DEF step, left
          <5>2. [held[t] EXCEPT !.step = step, !.left = left] \in Thread
            BY <4>1, <5>1 DEF Thread
          <5> QED
            BY <5>2 DEF step, left
        <4>3. h.step = "storing" /\ h.left = Lifetime /\ h.age = 0 /\ h.downloads = 0
          BY <4>1, Zenon DEF Thread
        <4> HIDE DEF h
        <4> QED
          BY <4>2, <4>3, TokenAssumption DEF Sound, Covered
      <3> QED
        BY <1>2, <1>t, <3>1, <3>2, HeldChange DEF Mint
    <2> QED
      BY <1>2, <2>1, <2>2 DEF Mint
  <1>3. ASSUME NEW t \in Threads, Store(t) PROVE HeldInv'
    <2> DEFINE h == [held[t] EXCEPT !.step = "using"]
    <2>1. held' = [held EXCEPT ![t] = h]
      BY <1>3, <1>t DEF Store
    <2>2. Sound(h)
      BY <1>3, <1>t, <1>s DEF Store, Sound, Covered, Thread
    <2>3. cache' \in [Installations -> 0..Lifetime]
      BY <1>3, <1>t DEF Store, Thread
    <2> QED
      BY <2>1, <2>2, <2>3, HeldChange
  <1>4. ASSUME NEW t \in Threads, Download(t) PROVE HeldInv'
    <2> DEFINE h == [held[t] EXCEPT !.downloads = @ + 1]
    <2>1. held' = [held EXCEPT ![t] = h]
      BY <1>4, <1>t DEF Download
    <2>2. Sound(h)
      BY <1>4, <1>t, <1>s DEF Download, Sound, Covered, Thread
    <2> QED
      BY <1>4, <1>t, <2>1, <2>2, HeldChange DEF Download
  <1>5. ASSUME NEW t \in Threads, Finish(t) PROVE HeldInv'
    <2>1. Sound(AtRest(held[t]))
      BY <1>t, IdleSound
    <2> QED
      BY <1>5, <1>t, <2>1, HeldChange DEF Finish
  <1>6. CASE Restart
    <2>1. \A t \in Threads : Sound(AtRest(held[t]))
      BY <1>t, IdleSound
    <2>2. \A t \in Threads : held'[t] = AtRest(held[t])
      BY <1>6 DEF Restart
    <2>3. held' \in [Threads -> Thread]
      BY <1>6, <2>1 DEF Restart, Sound
    <2>4. cache' \in [Installations -> 0..Lifetime]
      BY <1>6, TokenAssumption DEF Restart
    <2> QED
      BY <2>1, <2>2, <2>3, <2>4, SoundIsEnough
  <1>7. CASE Tick
    <2>1. ASSUME NEW t \in Threads PROVE Sound(held'[t])
      <3>1. CASE held[t].step \in {"storing", "using"}
        <4>1. held'[t] = [held[t] EXCEPT !.left = Less(@), !.age = @ + 1]
          BY <1>7, <3>1 DEF Tick
        <4>2. held[t].age < TimeFor(held[t])
          BY <1>7, <3>1 DEF Tick
        <4>3. held[t] \in Thread /\ Covered(held[t])
          BY <1>t, <1>s DEF Sound
        <4>4. /\ held[t].left \in 0..Lifetime
              /\ held[t].age \in Nat /\ held[t].age < CallTime + CommandTime
          BY <4>2, <4>3, TokenAssumption DEF Thread, TimeFor
        <4>5. /\ held'[t].step = held[t].step /\ held'[t].work = held[t].work
              /\ held'[t].downloads = held[t].downloads
              /\ held'[t].age = held[t].age + 1
              /\ held'[t].left = Less(held[t].left)
          BY <4>1, <4>3, Zenon DEF Thread
        <4>8. held'[t].left + held'[t].age >= held[t].left + held[t].age
          BY <4>4, <4>5, LessInRange, TokenAssumption
        <4>7. held'[t] \in Thread
          <5> DEFINE left == Less(held[t].left)
                     age == held[t].age + 1
          <5>1. left \in 0..Lifetime /\ age \in 0..(CallTime + CommandTime)
            BY <4>4, LessInRange, TokenAssumption
          <5>2. held'[t] = [held[t] EXCEPT !.left = left, !.age = age]
            BY <4>1
          <5> HIDE DEF left, age
          <5> QED
            BY <4>3, <5>1, <5>2 DEF Thread
        <4>6. /\ held[t].work = "request" => held'[t].age <= CallTime
              /\ held[t].step = "storing" \/ held[t].downloads = 0 => held'[t].age <= CallTime
          BY <4>2, <4>3, <4>5, TokenAssumption DEF TimeFor, Thread
        <4> QED
          <5>1. held[t].work \in {"request", "execution"}
            BY <4>3 DEF Thread, Works
          <5>2. held'[t].left \in Nat
            BY <4>4, <4>5, LessInRange, TokenAssumption
          <5> QED
            BY <3>1, <4>3, <4>4, <4>5, <4>6, <4>7, <4>8, <5>1, <5>2, TokenAssumption
               DEF Sound, Covered
      <3>2. CASE held[t].step \notin {"storing", "using"}
        BY <1>7, <1>s, <3>2 DEF Tick
      <3> QED
        BY <3>1, <3>2
    <2>2. held' \in [Threads -> Thread]
      <3>1. \A t \in Threads : held'[t] \in Thread
        BY <2>1 DEF Sound
      <3>2. DOMAIN held' = Threads /\ held' = [t \in DOMAIN held' |-> held'[t]]
        BY <1>7 DEF Tick
      <3> QED
        BY <3>1, <3>2
    <2>3. cache' \in [Installations -> 0..Lifetime]
      BY <1>7, <1>t, LessInRange DEF Tick
    <2> QED
      BY <2>1, <2>2, <2>3, SoundIsEnough
  <1>8. CASE UNCHANGED tokenVars
    BY <1>8 DEF tokenVars, HeldInv, TokenTypeOK, Covered
  <1> QED
    BY <1>1, <1>2, <1>3, <1>4, <1>5, <1>6, <1>7, <1>8 DEF TokenNext

(* generate_installation_token: whoever asks, from whatever thread and     *)
(* whoever filled the cache, has a token that outlives the request.        *)
THEOREM TokenSafety == TokenSpec => []TokensOutliveRequests
  <1>1. TokenInit => HeldInv
    BY InitHeldInv
  <1>2. HeldInv /\ [TokenNext]_tokenVars => HeldInv'
    BY NextHeldInv
  <1>3. HeldInv => TokensOutliveRequests
    BY HeldInvImplies
  <1> QED
    BY <1>1, <1>2, <1>3, PTL DEF TokenSpec

(* The cache and what the threads hold stay in their types: no token is    *)
(* held past its time, no execution downloads more than two archives.      *)
THEOREM TokenTypeSafety == TokenSpec => []TokenTypeOK
  <1>1. HeldInv => TokenTypeOK
    BY DEF HeldInv
  <1> QED
    BY <1>1, InitHeldInv, NextHeldInv, PTL DEF TokenSpec

-----------------------------------------------------------------------------
(* PAYLOADS.  The invariant is inductive as it stands, with types that say *)
(* what a request is in each phase.                                        *)
Reading == [phase : {"computing"}, key : Keys, payload : Entry]
Expiry == [phase : {"expiring"}, tags : SUBSET AllKeys, next : Keys \cup {Nothing}]
PTypes ==
    /\ entry \in [Keys -> Entry \cup {Nothing}]
    /\ request \in [Requests -> {NoRequest} \cup Reading \cup Expiry]
PInv == PTypes /\ OutdatedIsExplained

LEMMA PhasesDiffer ==
    ASSUME PTypes, NEW r \in Requests
    PROVE  /\ request[r].phase = "idle" <=> request[r] = NoRequest
           /\ request[r].phase = "computing" <=> request[r] \in Reading
           /\ request[r].phase = "expiring" <=> request[r] \in Expiry
  BY DEF PTypes, NoRequest, Reading, Expiry

LEMMA PhrasesAreTyped ==
    /\ \A key \in Keys, payload \in Entry :
         /\ Computing(key, payload) \in Reading /\ Computing(key, payload).phase = "computing"
         /\ Computing(key, payload).key = key /\ Computing(key, payload).payload = payload
    /\ \A tags \in SUBSET AllKeys, next \in Keys \cup {Nothing} :
         /\ Expiring(tags, next) \in Expiry /\ Expiring(tags, next).phase = "expiring"
         /\ Expiring(tags, next).tags = tags
    /\ NoRequest.phase = "idle" /\ Fresh \in Entry /\ ~Fresh.outdated
  BY DEF Computing, Reading, Expiring, Expiry, NoRequest, Fresh, Entry

(* What excuses a payload that a change outdates.                          *)
Excuse(change, key) == change.tags = {} \/ <<change, key>> \in Forgotten

(* No change forgets a key that shows its rows, but those listed.          *)
LEMMA ChangesTouch ==
    ASSUME NEW c \in Changes
    PROVE  /\ c.tags \subseteq AllKeys
           /\ \A key \in Keys :
                Depends(key) \cap c.rows # {} /\ ~Excuse(c, key) => Tags(key) \cap c.tags # {}
  <1>1. \A key \in Keys : key \in Tags(key)
    BY DEF Tags
  <1>2. c.tags \subseteq AllKeys
    BY DEF Changes, NewRun, FinishedRun, Synced, GateConfig, CoverageUpdate, RunTags, Change,
           AllKeys
  <1>3. ASSUME NEW key \in Keys, Depends(key) \cap c.rows # {}, <<c, key>> \notin Forgotten
        PROVE  key \in c.tags
    <2>1. key \in AllKeys
      BY CacheAssumption
    <2>2. CASE c = NewRun \/ c = FinishedRun
      BY <1>3, <2>1, <2>2 DEF NewRun, FinishedRun, RunTags, Change, AllKeys, Depends
    <2>3. CASE c = Synced
      BY <1>3, <2>1, <2>3 DEF Synced, Change, AllKeys, Depends, Forgotten
    <2>4. CASE c = GateConfig \/ c = CoverageUpdate
      BY <1>3, <2>1, <2>4
      DEF GateConfig, CoverageUpdate, Change, AllKeys, Depends, Forgotten
    <2> QED
      BY <2>2, <2>3, <2>4 DEF Changes
  <1> QED
    BY <1>1, <1>2, <1>3 DEF Excuse

LEMMA OutdateEffect ==
    ASSUME NEW key, NEW payload \in Entry, NEW change
    PROVE  /\ Outdate(payload, key, change) \in Entry
           /\ /\ Outdate(payload, key, change).outdated
              /\ ~Outdate(payload, key, change).excused
              => \/ payload.outdated /\ ~payload.excused
                 \/ Depends(key) \cap change.rows # {} /\ ~Excuse(change, key)
  <1> DEFINE excused == Excuse(change, key)
             new == [outdated |-> TRUE, excused |-> payload.excused \/ excused]
  <1>0. excused \in BOOLEAN
    BY DEF Excuse
  <1>d. Outdate(payload, key, change)
        = IF Depends(key) \cap change.rows = {} THEN payload ELSE new
    BY DEF Outdate, Excuse
  <1> HIDE DEF excused
  <1>1. new \in Entry /\ new.excused = (payload.excused \/ excused)
    BY <1>0 DEF Entry
  <1>2. CASE Depends(key) \cap change.rows = {}
    BY <1>2, <1>d
  <1>3. CASE Depends(key) \cap change.rows # {}
    <2>1. Outdate(payload, key, change) = new
      BY <1>3, <1>d
    <2>2. new.excused = FALSE => payload.excused = FALSE /\ excused = FALSE
      BY <1>0, <1>1 DEF Entry
    <2> HIDE DEF new
    <2>3. new.excused \in BOOLEAN
      BY <1>1 DEF Entry
    <2> QED
      BY <1>0, <1>1, <1>3, <2>1, <2>2, <2>3 DEF excused
  <1> QED
    BY <1>2, <1>3

(* What explains a payload goes on explaining it while it is expiring.     *)
LEMMA ExplainedStays ==
    ASSUME \A q \in Requests : request[q].phase = "expiring" => request'[q] = request[q],
           NEW key, NEW payload, IsExplained(key, payload)
    PROVE  IsExplained(key, payload)'
  BY DEF IsExplained, Touched

LEMMA InitPInv == CacheInit => PInv
  <1> SUFFICES ASSUME CacheInit PROVE PInv
    OBVIOUS
  <1>1. PTypes
    BY DEF CacheInit, PTypes
  <1>2. OutdatedIsExplained
    BY PhrasesAreTyped DEF CacheInit, OutdatedIsExplained
  <1> QED
    BY <1>1, <1>2 DEF PInv

(* Rows change, by a request that is about to expire tags or by nobody.    *)
LEMMA OutdatedPInv ==
    ASSUME PInv, NEW change,
           entry' = OutdatedEntries(change),
           request' \in [Requests -> {NoRequest} \cup Reading \cup Expiry],
           \A q \in Requests : \/ request'[q] = OutdatedRequests(change)[q]
                               \/ request'[q].phase = "expiring" /\ request[q].phase = "idle",
           \A key \in Keys :
               Depends(key) \cap change.rows # {} /\ ~Excuse(change, key)
               => \E r \in Requests : /\ request'[r].phase = "expiring"
                                      /\ Tags(key) \cap request'[r].tags # {}
    PROVE  PInv'
  <1>0. PTypes /\ OutdatedIsExplained
    BY DEF PInv
  <1>1. \A q \in Requests : request[q].phase = "expiring" => request'[q] = request[q]
    BY DEF OutdatedRequests
  <1>2. ASSUME NEW key \in Keys, NEW payload \in Entry,
               IsExplained(key, payload)
        PROVE  /\ Outdate(payload, key, change) \in Entry
               /\ IsExplained(key, Outdate(payload, key, change))'
    <2> DEFINE after == Outdate(payload, key, change)
    <2>1. /\ after \in Entry
          /\ after.outdated /\ ~after.excused =>
               \/ payload.outdated /\ ~payload.excused
               \/ Depends(key) \cap change.rows # {} /\ ~Excuse(change, key)
      BY OutdateEffect
    <2> HIDE DEF after
    <2>2. CASE payload.outdated /\ ~payload.excused
      <3>1. \E r \in Requests : request[r].phase = "expiring" /\ Touched(r, key)
        BY <1>2, <2>2 DEF IsExplained
      <3>2. \E r \in Requests : request'[r].phase = "expiring" /\ Touched(r, key)'
        BY <1>1, <3>1 DEF Touched
      <3> QED
        BY <2>1, <3>2 DEF IsExplained, after
    <2>3. CASE Depends(key) \cap change.rows # {} /\ ~Excuse(change, key)
      BY <2>1, <2>3 DEF IsExplained, Touched, after
    <2> QED
      BY <2>1, <2>2, <2>3 DEF IsExplained, after
  <1>3. ASSUME NEW k \in Keys
        PROVE  /\ entry'[k] \in Entry \cup {Nothing}
               /\ entry'[k] # Nothing => IsExplained(k, entry[k])'
    <2>1. CASE entry[k] = Nothing
      BY <2>1 DEF OutdatedEntries
    <2>2. CASE entry[k] # Nothing
      <3>1. entry[k] \in Entry /\ entry'[k] = Outdate(entry[k], k, change)
        BY <1>0, <2>2 DEF OutdatedEntries, PTypes
      <3>2. entry'[k] \in Entry
        BY <3>1, OutdateEffect
      <3>3. IsExplained(k, entry[k])
        BY <1>0, <2>2 DEF OutdatedIsExplained
      <3>4. IsExplained(k, entry[k])'
        BY <1>2, <3>1, <3>3 DEF IsExplained
      <3> QED
        BY <3>2, <3>4
    <2> QED
      BY <2>1, <2>2
  <1>4. ASSUME NEW q \in Requests, request'[q].phase = "computing"
        PROVE  IsExplained(request[q].key, request[q].payload)'
    <2>1. request'[q] = OutdatedRequests(change)[q]
      BY <1>4
    <2>2. request[q].phase = "computing"
      BY <1>4, <2>1 DEF OutdatedRequests
    <2>3. request[q] \in Reading
      BY <1>0, <2>2, PhasesDiffer
    <2>4. /\ request'[q].key = request[q].key
          /\ request'[q].payload = Outdate(request[q].payload, request[q].key, change)
      BY <2>1, <2>2, <2>3 DEF OutdatedRequests, Reading
    <2>5. IsExplained(request[q].key, request[q].payload)
      BY <1>0, <1>4, <2>2, <2>4 DEF OutdatedIsExplained
    <2>6. request[q].key \in Keys /\ request[q].payload \in Entry
      BY <2>3 DEF Reading
    <2> QED
      BY <1>2, <1>4, <2>4, <2>5, <2>6 DEF IsExplained
  <1>5. entry' \in [Keys -> Entry \cup {Nothing}]
    BY <1>3 DEF OutdatedEntries
  <1>6. OutdatedIsExplained'
    BY <1>3, <1>4 DEF OutdatedIsExplained
  <1> QED
    BY <1>5, <1>6 DEF PInv, PTypes

(* What outdating makes of the requests.                                   *)
LEMMA OutdatedRequestsTyped ==
    ASSUME PTypes, NEW change
    PROVE  OutdatedRequests(change) \in [Requests -> {NoRequest} \cup Reading \cup Expiry]
  <1>1. ASSUME NEW q \in Requests, request[q].phase = "computing"
        PROVE  [request[q] EXCEPT !.payload = Outdate(@, request[q].key, change)]
               \in Reading
    <2>1. request[q] \in Reading
      BY <1>1, PhasesDiffer
    <2>2. Outdate(request[q].payload, request[q].key, change) \in Entry
      BY <2>1, OutdateEffect DEF Reading
    <2> QED
      BY <2>1, <2>2 DEF Reading
  <1> QED
    BY <1>1 DEF OutdatedRequests, PTypes

LEMMA ChangePInv ==
    ASSUME PInv, NEW r \in Requests, request[r] = NoRequest, NEW c \in Changes,
           NEW next \in Keys \cup {Nothing}, entry' = OutdatedEntries(c),
           request' = [OutdatedRequests(c) EXCEPT ![r] = Expiring(c.tags, next)]
    PROVE  PInv'
  <1>1. /\ c.tags \subseteq AllKeys
        /\ \A key \in Keys :
             Depends(key) \cap c.rows # {} /\ ~Excuse(c, key) => Tags(key) \cap c.tags # {}
    BY ChangesTouch
  <1>2. /\ Expiring(c.tags, next) \in Expiry /\ Expiring(c.tags, next).phase = "expiring"
        /\ Expiring(c.tags, next).tags = c.tags /\ request[r].phase = "idle"
    BY <1>1, PhrasesAreTyped
  <1>3. OutdatedRequests(c) \in [Requests -> {NoRequest} \cup Reading \cup Expiry]
    BY OutdatedRequestsTyped DEF PInv
  <1> QED
    BY <1>1, <1>2, <1>3, OutdatedPInv

(* No expiry ends, and what is stored or computed is what was stored or    *)
(* computed, or fresh.                                                     *)
LEMMA CarriedPInv ==
    ASSUME PInv, PTypes',
           \A q \in Requests : request[q].phase = "expiring" => request'[q] = request[q],
           \A k \in Keys : \/ entry'[k] \in {Nothing, entry[k]}
                           \/ \E q \in Requests :
                                 /\ request[q].phase = "computing" /\ request[q].key = k
                                 /\ entry'[k] = request[q].payload,
           \A q \in Requests :
               request'[q].phase = "computing"
               => request'[q] = request[q] \/ ~request'[q].payload.outdated
    PROVE  PInv'
  <1>1. ASSUME NEW k \in Keys, entry'[k] # Nothing
        PROVE  IsExplained(k, entry[k])'
    <2>1. CASE entry'[k] = entry[k]
      <3>1. IsExplained(k, entry[k])
        BY <1>1, <2>1 DEF PInv, OutdatedIsExplained
      <3> QED
        BY <2>1, <3>1 DEF IsExplained, Touched
    <2>2. ASSUME NEW q \in Requests, request[q].phase = "computing", request[q].key = k,
                 entry'[k] = request[q].payload
          PROVE  IsExplained(k, entry[k])'
      <3>1. IsExplained(k, request[q].payload)
        BY <2>2 DEF PInv, OutdatedIsExplained
      <3> QED
        BY <2>2, <3>1 DEF IsExplained, Touched
    <2> QED
      BY <1>1, <2>1, <2>2
  <1>2. ASSUME NEW q \in Requests, request'[q].phase = "computing"
        PROVE  IsExplained(request[q].key, request[q].payload)'
    <2>1. CASE request'[q] = request[q]
      <3>1. IsExplained(request[q].key, request[q].payload)
        BY <1>2, <2>1 DEF PInv, OutdatedIsExplained
      <3> QED
        BY <2>1, <3>1 DEF IsExplained, Touched
    <2>2. CASE ~request'[q].payload.outdated
      BY <2>2 DEF IsExplained
    <2> QED
      BY <1>2, <2>1, <2>2
  <1>3. OutdatedIsExplained'
    BY <1>1, <1>2 DEF OutdatedIsExplained
  <1> QED
    BY <1>3 DEF PInv

LEMMA MissPInv ==
    ASSUME PInv, NEW r \in Requests, NEW key \in Keys, Miss(r, key)
    PROVE  PInv'
  <1>1. CASE key = "repositories"
    <2>1. Synced \in Changes
      BY DEF Changes
    <2> QED
      BY <1>1, <2>1, ChangePInv DEF Miss
  <1>2. CASE key # "repositories"
    <2>1. /\ request[r] = NoRequest /\ UNCHANGED entry
          /\ request' = [request EXCEPT ![r] = Computing(key, Fresh)]
      BY <1>2 DEF Miss
    <2>2. /\ Computing(key, Fresh) \in Reading /\ NoRequest.phase = "idle"
          /\ ~Computing(key, Fresh).payload.outdated
      BY PhrasesAreTyped
    <2>3. PTypes'
      BY <2>1, <2>2 DEF PInv, PTypes
    <2>4. \A q \in Requests : request[q].phase = "expiring" => request'[q] = request[q]
      BY <2>1, <2>2
    <2>5. \A q \in Requests : request'[q] = request[q] \/ ~request'[q].payload.outdated
      BY <2>1, <2>2 DEF PInv, PTypes
    <2> QED
      BY <2>1, <2>3, <2>4, <2>5, CarriedPInv
  <1> QED
    BY <1>1, <1>2

LEMMA StorePInv ==
    ASSUME PInv, NEW r \in Requests, StorePayload(r)
    PROVE  PInv'
  <1>1. /\ request[r] \in Reading /\ request[r].phase = "computing"
        /\ entry' \in {entry, [entry EXCEPT ![request[r].key] = request[r].payload]}
        /\ request' = [request EXCEPT ![r] = NoRequest]
    BY PhasesDiffer DEF StorePayload, PInv
  <1>2. request[r].key \in Keys /\ request[r].payload \in Entry
    BY <1>1 DEF Reading
  <1>3. NoRequest.phase = "idle"
    BY PhrasesAreTyped
  <1>4. PTypes'
    BY <1>1, <1>2 DEF PInv, PTypes
  <1>5. \A q \in Requests : request[q].phase = "expiring" => request'[q] = request[q]
    BY <1>1
  <1>6. \A k \in Keys : \/ entry'[k] = entry[k]
                        \/ k = request[r].key /\ entry'[k] = request[r].payload
    BY <1>1, <1>2 DEF PInv, PTypes
  <1>7. \A q \in Requests : request'[q].phase = "computing" => request'[q] = request[q]
    BY <1>1, <1>3 DEF PInv, PTypes
  <1> QED
    BY <1>1, <1>4, <1>5, <1>6, <1>7, CarriedPInv

LEMMA ExecutePInv ==
    ASSUME PInv, NEW r \in Requests, Execute(r)
    PROVE  PInv'
  <1>1. RunTags \subseteq AllKeys
    BY DEF RunTags, AllKeys
  <1>2. /\ Expiring(RunTags, Nothing) \in Expiry /\ Expiring(RunTags, Nothing).phase = "expiring"
        /\ NoRequest.phase = "idle"
    BY <1>1, PhrasesAreTyped
  <1>3. PTypes'
    BY <1>2 DEF Execute, PInv, PTypes
  <1>4. \A q \in Requests : request[q].phase = "expiring" => request'[q] = request[q]
    BY <1>2 DEF Execute
  <1>5. \A q \in Requests : request'[q].phase = "computing" => request'[q] = request[q]
    BY <1>2 DEF Execute, PInv, PTypes
  <1>6. \A k \in Keys : entry'[k] = entry[k]
    BY DEF Execute
  <1> QED
    BY <1>3, <1>4, <1>5, <1>6, CarriedPInv

LEMMA LapsePInv ==
    ASSUME PInv, NEW key \in Keys, Lapse(key)
    PROVE  PInv'
  <1>1. PTypes'
    BY DEF Lapse, PInv, PTypes
  <1>2. \A k \in Keys : entry'[k] \in {Nothing, entry[k]}
    BY DEF Lapse, PInv, PTypes
  <1>3. UNCHANGED request
    BY DEF Lapse
  <1> QED
    BY <1>1, <1>2, <1>3, CarriedPInv

LEMMA QuietPInv ==
    ASSUME PInv, NEW change \in QuietChanges, CommitQuietly(change)
    PROVE  PInv'
  <1>1. OutdatedRequests(change) \in [Requests -> {NoRequest} \cup Reading \cup Expiry]
    BY OutdatedRequestsTyped DEF PInv
  <1>2. \A key : Excuse(change, key)
    BY DEF QuietChanges, Change, Excuse
  <1> QED
    BY <1>1, <1>2, OutdatedPInv DEF CommitQuietly

(* An expiry ends: what it touched is gone or has its excuse, and what it  *)
(* did not touch is explained by another, which goes on.                   *)
LEMMA ExpiryPInv ==
    ASSUME PInv, NEW r \in Requests, request[r].phase = "expiring",
           request' = [Excused(r) EXCEPT ![r] = Continue(r)],
           entry' \in [Keys -> Entry \cup {Nothing}],
           \A k \in Keys : \/ entry'[k] = Nothing \/ entry'[k].excused
                           \/ ~Touched(r, k) /\ entry'[k] = entry[k]
    PROVE  PInv'
  <1>0. PTypes /\ OutdatedIsExplained
    BY DEF PInv
  <1>1. request[r] \in Expiry
    BY <1>0, PhasesDiffer
  <1>2. \/ Continue(r) = NoRequest
        \/ Continue(r) \in Reading /\ ~Continue(r).payload.outdated
    BY <1>1, PhrasesAreTyped DEF Continue, Expiry
  <1>3. ASSUME NEW q \in Requests, request[q].phase = "computing"
        PROVE  LET excused == [request[q] EXCEPT !.payload.excused = TRUE]
               IN  /\ excused \in Reading /\ excused.key = request[q].key
                   /\ excused.payload.excused
    <2>1. request[q] \in Reading
      BY <1>0, <1>3, PhasesDiffer
    <2> QED
      BY <2>1 DEF Reading, Entry
  <1>4. Excused(r) \in [Requests -> {NoRequest} \cup Reading \cup Expiry]
    BY <1>0, <1>3 DEF Excused, PTypes
  <1>5. request' \in [Requests -> {NoRequest} \cup Reading \cup Expiry]
    BY <1>2, <1>4
  <1>6. \A q \in Requests \ {r} : request[q].phase = "expiring" => request'[q] = request[q]
    BY DEF Excused
  <1>7. ASSUME NEW key, NEW payload, IsExplained(key, payload), ~Touched(r, key)
        PROVE  IsExplained(key, payload)'
    BY <1>6, <1>7 DEF IsExplained, Touched
  <1>8. ASSUME NEW k \in Keys, entry'[k] # Nothing
        PROVE  IsExplained(k, entry[k])'
    <2>1. CASE entry'[k].excused
      BY <2>1 DEF IsExplained
    <2>2. CASE ~Touched(r, k) /\ entry'[k] = entry[k]
      <3>1. IsExplained(k, entry[k])
        BY <1>0, <1>8, <2>2 DEF OutdatedIsExplained
      <3> QED
        BY <1>7, <2>2, <3>1 DEF IsExplained
    <2> QED
      BY <1>8, <2>1, <2>2
  <1>9. ASSUME NEW q \in Requests, request'[q].phase = "computing"
        PROVE  IsExplained(request[q].key, request[q].payload)'
    <2>1. CASE q = r
      <3>1. request'[q] = Continue(r)
        BY <1>4, <2>1
      <3>2. ~request'[q].payload.outdated
        BY <1>2, <1>9, <3>1, PhrasesAreTyped
      <3> QED
        BY <3>2 DEF IsExplained
    <2>2. CASE q # r /\ request[q].phase = "computing" /\ Touched(r, request[q].key)
      <3>1. request'[q].payload.excused
        BY <1>3, <2>2 DEF Excused
      <3> QED
        BY <3>1 DEF IsExplained
    <2>3. CASE q # r /\ ~(request[q].phase = "computing" /\ Touched(r, request[q].key))
      <3>1. request'[q] = request[q]
        BY <2>3 DEF Excused
      <3>2. IsExplained(request[q].key, request[q].payload)
        BY <1>0, <1>9, <3>1 DEF OutdatedIsExplained
      <3>3. ~Touched(r, request[q].key)
        BY <1>9, <2>3, <3>1
      <3> QED
        BY <1>7, <3>1, <3>2, <3>3 DEF IsExplained
    <2> QED
      BY <2>1, <2>2, <2>3
  <1>10. OutdatedIsExplained'
    BY <1>8, <1>9 DEF OutdatedIsExplained
  <1> QED
    BY <1>5, <1>10 DEF PInv, PTypes

LEMMA ExpireTagsPInv ==
    ASSUME PInv, NEW r \in Requests, ExpireTags(r)
    PROVE  PInv'
  <1>1. entry' \in [Keys -> Entry \cup {Nothing}]
    BY DEF ExpireTags, PInv, PTypes
  <1>2. \A k \in Keys : \/ entry'[k] = Nothing
                        \/ ~Touched(r, k) /\ entry'[k] = entry[k]
    BY DEF ExpireTags
  <1> QED
    BY <1>1, <1>2, ExpiryPInv DEF ExpireTags

LEMMA ExpireFailsPInv ==
    ASSUME PInv, NEW r \in Requests, ExpireFails(r)
    PROVE  PInv'
  <1>1. ASSUME NEW k \in Keys
        PROVE  /\ entry'[k] \in Entry \cup {Nothing}
               /\ \/ entry'[k] = Nothing \/ entry'[k].excused
                  \/ ~Touched(r, k) /\ entry'[k] = entry[k]
    <2>1. CASE entry[k] # Nothing /\ Touched(r, k)
      <3>1. entry[k] \in Entry /\ entry'[k] = [entry[k] EXCEPT !.excused = TRUE]
        BY <2>1 DEF ExpireFails, PInv, PTypes
      <3> QED
        BY <3>1 DEF Entry
    <2>2. CASE ~(entry[k] # Nothing /\ Touched(r, k))
      BY <2>2 DEF ExpireFails, PInv, PTypes
    <2> QED
      BY <2>1, <2>2
  <1>2. entry' \in [Keys -> Entry \cup {Nothing}]
    BY <1>1 DEF ExpireFails
  <1> QED
    BY <1>1, <1>2, ExpiryPInv DEF ExpireFails

LEMMA NextPInv == PInv /\ [CacheNext]_payloadVars => PInv'
  <1> SUFFICES ASSUME PInv, [CacheNext]_payloadVars PROVE PInv'
    OBVIOUS
  <1>1. ASSUME NEW r \in Requests, NEW k \in Keys, Miss(r, k) PROVE PInv'
    BY <1>1, MissPInv
  <1>2. ASSUME NEW r \in Requests, NEW c \in Changes, CommitChange(r, c) PROVE PInv'
    BY <1>2, ChangePInv DEF CommitChange
  <1>3. ASSUME NEW r \in Requests, Execute(r) PROVE PInv'
    BY <1>3, ExecutePInv
  <1>4. ASSUME NEW r \in Requests, StorePayload(r) PROVE PInv'
    BY <1>4, StorePInv
  <1>5. ASSUME NEW r \in Requests, ExpireTags(r) PROVE PInv'
    BY <1>5, ExpireTagsPInv
  <1>6. ASSUME NEW r \in Requests, ExpireFails(r) PROVE PInv'
    BY <1>6, ExpireFailsPInv
  <1>7. ASSUME NEW change \in QuietChanges, CommitQuietly(change) PROVE PInv'
    BY <1>7, QuietPInv
  <1>8. ASSUME NEW k \in Keys, Lapse(k) PROVE PInv'
    BY <1>8, LapsePInv
  <1>9. CASE UNCHANGED payloadVars
    BY <1>9 DEF payloadVars, PInv, PTypes, OutdatedIsExplained, IsExplained, Touched
  <1> QED
    BY <1>1, <1>2, <1>3, <1>4, <1>5, <1>6, <1>7, <1>8, <1>9 DEF CacheNext, Step

(* However many requests of the two processes overlap, whatever they read, *)
(* change and expire and however storing and expiring fail, a payload that *)
(* does not show the rows is about to be expired, or has an excuse: it was *)
(* being computed when its tags were expired, the cache refused to expire  *)
(* them, the change expires nothing, or it is the dashboard after an       *)
(* update of a gate's configuration, or a repository's page after a        *)
(* synchronisation (runtime_cache and the routes' changes).                *)
THEOREM SoundPayloads == CacheSpec => []PayloadsAreSound
  <1>1. PInv => PayloadsAreSound
    BY DEF PInv, PTypes, PayloadsAreSound, CacheTypeOK, NoRequest, Reading, Expiry
  <1> QED
    BY <1>1, InitPInv, NextPInv, PTL DEF CacheSpec
=============================================================================
