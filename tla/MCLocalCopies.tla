----------------------------- MODULE MCLocalCopies -----------------------------
(* What the program keeps of what is elsewhere, for TLC: the rows of       *)
(* repositories, the installation tokens of a process and the payloads of  *)
(* the read endpoints.  They share nothing, so each is checked by itself:  *)
(* part says what is going on, and the others stay as they were at first.  *)
EXTENDS RepositoryRegistry, InstallationToken, RuntimeCache, TLC

VARIABLE part

copiesVars == <<part, vars, tokenVars, payloadVars>>

\* The payloads are checked in two groups of keys, which overlap.
KeysOf(group) ==
    IF group = "tagged" THEN Keys \ {"repository", "coverage-config"}
    ELSE Keys \cap {"repository", "pull-requests", "coverage-config"}

CopiesInit ==
    /\ Init /\ TokenInit /\ CacheInit
    /\ part \in {"registry", "tokens", "tagged", "untagged"}
    /\ part # "tokens" =>
         \A t \in Threads : held[t].installation = CHOOSE n \in Installations : TRUE

CopiesNext ==
    /\ UNCHANGED part
    /\ \/ part = "registry" /\ Next /\ UNCHANGED <<tokenVars, payloadVars>>
       \/ part = "tokens" /\ TokenNext /\ UNCHANGED <<vars, payloadVars>>
       \/ /\ part \in {"tagged", "untagged"} /\ CacheNext /\ UNCHANGED <<vars, tokenVars>>
          /\ \A r \in Requests : request'[r].phase = "computing" => request'[r].key \in KeysOf(part)
          /\ \A r \in Requests :
               request'[r].phase = "expiring" => request'[r].next \in KeysOf(part) \cup {Nothing}

CopiesSpec == CopiesInit /\ [][CopiesNext]_copiesVars

Symmetry == Permutations(Repos) \cup Permutations(Names) \cup Permutations(Rows)
=============================================================================
