--------------------------- MODULE InstallationToken ---------------------------
(***************************************************************************)
(* The tokens of installations in one process: a cache that every thread   *)
(* reads and writes without a lock, filled by a request to GitHub.  A      *)
(* thread keeps what it got for all the calls it makes: the few of a       *)
(* request, or both downloads of an execution, with the repository's       *)
(* commands between them.  Times are what is left of a token's life.       *)
(***************************************************************************)
EXTENDS Naturals

CONSTANTS
    Installations, Threads,
    Lifetime,    \* of a token, by GitHub
    Margin,      \* a cached token is given out while more than this is left
    CallTime,    \* the time a request takes, once it has its token
    CommandTime, \* the time a revision's commands take
    Skew         \* how far the host's clock is behind GitHub's

ASSUME TokenAssumption ==
    /\ {Lifetime, Margin, CallTime, CommandTime, Skew} \subseteq Nat
    /\ CallTime + Skew <= Margin /\ Margin < Lifetime

VARIABLES
    cache, \* INSTALLATION_TOKEN_CACHE: what is left, 0 for none
    held   \* what each thread does, with its token

tokenVars == <<cache, held>>

Works == {"request", "execution"}
(* left: of the token in hand; age: since GitHub made it, or since it was  *)
(* taken from the cache; downloads: of the execution.                      *)
Thread == [step : {"idle", "posting", "storing", "using"}, work : Works,
           installation : Installations, left : 0..Lifetime,
           age : 0..(CallTime + CommandTime), downloads : 0..2]

TokenTypeOK ==
    /\ cache \in [Installations -> 0..Lifetime]
    /\ held \in [Threads -> Thread]
    /\ \A t \in Threads : held[t].work = "request" => held[t].age <= CallTime

TokenInit ==
    /\ cache = [i \in Installations |-> 0]
    /\ held \in [Threads -> {h \in Thread : h.step = "idle" /\ h.work = "request"
                                /\ h.left = 0 /\ h.age = 0 /\ h.downloads = 0}]

-----------------------------------------------------------------------------
AtRest(h) == [step |-> "idle", work |-> "request", installation |-> h.installation,
              left |-> 0, age |-> 0, downloads |-> 0]

(* Mutant of IsUsable: a token that has not expired will do.               *)
IsUnexpired(i) == cache[i] + Skew > 0
IsUsable(i) == cache[i] + Skew > Margin

(* generate_installation_token, up to the request.                         *)
Ask(t, i, work) ==
    /\ held[t].step = "idle"
    /\ held' = [held EXCEPT ![t] =
                  [step |-> IF IsUsable(i) THEN "using" ELSE "posting", work |-> work,
                   installation |-> i, left |-> IF IsUsable(i) THEN cache[i] ELSE 0,
                   age |-> 0, downloads |-> 0]]
    /\ UNCHANGED cache

(* GitHub makes a token, and sends it or not.                              *)
Mint(t) ==
    /\ held[t].step = "posting"
    /\ \/ held' = [held EXCEPT ![t].step = "storing", ![t].left = Lifetime]
       \/ held' = [held EXCEPT ![t] = AtRest(@)]
    /\ UNCHANGED cache

(* The last thread that stores wins, whatever is there.                    *)
Store(t) ==
    /\ held[t].step = "storing"
    /\ cache' = [cache EXCEPT ![held[t].installation] = held[t].left]
    /\ held' = [held EXCEPT ![t].step = "using"]

(* An archive of an execution: the head's first, the base's after the      *)
(* head's commands.                                                        *)
Download(t) ==
    /\ held[t].step = "using" /\ held[t].work = "execution" /\ held[t].downloads < 2
    /\ held[t].downloads = 0 => held[t].age <= CallTime
    /\ held' = [held EXCEPT ![t].downloads = @ + 1]
    /\ UNCHANGED cache

(* The calls of a request change nothing here; the work is done or failed.  *)
Finish(t) ==
    /\ held[t].step = "using"
    /\ held' = [held EXCEPT ![t] = AtRest(@)]
    /\ UNCHANGED cache

Restart ==
    /\ cache' = [i \in Installations |-> 0]
    /\ held' = [t \in Threads |-> AtRest(held[t])]

Less(n) == IF n = 0 THEN 0 ELSE n - 1
(* What a thread may still take before its next step.                      *)
TimeFor(h) ==
    IF h.work = "execution" /\ h.step = "using" /\ h.downloads > 0
    THEN CallTime + CommandTime ELSE CallTime

Tick ==
    /\ \A t \in Threads : held[t].step \in {"storing", "using"} => held[t].age < TimeFor(held[t])
    /\ cache' = [i \in Installations |-> Less(cache[i])]
    /\ held' = [t \in Threads |->
                  IF held[t].step \in {"storing", "using"}
                  THEN [held[t] EXCEPT !.left = Less(@), !.age = @ + 1] ELSE held[t]]

TokenNext ==
    \/ Restart \/ Tick
    \/ \E t \in Threads :
         \/ \E i \in Installations, work \in Works : Ask(t, i, work)
         \/ Mint(t) \/ Store(t) \/ Download(t) \/ Finish(t)

TokenSpec == TokenInit /\ [][TokenNext]_tokenVars

-----------------------------------------------------------------------------
(* Properties                                                              *)

(* Whichever thread filled the cache, and however long it was kept: a      *)
(* request has a token that GitHub still takes until its last call, and    *)
(* so has an execution for its first download.                             *)
TokensOutliveRequests ==
    \A t \in Threads :
        held[t].step = "using" /\ (held[t].work = "execution" => held[t].downloads = 0)
        => held[t].left > 0
=============================================================================
