----------------------------- MODULE LoginSession -----------------------------
(***************************************************************************)
(* Signing in with GitHub and what a session allows.  A callback checks    *)
(* its OAuth state, asks GitHub who signs in, consumes the state, writes   *)
(* the user with the connection, synchronises and creates the session, in  *)
(* four transactions with HTTP calls before and between them.  A session   *)
(* ends by logout or by the clock; a request that changes something first  *)
(* passes the CSRF check and then authenticates, each with a look of its   *)
(* own at the session row.                                                 *)
(***************************************************************************)
EXTENDS Naturals, Sequences, FiniteSets

CONSTANTS
    Callbacks, Requests,  \* handlers of callbacks; of requests with a session
    States, Accounts, Logins,
    NoState, NoAccount, NoLogin,
    StateTTL, SessionTTL,
    MaxTime,        \* bound of the clock
    MaxSessions,    \* bound: sessions
    MaxPerformed,   \* bound: requests that were let through
    MaxRenames,     \* bound: accounts that change their login on GitHub
    MaxFailed     \* bound: callbacks that fail

LoginAssumption ==
    /\ NoState \notin States /\ NoAccount \notin Accounts /\ NoLogin \notin Logins
    /\ {StateTTL, SessionTTL, MaxTime, MaxSessions, MaxPerformed, MaxRenames,
        MaxFailed} \subseteq Nat

VARIABLES
    clock,
    login,       \* GitHub: the login of each account
    state,       \* the rows of OAuthState
    user,        \* the login stored for each account, NoLogin without a row
    connections, \* how many GitHubConnection rows each account has
    sessions,    \* the rows of UserSession, in the order they were created
    callback, request,
    performed,   \* history: the requests that were let through
    renames, failed

naming == <<login, renames>>
identity == <<user, connections>>
loginVars == <<clock, naming, state, identity, sessions, callback, request,
               performed, failed>>

State == [kind : {"absent", "open", "consumed", "deleted"}, expires : Nat]
(* state: history, the OAuth state that paid for the session; over:        *)
(* history, somebody logged out with the session's token.                  *)
Session == [account : Accounts, state : States, expires : Nat, revoked : BOOLEAN,
            over : BOOLEAN]

(* name, known: the login GitHub reported and whether the user was found.  *)
Callback == [step : {"idle", "exchange", "consume", "upsert", "write", "sync", "session"},
             state : States \cup {NoState}, account : Accounts \cup {NoAccount},
             name : Logins \cup {NoLogin}, known : BOOLEAN]
IdleCallback == [step |-> "idle", state |-> NoState, account |-> NoAccount,
                 name |-> NoLogin, known |-> FALSE]

(* token: the CSRF header, the CSRF cookie and the session agree; late:    *)
(* history, the session was over when the request arrived.                 *)
Request == [step : {"idle", "csrf", "authenticate", "logout"},
            kind : {"none", "change", "logout"}, session : Nat, token : BOOLEAN,
            late : BOOLEAN]
IdleRequest == [step |-> "idle", kind |-> "none", session |-> 0, token |-> FALSE,
                late |-> FALSE]

LoginTypeOK ==
    /\ clock \in 0..MaxTime
    /\ login \in [Accounts -> Logins]
    /\ state \in [States -> State]
    /\ user \in [Accounts -> Logins \cup {NoLogin}]
    /\ connections \in [Accounts -> Nat]
    /\ sessions \in Seq(Session)
    /\ callback \in [Callbacks -> Callback] /\ request \in [Requests -> Request]
    /\ performed \subseteq Request
    /\ renames \in 0..MaxRenames /\ failed \in 0..MaxFailed

LoginInit ==
    /\ clock = 0
    /\ login \in {f \in [Accounts -> Logins] : \A a, b \in Accounts : a # b => f[a] # f[b]}
    /\ state = [s \in States |-> [kind |-> "absent", expires |-> 0]]
    /\ user = [a \in Accounts |-> NoLogin]
    /\ connections = [a \in Accounts |-> 0]
    /\ sessions = <<>>
    /\ callback = [c \in Callbacks |-> IdleCallback]
    /\ request = [q \in Requests |-> IdleRequest]
    /\ performed = {}
    /\ renames = 0 /\ failed = 0

Tick ==
    /\ clock < MaxTime
    /\ clock' = clock + 1
    /\ UNCHANGED <<naming, state, identity, sessions, callback, request, performed, failed>>

Rename(a) ==
    /\ renames < MaxRenames
    /\ renames' = renames + 1
    /\ \E l \in Logins \ {login[b] : b \in Accounts} : login' = [login EXCEPT ![a] = l]
    /\ UNCHANGED <<clock, state, identity, sessions, callback, request, performed, failed>>

-----------------------------------------------------------------------------
(* Signing in                                                              *)

(* create_oauth_state: expired rows are deleted, consumed or not.          *)
CreateState(s) ==
    /\ state[s].kind = "absent"
    /\ state' = [t \in States |->
           IF t = s THEN [kind |-> "open", expires |-> clock + StateTTL]
           ELSE IF state[t].kind # "absent" /\ state[t].expires <= clock
                THEN [state[t] EXCEPT !.kind = "deleted"] ELSE state[t]]
    /\ UNCHANGED <<clock, naming, identity, sessions, callback, request, performed, failed>>

(* The condition of _oauth_state_is_valid and of consume_oauth_state.      *)
Consumable(s) == state[s].kind = "open" /\ state[s].expires > clock

At(c, step) == callback[c].step = step
Goto(c, step) == callback' = [callback EXCEPT ![c].step = step]
Refuse(c) == callback' = [callback EXCEPT ![c] = IdleCallback]

ReceiveCallback(c, s) ==
    /\ At(c, "idle") /\ Consumable(s)
    /\ callback' = [callback EXCEPT ![c].step = "exchange", ![c].state = s]
    /\ UNCHANGED <<clock, naming, state, identity, sessions, request, performed, failed>>

(* The code is exchanged and GET /user answers.                            *)
Identify(c) ==
    /\ At(c, "exchange")
    /\ \E a \in Accounts : callback' = [callback EXCEPT
           ![c].step = "consume", ![c].account = a, ![c].name = login[a]]
    /\ UNCHANGED <<clock, naming, state, identity, sessions, request, performed, failed>>

(* Mutant of Consume: the answer of the check before the calls is trusted. *)
ConsumeUnchecked(c) ==
    /\ state' = [state EXCEPT ![callback[c].state].kind = "consumed"]
    /\ Goto(c, "upsert")
(* consume_oauth_state, one conditional update.                            *)
Consume(c) ==
    IF Consumable(callback[c].state)
    THEN /\ state' = [state EXCEPT ![callback[c].state].kind = "consumed"]
         /\ Goto(c, "upsert")
    ELSE UNCHANGED state /\ Refuse(c)

ConsumeState(c) ==
    /\ At(c, "consume") /\ Consume(c)
    /\ UNCHANGED <<clock, naming, identity, sessions, request, performed, failed>>

FindUser(c) ==
    /\ At(c, "upsert")
    /\ callback' = [callback EXCEPT
           ![c].step = "write", ![c].known = user[callback[c].account] # NoLogin]
    /\ UNCHANGED <<clock, naming, state, identity, sessions, request, performed, failed>>

(* Mutant of Conflict: the account of a user is not unique.                *)
ConflictOfLogins(c) ==
    \E b \in Accounts \ {callback[c].account} : user[b] = callback[c].name
(* The unique account and the unique login of a user row.                  *)
Conflict(c) ==
    \/ ~callback[c].known /\ user[callback[c].account] # NoLogin
    \/ \E b \in Accounts \ {callback[c].account} : user[b] = callback[c].name

(* upsert_user_from_github: the flush writes the user, or fails; a         *)
(* connection is added to a user found without one.                        *)
WriteUser(c) ==
    LET a == callback[c].account
    IN /\ At(c, "write")
       /\ IF Conflict(c)
          THEN UNCHANGED identity /\ Refuse(c)
          ELSE /\ user' = [user EXCEPT ![a] = callback[c].name]
               /\ connections' = [connections EXCEPT ![a] =
                      IF callback[c].known THEN IF @ = 0 THEN 1 ELSE @ ELSE @ + 1]
               /\ Goto(c, "sync")
       /\ UNCHANGED <<clock, naming, state, sessions, request, performed, failed>>

(* sync_user_installations, see InstallationSync.                          *)
Synchronise(c) ==
    /\ At(c, "sync") /\ Goto(c, "session")
    /\ UNCHANGED <<clock, naming, state, identity, sessions, request, performed, failed>>

CreateSession(c) ==
    /\ At(c, "session")
    /\ sessions' = Append(sessions,
           [account |-> callback[c].account, state |-> callback[c].state,
            expires |-> clock + SessionTTL, revoked |-> FALSE, over |-> FALSE])
    /\ Len(sessions) < MaxSessions
    /\ Refuse(c)
    /\ UNCHANGED <<clock, naming, state, identity, request, performed, failed>>

(* A call to GitHub or the process fails.                                  *)
FailCallback(c) ==
    /\ ~At(c, "idle") /\ failed < MaxFailed
    /\ failed' = failed + 1
    /\ Refuse(c)
    /\ UNCHANGED <<clock, naming, state, identity, sessions, request, performed>>

-----------------------------------------------------------------------------
(* Requests                                                                *)

(* _session_record_is_active.                                              *)
Active(n) == ~sessions[n].revoked /\ sessions[n].expires > clock

RequestArrives(q, n, kind, token) ==
    /\ request[q].step = "idle"
    /\ request' = [request EXCEPT ![q] =
           [step |-> "csrf", kind |-> kind, session |-> n, token |-> token,
            late |-> sessions[n].over \/ sessions[n].expires <= clock]]
    /\ UNCHANGED <<clock, naming, state, identity, sessions, callback, performed, failed>>

(* Mutant of RefusesToken: an ended session is checked, an active one not. *)
RefusesTokenOfEnded(q) == ~Active(request[q].session) /\ ~request[q].token
(* require_csrf_token lets a request without an active session through:    *)
(* the authentication after it refuses.                                    *)
RefusesToken(q) == Active(request[q].session) /\ ~request[q].token

CheckToken(q) ==
    /\ request[q].step = "csrf"
    /\ request' = [request EXCEPT ![q] =
           IF RefusesToken(q) THEN IdleRequest
           ELSE [@ EXCEPT !.step = IF request[q].kind = "logout"
                                   THEN "logout" ELSE "authenticate"]]
    /\ UNCHANGED <<clock, naming, state, identity, sessions, callback, performed, failed>>

(* get_current_user, and what the route does for the user.                 *)
Authenticate(q) ==
    /\ request[q].step = "authenticate"
    /\ request' = [request EXCEPT ![q] = IdleRequest]
    /\ IF Active(request[q].session)
       THEN /\ Cardinality(performed) < MaxPerformed
            /\ performed' = performed \cup {request[q]}
       ELSE UNCHANGED performed
    /\ UNCHANGED <<clock, naming, state, identity, sessions, callback, failed>>

(* revoke_session; the route does not authenticate, but an expired cookie  *)
(* is not decoded.                                                         *)
Logout(q) ==
    LET n == request[q].session
    IN /\ request[q].step = "logout"
       /\ sessions' = IF sessions[n].expires > clock
                      THEN [sessions EXCEPT ![n].revoked = TRUE,
                                            ![n].over = @ \/ request[q].token]
                      ELSE sessions
       /\ request' = [request EXCEPT ![q] = IdleRequest]
       /\ UNCHANGED <<clock, naming, state, identity, callback, performed, failed>>

-----------------------------------------------------------------------------
CallbackStep(c) ==
    \/ Identify(c) \/ ConsumeState(c) \/ FindUser(c) \/ WriteUser(c)
    \/ Synchronise(c) \/ CreateSession(c)

LoginNext ==
    \/ Tick
    \/ \E a \in Accounts : Rename(a)
    \/ \E s \in States : CreateState(s)
    \/ \E c \in Callbacks :
          \/ \E s \in States : ReceiveCallback(c, s)
          \/ CallbackStep(c) \/ FailCallback(c)
    \/ \E q \in Requests :
          \/ \E n \in DOMAIN sessions, kind \in {"change", "logout"}, token \in BOOLEAN :
                RequestArrives(q, n, kind, token)
          \/ CheckToken(q) \/ Authenticate(q) \/ Logout(q)

LoginSpec == LoginInit /\ [][LoginNext]_loginVars

-----------------------------------------------------------------------------
(* Properties                                                              *)

(* The callbacks and sessions an OAuth state has paid for.                 *)
LoginsBy(s) ==
    {<<"session", n>> : n \in {m \in DOMAIN sessions : sessions[m].state = s}}
    \cup {<<"callback", c>> : c \in {d \in Callbacks :
             /\ callback[d].state = s
             /\ callback[d].step \in {"upsert", "write", "sync", "session"}}}

(* An OAuth state admits one login, although any number of callbacks may   *)
(* pass the first check of it and expired rows are deleted meanwhile, and  *)
(* a login that failed after the state was consumed does not free it.      *)
StateAdmitsOneLogin ==
    \A s \in States :
        /\ Cardinality(LoginsBy(s)) <= 1
        /\ LoginsBy(s) # {} => state[s].kind \in {"consumed", "deleted"}

(* However many callbacks sign an account in at once, it has one user and  *)
(* one connection, every session has both, and no two users have a login.  *)
IdentityIsUnique ==
    /\ \A a \in Accounts : connections[a] = IF user[a] = NoLogin THEN 0 ELSE 1
    /\ \A n \in DOMAIN sessions : user[sessions[n].account] # NoLogin
    /\ \A a, b \in Accounts : a # b /\ user[a] # NoLogin => user[a] # user[b]

(* No change is made for a request without the session's CSRF token, and   *)
(* none for a session that had ended when the request arrived; and a       *)
(* session is revoked only by a logout with its token.  The CSRF check     *)
(* lets every request with an ended session through, so this rests on a    *)
(* session not becoming active between the two looks at it.                *)
ChangesAreAuthorised ==
    /\ \A q \in performed : q.token /\ ~q.late
    /\ \A n \in DOMAIN sessions : sessions[n].revoked => sessions[n].over

(* Logins and sessions are sound, whatever races or fails.                 *)
LoginsAreSound ==
    LoginTypeOK /\ StateAdmitsOneLogin /\ IdentityIsUnique /\ ChangesAreAuthorised
=============================================================================
