----------------------------- MODULE AuthSession -----------------------------
(***************************************************************************)
(* Signing in and out (auth.rs).  A login leaves a CSRF state in Redis; a  *)
(* callback page posts it back with a code of KOOMPI, which is exchanged   *)
(* for a session: a key in Redis and a cookie in the browser.  KOOMPI, at  *)
(* oauth.koompi.org, is outside this system: it answers a code with the    *)
(* account it was made for, with an answer that names nobody, or not at    *)
(* all.  A session is named by the request that made it: its id is fresh.  *)
(***************************************************************************)
EXTENDS Naturals, FiniteSets

CONSTANTS
  Accounts,    \* accounts of KOOMPI
  Logins,      \* CSRF states given out
  Callbacks,   \* POST /api/auth/token and /dev-seed requests
  Nobody,      \* the id "" of a user KOOMPI's answer did not name
  None,        \* no value
  DevMode,     \* HANUMAN_DEV_MODE
  Faults       \* the failures of the environment that are in scope

AuthFaults == {"redis",   \* a command fails, or its reply is lost
               "koompi",  \* the token is refused, or names nobody
               "expiry"}  \* a key reaches its time to live

ASSUME DevModeAssumption == DevMode \in BOOLEAN
ASSUME NamesAssumption ==
  /\ Nobody \notin Accounts \cup Callbacks
  /\ None \notin Accounts \cup Callbacks \cup Logins \cup {Nobody}
  /\ Accounts \cap Callbacks = {}

VARIABLES
  csrf,        \* hanuman:oauth_state:{state}, for each login
  exchange,    \* where exchange_token is, for each callback
  session,     \* hanuman:session:{id}: the id of the user in it, or None
  refresh,     \* hanuman:session:{id}:refresh is there
  browser      \* the cookie: never set, held, or being logged out

authVars == <<csrf, exchange, session, refresh, browser>>

\* A user of a development session is made for it, with an id of its own.
UserIds == Accounts \cup Callbacks \cup {Nobody}

\* What is known of an exchange: the login whose state it carries, the
\* account that has signed in, and the user id that came out.
Exchange(phase, login, account, user) ==
  [phase |-> phase, login |-> login, account |-> account, user |-> user]

AuthInit ==
  /\ csrf = [l \in Logins |-> "none"]
  /\ exchange = [c \in Callbacks |-> Exchange("none", None, None, None)]
  /\ session = [c \in Callbacks |-> None]
  /\ refresh = [c \in Callbacks |-> FALSE]
  /\ browser = [c \in Callbacks |-> "none"]

-----------------------------------------------------------------------------

\* GET /api/auth/login; when SET fails there is no URL to follow.
Login(l) ==
  /\ csrf[l] = "none"
  /\ csrf' = [csrf EXCEPT ![l] = "stored"]
  /\ UNCHANGED <<exchange, session, refresh, browser>>

\* STATE_TTL_SECS after the login.
StateExpires(l) ==
  /\ "expiry" \in Faults
  /\ csrf[l] = "stored"
  /\ csrf' = [csrf EXCEPT ![l] = "gone"]
  /\ UNCHANGED <<exchange, session, refresh, browser>>

\* The browser comes back from KOOMPI; it may do so twice with one state.
Callback(c, l, a) ==
  /\ exchange[c].phase = "none" /\ csrf[l] # "none"
  /\ exchange' = [exchange EXCEPT ![c] = Exchange("sent", l, a, None)]
  /\ UNCHANGED <<csrf, session, refresh, browser>>

Advance(c, phase) == exchange' = [exchange EXCEPT ![c].phase = phase]

\* Mutant: the state is looked up and left to expire.
Consume_kept(c) ==
  /\ exchange[c].phase = "sent"
  /\ Advance(c, IF csrf[exchange[c].login] = "stored" THEN "consumed" ELSE "refused")
  /\ UNCHANGED <<csrf, session, refresh, browser>>

\* GETDEL of the state.  An error counts as an absent state: the command may
\* have been carried out, and the login is then lost.
Consume(c) ==
  /\ exchange[c].phase = "sent"
  /\ LET l == exchange[c].login
     IN  \/ /\ Advance(c, IF csrf[l] = "stored" THEN "consumed" ELSE "refused")
            /\ csrf' = [csrf EXCEPT ![l] = "gone"]
         \/ /\ "redis" \in Faults
            /\ Advance(c, "refused")
            /\ csrf' \in {csrf, [csrf EXCEPT ![l] = "gone"]}
  /\ UNCHANGED <<session, refresh, browser>>

\* KOOMPI names the account in its answer, or in that of userinfo, whose
\* status is not looked at: an answer without an id names nobody.
Grant(c) ==
  /\ exchange[c].phase = "consumed"
  /\ \E user \in {exchange[c].account}
                   \cup (IF "koompi" \in Faults THEN {Nobody} ELSE {}) :
       exchange' = [exchange EXCEPT ![c].phase = "granted", ![c].user = user]
  /\ UNCHANGED <<csrf, session, refresh, browser>>

\* The request to KOOMPI fails or is answered with an error.
Deny(c) ==
  /\ "koompi" \in Faults
  /\ exchange[c].phase = "consumed"
  /\ Advance(c, "refused")
  /\ UNCHANGED <<csrf, session, refresh, browser>>

\* dev_seed: a user of its own, without a login; the session is stored the
\* same way.
DevSeed(c) ==
  /\ DevMode
  /\ exchange[c].phase = "none"
  /\ exchange' = [exchange EXCEPT ![c] = Exchange("granted", None, c, c)]
  /\ UNCHANGED <<csrf, session, refresh, browser>>

\* SET of the session, then of the refresh token if KOOMPI has sent one,
\* whose error is ignored; the answer sets the cookie.
Establish(c) ==
  /\ exchange[c].phase = "granted"
  /\ Advance(c, "answered")
  /\ session' = [session EXCEPT ![c] = exchange[c].user]
  /\ \/ exchange[c].login # None /\ refresh' = [refresh EXCEPT ![c] = TRUE]
     \/ UNCHANGED refresh
  /\ browser' = [browser EXCEPT ![c] = "held"]
  /\ UNCHANGED csrf

\* The SET fails, or its reply is lost: a session no browser knows.
EstablishFails(c) ==
  /\ "redis" \in Faults
  /\ exchange[c].phase = "granted"
  /\ Advance(c, "refused")
  /\ session' \in {session, [session EXCEPT ![c] = exchange[c].user]}
  /\ UNCHANGED <<csrf, refresh, browser>>

\* SESSION_TTL_SECS: the refresh token, stored later, goes with the session
\* or after it.
SessionExpires(c) ==
  /\ "expiry" \in Faults
  /\ session[c] # None
  /\ session' = [session EXCEPT ![c] = None]
  /\ refresh' \in {refresh, [refresh EXCEPT ![c] = FALSE]}
  /\ UNCHANGED <<csrf, exchange, browser>>

\* logout deletes the two keys one after the other, and answers that it has
\* logged out whatever became of that.
LogoutSession(c) ==
  /\ browser[c] = "held"
  /\ browser' = [browser EXCEPT ![c] = "leaving"]
  /\ \/ session' = [session EXCEPT ![c] = None]
     \/ "redis" \in Faults /\ UNCHANGED session
  /\ UNCHANGED <<csrf, exchange, refresh>>

LogoutRefresh(c) ==
  /\ browser[c] = "leaving"
  /\ browser' = [browser EXCEPT ![c] = "cleared"]
  /\ \/ refresh' = [refresh EXCEPT ![c] = FALSE]
     \/ "redis" \in Faults /\ UNCHANGED refresh
  /\ UNCHANGED <<csrf, exchange, session>>

AuthNext ==
  \/ \E l \in Logins : Login(l) \/ StateExpires(l)
  \/ \E c \in Callbacks, l \in Logins, a \in Accounts : Callback(c, l, a)
  \/ \E c \in Callbacks :
       \/ Consume(c) \/ Grant(c) \/ Deny(c) \/ Establish(c) \/ EstablishFails(c)
       \/ DevSeed(c) \/ SessionExpires(c) \/ LogoutSession(c) \/ LogoutRefresh(c)

-----------------------------------------------------------------------------

\* AuthUser: the user of the session whose cookie a request carries.  A tab
\* may send one while another logs out.
Authenticated(c) == browser[c] \in {"held", "leaving"} /\ session[c] # None

AuthTypeOK ==
  /\ csrf \in [Logins -> {"none", "stored", "gone"}]
  /\ exchange \in [Callbacks ->
       [phase : {"none", "sent", "consumed", "granted", "answered", "refused"},
        login : Logins \cup {None}, account : Accounts \cup Callbacks \cup {None},
        user : UserIds \cup {None}]]
  /\ session \in [Callbacks -> UserIds \cup {None}]
  /\ refresh \in [Callbacks -> BOOLEAN]
  /\ browser \in [Callbacks -> {"none", "held", "leaving", "cleared"}]

\* However many callbacks carry the state of a login, at the same time or one
\* after the other, and whatever replies of Redis are lost, at most one of
\* them comes to a session.
SessionPerLogin ==
  \A c, d \in Callbacks :
    (/\ exchange[c].login = exchange[d].login /\ exchange[c].login # None
     /\ session[c] # None /\ session[d] # None) => c = d

\* A session is the account's that signed in, or one of the user "" all
\* share whom KOOMPI did not name.
SessionOfAccount ==
  \A c \in Callbacks : session[c] \in {None, Nobody, exchange[c].account}

=============================================================================
