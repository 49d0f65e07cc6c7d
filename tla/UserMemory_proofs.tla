-------------------------- MODULE UserMemory_proofs --------------------------
(***************************************************************************)
(* Sessions and memories, for every set of accounts, logins, callbacks and *)
(* requests, every limit and every set of faults.                          *)
(***************************************************************************)
EXTENDS UserMemory, FiniteSetTheorems, FunctionTheorems, TLAPS

-----------------------------------------------------------------------------
(* Sessions.                                                               *)

\* An exchange that has got past the state of its login, and has not been
\* refused without leaving a session.
Won(c) ==
  \/ exchange[c].phase \in {"consumed", "granted", "answered"}
  \/ session[c] # None

\* The state of a login is gone when an exchange has got past it, and no other
\* has: what SessionPerLogin says of sessions must hold of the exchanges that
\* are about to make one.
OneWinner ==
  /\ \A c \in Callbacks :
       /\ Won(c) /\ exchange[c].login # None => csrf[exchange[c].login] = "gone"
       /\ exchange[c].phase = "sent" => exchange[c].login \in Logins
       /\ session[c] # None => exchange[c].phase \in {"answered", "refused"}
  /\ \A c, d \in Callbacks :
       (/\ exchange[c].login = exchange[d].login /\ exchange[c].login # None
        /\ Won(c) /\ Won(d)) => c = d

\* Whose a session is, or will be.
OwnSession ==
  /\ SessionOfAccount
  /\ \A c \in Callbacks :
       /\ exchange[c].user \in {None, Nobody, exchange[c].account}
       /\ exchange[c].phase = "granted" => exchange[c].user # None
       /\ exchange[c].phase # "none" => exchange[c].account \in Accounts \cup Callbacks

SessionInv == AuthTypeOK /\ OneWinner /\ OwnSession

LEMMA SessionInit == AuthInit => SessionInv
<1> SUFFICES ASSUME AuthInit PROVE SessionInv
  OBVIOUS
<1> USE NamesAssumption DEF AuthInit, Exchange
<1>1. AuthTypeOK
  BY DEF AuthTypeOK, UserIds
<1>2. OneWinner
  BY DEF OneWinner, Won
<1>3. OwnSession
  BY DEF OwnSession, SessionOfAccount
<1> QED
  BY <1>1, <1>2, <1>3 DEF SessionInv

LEMMA AuthTypeStep ==
  ASSUME AuthTypeOK, AuthNext \/ UNCHANGED authVars PROVE AuthTypeOK'
<1> USE NamesAssumption DEF AuthTypeOK, UserIds, authVars
<1>1. ASSUME NEW l \in Logins, Login(l) PROVE AuthTypeOK'
  BY <1>1 DEF Login
<1>2. ASSUME NEW l \in Logins, StateExpires(l) PROVE AuthTypeOK'
  BY <1>2 DEF StateExpires
<1>3. ASSUME NEW c \in Callbacks, NEW l \in Logins, NEW a \in Accounts, Callback(c, l, a) PROVE AuthTypeOK'
  BY <1>3 DEF Callback, Exchange
<1>4. ASSUME NEW c \in Callbacks, Consume(c) PROVE AuthTypeOK'
  BY <1>4 DEF Consume, Advance
<1>5. ASSUME NEW c \in Callbacks, Grant(c) PROVE AuthTypeOK'
  <2>1. PICK user \in {exchange[c].account, Nobody} :
          exchange' = [exchange EXCEPT ![c].phase = "granted", ![c].user = user]
    BY <1>5, Zenon DEF Grant
  <2>2. exchange[c].account \in UserIds \cup {None}
    OBVIOUS
  <2>3. user \in UserIds \cup {None}
    BY <2>2
  <2>4. UNCHANGED <<csrf, session, refresh, browser>>
    BY <1>5 DEF Grant
  <2>5. exchange' = [exchange EXCEPT ![c] =
                       [exchange[c] EXCEPT !.phase = "granted", !.user = user]]
    BY <2>1
  <2> DEFINE E == [phase : {"none", "sent", "consumed", "granted", "answered", "refused"},
                   login : Logins \cup {None},
                   account : Accounts \cup Callbacks \cup {None},
                   user : UserIds \cup {None}]
  <2>6. \A e \in E, u \in UserIds \cup {None} :
          [e EXCEPT !.phase = "granted", !.user = u] \in E
    OBVIOUS
  <2>7. exchange \in [Callbacks -> E]
    OBVIOUS
  <2> HIDE DEF E
  <2>8. exchange' \in [Callbacks -> E]
    BY <2>3, <2>5, <2>6, <2>7
  <2> QED
    BY <2>4, <2>8 DEF E
<1>6. ASSUME NEW c \in Callbacks, Deny(c) PROVE AuthTypeOK'
  BY <1>6 DEF Deny, Advance
<1>7. ASSUME NEW c \in Callbacks, DevSeed(c) PROVE AuthTypeOK'
  BY <1>7 DEF DevSeed, Exchange
<1>8. ASSUME NEW c \in Callbacks, Establish(c) PROVE AuthTypeOK'
  <2>1. refresh' \in [Callbacks -> BOOLEAN]
    <3>1. refresh' = refresh \/ refresh' = [refresh EXCEPT ![c] = TRUE]
      BY <1>8 DEF Establish
    <3>2. refresh \in [Callbacks -> BOOLEAN]
      OBVIOUS
    <3> QED
      BY <3>1, <3>2, Zenon
  <2>2. exchange[c].user \in UserIds \cup {None}
    OBVIOUS
  <2>3. session' \in [Callbacks -> UserIds \cup {None}]
    BY <1>8, <2>2 DEF Establish
  <2>4. exchange' = [exchange EXCEPT ![c].phase = "answered"]
    BY <1>8 DEF Establish, Advance
  <2>5. browser' = [browser EXCEPT ![c] = "held"] /\ csrf' = csrf
    BY <1>8 DEF Establish
  <2> QED
    BY <2>1, <2>3, <2>4, <2>5
<1>9. ASSUME NEW c \in Callbacks, EstablishFails(c) PROVE AuthTypeOK'
  BY <1>9 DEF EstablishFails, Advance
<1>10. ASSUME NEW c \in Callbacks, SessionExpires(c) PROVE AuthTypeOK'
  BY <1>10 DEF SessionExpires
<1>11. ASSUME NEW c \in Callbacks, LogoutSession(c) PROVE AuthTypeOK'
  BY <1>11 DEF LogoutSession
<1>12. ASSUME NEW c \in Callbacks, LogoutRefresh(c) PROVE AuthTypeOK'
  BY <1>12 DEF LogoutRefresh
<1>13. CASE UNCHANGED authVars
  BY <1>13
<1> QED
  BY <1>1, <1>2, <1>3, <1>4, <1>5, <1>6, <1>7, <1>8, <1>9, <1>10, <1>11,
     <1>12, <1>13 DEF AuthNext

LEMMA WinnerStep ==
  ASSUME AuthTypeOK, OneWinner, AuthNext \/ UNCHANGED authVars PROVE OneWinner'
<1> USE NamesAssumption DEF AuthTypeOK, UserIds, OneWinner, Won, authVars
<1>1. ASSUME NEW l \in Logins, Login(l) PROVE OneWinner'
  BY <1>1 DEF Login
<1>2. ASSUME NEW l \in Logins, StateExpires(l) PROVE OneWinner'
  BY <1>2 DEF StateExpires
<1>3. ASSUME NEW c \in Callbacks, NEW l \in Logins, NEW a \in Accounts, Callback(c, l, a) PROVE OneWinner'
  BY <1>3 DEF Callback, Exchange
<1>4. ASSUME NEW c \in Callbacks, Consume(c) PROVE OneWinner'
  BY <1>4 DEF Consume, Advance
<1>5. ASSUME NEW c \in Callbacks, Grant(c) PROVE OneWinner'
  BY <1>5 DEF Grant
<1>6. ASSUME NEW c \in Callbacks, Deny(c) PROVE OneWinner'
  BY <1>6 DEF Deny, Advance
<1>7. ASSUME NEW c \in Callbacks, DevSeed(c) PROVE OneWinner'
  BY <1>7 DEF DevSeed, Exchange
<1>8. ASSUME NEW c \in Callbacks, Establish(c) PROVE OneWinner'
  BY <1>8 DEF Establish, Advance
<1>9. ASSUME NEW c \in Callbacks, EstablishFails(c) PROVE OneWinner'
  BY <1>9 DEF EstablishFails, Advance
<1>10. ASSUME NEW c \in Callbacks, SessionExpires(c) PROVE OneWinner'
  BY <1>10 DEF SessionExpires
<1>11. ASSUME NEW c \in Callbacks, LogoutSession(c) PROVE OneWinner'
  BY <1>11 DEF LogoutSession
<1>12. ASSUME NEW c \in Callbacks, LogoutRefresh(c) PROVE OneWinner'
  BY <1>12 DEF LogoutRefresh
<1>13. CASE UNCHANGED authVars
  BY <1>13
<1> QED
  BY <1>1, <1>2, <1>3, <1>4, <1>5, <1>6, <1>7, <1>8, <1>9, <1>10, <1>11,
     <1>12, <1>13 DEF AuthNext

LEMMA OwnSessionStep ==
  ASSUME AuthTypeOK, OneWinner, OwnSession, AuthNext \/ UNCHANGED authVars
  PROVE  OwnSession'
<1> USE NamesAssumption
    DEF AuthTypeOK, UserIds, OwnSession, SessionOfAccount, authVars
<1>1. ASSUME NEW l \in Logins, Login(l) PROVE OwnSession'
  BY <1>1 DEF Login
<1>2. ASSUME NEW l \in Logins, StateExpires(l) PROVE OwnSession'
  BY <1>2 DEF StateExpires
<1>3. ASSUME NEW c \in Callbacks, NEW l \in Logins, NEW a \in Accounts, Callback(c, l, a) PROVE OwnSession'
  BY <1>3 DEF Callback, Exchange, OneWinner, Won
<1>4. ASSUME NEW c \in Callbacks, Consume(c) PROVE OwnSession'
  <2>1. PICK p \in {"consumed", "refused"} :
          exchange' = [exchange EXCEPT ![c].phase = p]
    BY <1>4 DEF Consume, Advance
  <2>2. UNCHANGED session /\ exchange[c].phase = "sent"
    BY <1>4 DEF Consume
  <2> QED
    BY <2>1, <2>2
<1>5. ASSUME NEW c \in Callbacks, Grant(c) PROVE OwnSession'
  BY <1>5 DEF Grant
<1>6. ASSUME NEW c \in Callbacks, Deny(c) PROVE OwnSession'
  BY <1>6 DEF Deny, Advance
<1>7. ASSUME NEW c \in Callbacks, DevSeed(c) PROVE OwnSession'
  BY <1>7 DEF DevSeed, Exchange, OneWinner, Won
<1>8. ASSUME NEW c \in Callbacks, Establish(c) PROVE OwnSession'
  BY <1>8 DEF Establish, Advance
<1>9. ASSUME NEW c \in Callbacks, EstablishFails(c) PROVE OwnSession'
  BY <1>9 DEF EstablishFails, Advance
<1>10. ASSUME NEW c \in Callbacks, SessionExpires(c) PROVE OwnSession'
  BY <1>10 DEF SessionExpires
<1>11. ASSUME NEW c \in Callbacks, LogoutSession(c) PROVE OwnSession'
  BY <1>11 DEF LogoutSession
<1>12. ASSUME NEW c \in Callbacks, LogoutRefresh(c) PROVE OwnSession'
  BY <1>12 DEF LogoutRefresh
<1>13. CASE UNCHANGED authVars
  BY <1>13
<1> QED
  BY <1>1, <1>2, <1>3, <1>4, <1>5, <1>6, <1>7, <1>8, <1>9, <1>10, <1>11,
     <1>12, <1>13 DEF AuthNext

LEMMA SessionStep ==
  ASSUME SessionInv, AuthNext \/ UNCHANGED authVars PROVE SessionInv'
BY AuthTypeStep, WinnerStep, OwnSessionStep DEF SessionInv

-----------------------------------------------------------------------------
(* Memories.                                                               *)

\* A request acts for the account of its session, or for the user "".
OwnJob ==
  \A r \in Requests :
    job[r].phase # "none" =>
      /\ job[r].account \in Accounts \cup Callbacks
      /\ job[r].user \in {Nobody, job[r].account}

MemoryTypeOK ==
  /\ memory \subseteq Rows
  /\ now \in Nat
  /\ job \in [Requests -> Jobs]

IInv == SessionInv /\ MemoryTypeOK /\ OwnJob /\ OwnMemory

LEMMA InitHolds == Init => IInv
<1> SUFFICES ASSUME Init PROVE IInv
  OBVIOUS
<1>1. SessionInv
  BY SessionInit DEF Init
<1>2. MemoryTypeOK
  BY DEF Init, MemoryTypeOK, Jobs
<1>3. OwnJob /\ OwnMemory
  BY NamesAssumption DEF Init, OwnJob, OwnMemory
<1> QED
  BY <1>1, <1>2, <1>3 DEF IInv

LEMMA SetJob ==
  ASSUME NEW r \in Requests, NEW j \in Jobs, MemoryTypeOK,
         job' = [job EXCEPT ![r] = j]
  PROVE  job' \in [Requests -> Jobs]
BY DEF MemoryTypeOK

\* Changing one field of a job.
LEMMA JobFields ==
  ASSUME NEW j \in Jobs
  PROVE  /\ \A p \in {"accepted", "running", "storing", "over", "abandoned"} :
              [j EXCEPT !.phase = p] \in Jobs
         /\ \A items \in Seq(Keys \cup {None}) : [j EXCEPT !.items = items] \in Jobs
         /\ \A stored \in SUBSET Keys : [j EXCEPT !.stored = stored] \in Jobs
         /\ \A context \in SUBSET (Accounts \cup Callbacks) :
              [j EXCEPT !.context = context] \in Jobs
BY DEF Jobs

\* What an upsert leaves is rows.
LEMMA UpsertRows ==
  ASSUME MemoryTypeOK, NEW user \in UserIds, NEW account \in Accounts \cup Callbacks,
         NEW key \in Keys, now' = now + 1
  PROVE  Upsert(user, account, key) \subseteq Rows
<1> DEFINE old == RowsAt(user, key)
           count == IF old = {} THEN 1 ELSE 1 + (CHOOSE row \in old : TRUE).access_count
<1>1. old \subseteq Rows
  BY DEF MemoryTypeOK, RowsAt
<1>2. count \in Nat \ {0}
  <2>1. CASE old = {}
    BY <2>1
  <2>2. CASE old # {}
    <3>1. (CHOOSE row \in old : TRUE) \in Rows
      BY <1>1, <2>2
    <3>2. (CHOOSE row \in old : TRUE).access_count \in Nat
      BY <3>1 DEF Rows
    <3> QED
      BY <2>2, <3>2
  <2> QED
    BY <2>1, <2>2
<1>3. now' \in Nat
  BY DEF MemoryTypeOK
<1> HIDE DEF count
<1>4. Row(user, key, account, count, now') \in Rows
  BY <1>2, <1>3 DEF Row, Rows
<1>5. Upsert(user, account, key) = (memory \ old) \cup {Row(user, key, account, count, now')}
  BY DEF Upsert, count
<1> QED
  BY <1>4, <1>5 DEF MemoryTypeOK

LEMMA MemoryTypeStep ==
  ASSUME AuthTypeOK, MemoryTypeOK, OwnJob, MemoryNext \/ UNCHANGED <<memory, now, job>>
  PROVE  MemoryTypeOK'
<1> USE DEF MemoryTypeOK
<1>1. ASSUME NEW r \in Requests, NEW c \in Callbacks,
               NEW key \in Keys \cup {None}, Authenticate(r, c, key)
      PROVE  MemoryTypeOK'
  <2> DEFINE j == [job[r] EXCEPT !.phase = "accepted", !.user = session[c],
                                 !.account = exchange[c].account, !.deletes = key]
  <2>1. session[c] \in UserIds \cup {None}
    BY DEF AuthTypeOK
  <2>2. exchange[c].account \in Accounts \cup Callbacks \cup {None}
    BY DEF AuthTypeOK
  <2>3. job[r] \in Jobs
    OBVIOUS
  <2>4. j \in Jobs
    BY <2>1, <2>2, <2>3 DEF Jobs
  <2>5. job' = [job EXCEPT ![r] = j] /\ UNCHANGED <<memory, now>>
    BY <1>1, <2>3, ZenonT(30) DEF Authenticate, Jobs
  <2> QED
    BY <2>4, <2>5, SetJob
<1>2. ASSUME NEW r \in Requests, Start(r) PROVE MemoryTypeOK'
  <2>0. PICK rows \in {Recent(job[r].user), {}} :
          job' = [job EXCEPT ![r].phase = "running",
                             ![r].context = {row.value : row \in rows}]
    BY <1>2 DEF Start
  <2> DEFINE context == {row.value : row \in rows}
             j == [job[r] EXCEPT !.phase = "running", !.context = context]
  <2>1. context \in SUBSET (Accounts \cup Callbacks)
    <3>1. rows \subseteq memory
      BY <2>0 DEF Recent, RowsOf
    <3>2. \A row \in Rows : row.value \in Accounts \cup Callbacks
      BY DEF Rows
    <3> QED
      BY <3>1, <3>2
  <2>2. job[r] \in Jobs
    OBVIOUS
  <2> HIDE DEF context
  <2>3. j \in Jobs
    BY <2>1, <2>2 DEF Jobs
  <2>4. job' = [job EXCEPT ![r] = j] /\ UNCHANGED <<memory, now>>
    BY <1>2, <2>0, <2>2 DEF Start, context
  <2> QED
    BY <2>3, <2>4, SetJob
<1>3. ASSUME NEW r \in Requests, Delete(r) PROVE MemoryTypeOK'
  <2> DEFINE j == [job[r] EXCEPT !.phase = "over"]
  <2>1. job[r] \in Jobs
    OBVIOUS
  <2>2. j \in Jobs
    BY <2>1, JobFields
  <2>3. job' = [job EXCEPT ![r] = j] /\ memory' \subseteq memory /\ now' = now
    BY <1>3, <2>1 DEF Delete
  <2> QED
    BY <2>2, <2>3, SetJob
<1>4. ASSUME NEW r \in Requests, NEW items \in Learnings, Learn(r, items)
      PROVE  MemoryTypeOK'
  <2> DEFINE p == IF items = <<>> THEN "over" ELSE "storing"
             j == [job[r] EXCEPT !.phase = p, !.items = items]
  <2>1. job[r] \in Jobs /\ items \in Seq(Keys \cup {None})
    BY LearningsAssumption
  <2>2. p \in {"over", "storing"}
    OBVIOUS
  <2> HIDE DEF p
  <2>3. j \in Jobs
    BY <2>1, <2>2 DEF Jobs
  <2>4. job' = [job EXCEPT ![r] = j] /\ UNCHANGED <<memory, now>>
    BY <1>4, <2>1 DEF Learn, p
  <2> QED
    BY <2>3, <2>4, SetJob
<1>5. ASSUME NEW r \in Requests, Remember(r) PROVE MemoryTypeOK'
  <2>1. job[r] \in Jobs /\ job[r].items # <<>>
    BY <1>5 DEF Remember
  <2>2. Tail(job[r].items) \in Seq(Keys \cup {None})
        /\ Head(job[r].items) \in Keys \cup {None}
    BY <2>1 DEF Jobs
  <2> DEFINE key == Head(job[r].items)
             rest == Tail(job[r].items)
  <2>3. CASE key = None
    <3> DEFINE j == [job[r] EXCEPT !.items = rest]
    <3>1. j \in Jobs
      BY <2>1, <2>2, JobFields
    <3>2. job' = [job EXCEPT ![r] = j] /\ UNCHANGED <<memory, now>>
      BY <1>5, <2>3 DEF Remember
    <3> QED
      BY <3>1, <3>2, SetJob
  <2>4. CASE key # None
    <3> DEFINE stored == job[r].stored \cup {key}
               j == [job[r] EXCEPT !.items = rest, !.stored = stored]
    <3>1. key \in Keys /\ stored \in SUBSET Keys
      BY <2>1, <2>2, <2>4 DEF Jobs
    <3>2. j \in Jobs
      <4> HIDE DEF stored, rest
      <4> QED
        BY <2>1, <2>2, <3>1 DEF Jobs, rest
    <3>3. job' = [job EXCEPT ![r] = j]
      BY <1>5, <2>4, <2>1 DEF Remember
    <3>4. now' = now + 1 /\ memory' = Upsert(job[r].user, job[r].account, key)
      BY <1>5, <2>4 DEF Remember
    <3>5. job[r].user \in UserIds /\ job[r].account \in Accounts \cup Callbacks
      BY <1>5, NamesAssumption DEF Remember, OwnJob, UserIds
    <3>6. memory' \subseteq Rows
      BY <3>1, <3>4, <3>5, UpsertRows
    <3> QED
      BY <3>2, <3>3, <3>4, <3>6, SetJob
  <2> QED
    BY <2>3, <2>4
<1>6. ASSUME NEW r \in Requests, Prune(r) PROVE MemoryTypeOK'
  <2> DEFINE j == [job[r] EXCEPT !.phase = "over"]
  <2>1. job[r] \in Jobs
    OBVIOUS
  <2>2. j \in Jobs
    BY <2>1, JobFields
  <2>3. job' = [job EXCEPT ![r] = j] /\ now' = now
    BY <1>6, <2>1 DEF Prune
  <2>4. memory' \subseteq memory
    BY <1>6 DEF Prune, Kept, RowsOf
  <2> QED
    BY <2>2, <2>3, <2>4, SetJob
<1>7. ASSUME NEW r \in Requests, Abandon(r) PROVE MemoryTypeOK'
  <2> DEFINE j == [job[r] EXCEPT !.phase = "abandoned"]
  <2>1. job[r] \in Jobs
    OBVIOUS
  <2>2. j \in Jobs
    BY <2>1, JobFields
  <2>3. job' = [job EXCEPT ![r] = j] /\ UNCHANGED <<memory, now>>
    BY <1>7, <2>1 DEF Abandon
  <2> QED
    BY <2>2, <2>3, SetJob
<1>8. CASE UNCHANGED <<memory, now, job>>
  BY <1>8
<1> QED
  BY <1>1, <1>2, <1>3, <1>4, <1>5, <1>6, <1>7, <1>8 DEF MemoryNext

\* Storing an item changes no more of a job than its items.
LEMMA RememberKeeps ==
  ASSUME MemoryTypeOK, NEW r \in Requests, Remember(r), NEW s \in Requests
  PROVE  /\ job'[s].user = job[s].user /\ job'[s].account = job[s].account
         /\ job'[s].phase = job[s].phase /\ job'[s].context = job[s].context
<1> DEFINE rest == Tail(job[r].items)
           stored == job[r].stored \cup {Head(job[r].items)}
<1>1. \/ job' = [job EXCEPT ![r].items = rest]
      \/ job' = [job EXCEPT ![r].items = rest, ![r].stored = stored]
  BY DEF Remember
<1> HIDE DEF rest, stored
<1>2. CASE job' = [job EXCEPT ![r].items = rest]
  BY <1>2 DEF MemoryTypeOK, Jobs
<1>3. CASE job' = [job EXCEPT ![r].items = rest, ![r].stored = stored]
  <2>1. job' = [job EXCEPT ![r] = [job[r] EXCEPT !.items = rest, !.stored = stored]]
    BY <1>3 DEF MemoryTypeOK
  <2>2. job[r] \in Jobs /\ job \in [Requests -> Jobs]
    BY DEF MemoryTypeOK
  <2>3. CASE s = r
    BY <2>1, <2>2, <2>3 DEF Jobs
  <2>4. CASE s # r
    BY <2>1, <2>2, <2>4
  <2> QED
    BY <2>3, <2>4
<1> QED
  BY <1>1, <1>2, <1>3

LEMMA OwnJobStep ==
  ASSUME AuthTypeOK, OneWinner, OwnSession, MemoryTypeOK, OwnJob,
         MemoryNext \/ UNCHANGED <<memory, now, job>>
  PROVE  OwnJob'
<1> USE NamesAssumption DEF MemoryTypeOK, Jobs, OwnJob
<1>1. ASSUME NEW r \in Requests, NEW c \in Callbacks,
               NEW key \in Keys \cup {None}, Authenticate(r, c, key) PROVE OwnJob'
  <2>1. session[c] # None
    BY <1>1 DEF Authenticate, Authenticated
  <2>2. exchange[c].account \in Accounts \cup Callbacks
    BY <2>1 DEF OneWinner, OwnSession
  <2>3. session[c] \in {Nobody, exchange[c].account}
    BY <2>1 DEF OwnSession, SessionOfAccount
  <2> QED
    BY <1>1, <2>2, <2>3 DEF Authenticate
<1>2. ASSUME NEW r \in Requests, Start(r) PROVE OwnJob'
  BY <1>2 DEF Start, Recent, RowsOf
<1>3. ASSUME NEW r \in Requests, Delete(r) PROVE OwnJob'
  BY <1>3 DEF Delete, RowsAt
<1>4. ASSUME NEW r \in Requests, NEW items \in Learnings, Learn(r, items) PROVE OwnJob'
  BY <1>4 DEF Learn
<1>5. ASSUME NEW r \in Requests, Remember(r) PROVE OwnJob'
  <2>1. \A s \in Requests :
          /\ job'[s].user = job[s].user /\ job'[s].account = job[s].account
          /\ job'[s].phase = job[s].phase
    BY <1>5, RememberKeeps
  <2> QED
    BY <2>1
<1>6. ASSUME NEW r \in Requests, Prune(r) PROVE OwnJob'
  BY <1>6 DEF Prune, Kept, RowsOf
<1>7. ASSUME NEW r \in Requests, Abandon(r) PROVE OwnJob'
  BY <1>7 DEF Abandon
<1>8. CASE UNCHANGED <<memory, now, job>>
  BY <1>8
<1> QED
  BY <1>1, <1>2, <1>3, <1>4, <1>5, <1>6, <1>7, <1>8 DEF MemoryNext

LEMMA OwnMemoryStep ==
  ASSUME MemoryTypeOK, OwnJob, OwnMemory, AuthTypeOK, OwnSession,
         MemoryNext \/ UNCHANGED <<memory, now, job>>
  PROVE  OwnMemory'
<1> USE NamesAssumption DEF MemoryTypeOK, Jobs, Rows, OwnJob, OwnMemory
<1>1. ASSUME NEW r \in Requests, NEW c \in Callbacks,
               NEW key \in Keys \cup {None}, Authenticate(r, c, key) PROVE OwnMemory'
  BY <1>1 DEF Authenticate, Authenticated
<1>2. ASSUME NEW r \in Requests, Start(r) PROVE OwnMemory'
  <2>0. PICK rows \in {Recent(job[r].user), {}} :
          job' = [job EXCEPT ![r].phase = "running",
                             ![r].context = {row.value : row \in rows}]
    BY <1>2 DEF Start
  <2> DEFINE context == {row.value : row \in rows}
  <2>1. job' = [job EXCEPT ![r].phase = "running", ![r].context = context]
        /\ memory' = memory
    BY <1>2, <2>0 DEF Start
  <2>2. job[r].user # Nobody => context \subseteq {job[r].account}
    <3> SUFFICES ASSUME job[r].user # Nobody, NEW row \in Recent(job[r].user)
                 PROVE  row.value = job[r].account
      BY <2>0
    <3>1. row \in memory /\ row.user = job[r].user
      BY DEF Recent, RowsOf
    <3>2. job[r].user = job[r].account
      BY <1>2 DEF Start
    <3> QED
      BY <3>1, <3>2
  <2> HIDE DEF context
  <2> QED
    BY <2>1, <2>2
<1>3. ASSUME NEW r \in Requests, Delete(r) PROVE OwnMemory'
  BY <1>3 DEF Delete, RowsAt
<1>4. ASSUME NEW r \in Requests, NEW items \in Learnings, Learn(r, items) PROVE OwnMemory'
  BY <1>4 DEF Learn
<1>5. ASSUME NEW r \in Requests, Remember(r) PROVE OwnMemory'
  <2>1. \A row \in memory' : row.user \in {row.value, Nobody}
    BY <1>5 DEF Remember, Upsert, Row, RowsAt
  <2>2. \A s \in Requests :
          /\ job'[s].user = job[s].user /\ job'[s].account = job[s].account
          /\ job'[s].context = job[s].context
    BY <1>5, RememberKeeps
  <2> QED
    BY <2>1, <2>2
<1>6. ASSUME NEW r \in Requests, Prune(r) PROVE OwnMemory'
  BY <1>6 DEF Prune, Kept, RowsOf
<1>7. ASSUME NEW r \in Requests, Abandon(r) PROVE OwnMemory'
  BY <1>7 DEF Abandon
<1>8. CASE UNCHANGED <<memory, now, job>>
  BY <1>8
<1> QED
  BY <1>1, <1>2, <1>3, <1>4, <1>5, <1>6, <1>7, <1>8 DEF MemoryNext

\* The inductive invariant.
THEOREM InvariantHolds == Spec => []IInv
<1>1. Init => IInv
  BY InitHolds
<1>2. IInv /\ [Next]_vars => IInv'
  <2> SUFFICES ASSUME IInv, [Next]_vars PROVE IInv'
    OBVIOUS
  <2>1. CASE AuthNext /\ UNCHANGED <<memory, now, job>>
    BY <2>1, SessionStep, MemoryTypeStep, OwnJobStep, OwnMemoryStep DEF IInv, SessionInv
  <2>2. CASE MemoryNext
    <3>1. UNCHANGED authVars
      BY <2>2, ZenonT(30) DEF MemoryNext, Authenticate, Start, Delete, Learn, Remember, Prune, Abandon
    <3> QED
      BY <2>2, <3>1, SessionStep, MemoryTypeStep, OwnJobStep, OwnMemoryStep
      DEF IInv, SessionInv
  <2>3. CASE UNCHANGED vars
    <3>1. UNCHANGED authVars /\ UNCHANGED <<memory, now, job>>
      BY <2>3 DEF vars
    <3> QED
      BY <3>1, SessionStep, MemoryTypeStep, OwnJobStep, OwnMemoryStep DEF IInv, SessionInv
  <2> QED
    BY <2>1, <2>2, <2>3 DEF Next
<1> QED
  BY <1>1, <1>2, PTL DEF Spec

\* Type correctness.
THEOREM TypeCorrect == Spec => []TypeOK
<1>1. IInv => TypeOK
  BY DEF IInv, SessionInv, MemoryTypeOK, TypeOK
<1> QED
  BY <1>1, InvariantHolds, PTL

\* A login gives at most one session.
THEOREM OneSessionPerLogin == Spec => []SessionPerLogin
<1>1. IInv => SessionPerLogin
  BY DEF IInv, SessionInv, OneWinner, Won, SessionPerLogin
<1> QED
  BY <1>1, InvariantHolds, PTL

\* A session is the account's that signed in, or nobody's.
THEOREM SessionsAreOwn == Spec => []SessionOfAccount
<1>1. IInv => SessionOfAccount
  BY DEF IInv, SessionInv, OwnSession
<1> QED
  BY <1>1, InvariantHolds, PTL

\* Memories stay with the account whose tasks they were learnt from.
THEOREM MemoriesAreOwn == Spec => []OwnMemory
<1>1. IInv => OwnMemory
  BY DEF IInv
<1> QED
  BY <1>1, InvariantHolds, PTL

-----------------------------------------------------------------------------
(* The order of a prune.                                                   *)

\* The rows that ORDER BY puts before x.
Before(rows, x) == {y \in rows : Ahead(y, x)}

\* Rows an order by use and age tells apart.
Distinct(rows) ==
  /\ IsFiniteSet(rows)
  /\ \A x \in rows : x.access_count \in Nat /\ x.updated_at \in Nat
  /\ \A x, y \in rows : x.updated_at = y.updated_at => x = y

\* The order is total, and a row has fewer before it than those behind it.
LEMMA Order ==
  ASSUME NEW rows, Distinct(rows)
  PROVE  /\ \A x, y \in rows : x = y \/ Ahead(x, y) \/ Ahead(y, x)
         /\ \A x \in rows : ~ Ahead(x, x)
         /\ \A x, y \in rows :
              Ahead(x, y) => Before(rows, x) \subseteq Before(rows, y)
         /\ \A x \in rows : Cardinality(Before(rows, x)) \in Nat
         /\ \A x, y \in rows :
              Ahead(x, y) => Cardinality(Before(rows, x)) < Cardinality(Before(rows, y))
<1>1. \A x, y \in rows : x = y \/ Ahead(x, y) \/ Ahead(y, x)
  BY DEF Distinct, Ahead
<1>2. \A x \in rows : ~ Ahead(x, x)
  BY DEF Distinct, Ahead
<1>3. \A x, y, z \in rows : Ahead(x, y) /\ Ahead(y, z) => Ahead(x, z)
  BY DEF Distinct, Ahead
<1>4. \A x, y \in rows : Ahead(x, y) => Before(rows, x) \subseteq Before(rows, y)
  BY <1>3 DEF Before
<1>5. \A x \in rows : IsFiniteSet(Before(rows, x)) /\ Cardinality(Before(rows, x)) \in Nat
  <2>1. \A T \in SUBSET rows : IsFiniteSet(T) /\ Cardinality(T) \in Nat
    BY FS_Subset, FS_CardinalityType DEF Distinct
  <2>2. \A x \in rows : Before(rows, x) \in SUBSET rows
    BY DEF Before
  <2> QED
    BY <2>1, <2>2
<1>6. ASSUME NEW x \in rows, NEW y \in rows, Ahead(x, y)
      PROVE  Cardinality(Before(rows, x)) < Cardinality(Before(rows, y))
  <2>1. x \in Before(rows, y) /\ x \notin Before(rows, x)
    BY <1>2, <1>6 DEF Before
  <2>2. /\ Cardinality(Before(rows, x)) <= Cardinality(Before(rows, y))
        /\ Cardinality(Before(rows, y)) = Cardinality(Before(rows, x))
             => Before(rows, y) = Before(rows, x)
    BY <1>4, <1>5, <1>6, FS_Subset
  <2> QED
    BY <2>1, <2>2, <1>5
<1> QED
  BY <1>1, <1>2, <1>4, <1>5, <1>6

\* A prune leaves no more than the limit.
LEMMA KeptBounded ==
  ASSUME NEW rows, Distinct(rows)
  PROVE  /\ Kept(rows) \subseteq rows /\ IsFiniteSet(Kept(rows))
         /\ Cardinality(Kept(rows)) \in Nat /\ Cardinality(Kept(rows)) <= MaxEntries
<1> USE MaxEntriesAssumption
<1> DEFINE rank == [x \in Kept(rows) |-> Cardinality(Before(rows, x))]
           Ranks == 0 .. MaxEntries - 1
<1>1. \A x \in Kept(rows) : x \in rows /\ Cardinality(Before(rows, x)) < MaxEntries
  BY DEF Kept, Before
<1>2. rank \in [Kept(rows) -> Ranks]
  BY <1>1, Order
<1>3. \A x, y \in Kept(rows) : rank[x] = rank[y] => x = y
  <2> SUFFICES ASSUME NEW x \in Kept(rows), NEW y \in Kept(rows), x # y
               PROVE  Cardinality(Before(rows, x)) # Cardinality(Before(rows, y))
    OBVIOUS
  <2>1. Ahead(x, y) \/ Ahead(y, x)
    BY <1>1, Order
  <2> QED
    BY <2>1, <1>1, Order
<1>4. rank \in Injection(Kept(rows), Ranks)
  BY <1>2, <1>3, Fun_IsInj
<1>5. IsFiniteSet(Ranks) /\ Cardinality(Ranks) = MaxEntries
  BY FS_Interval
<1>6. IsFiniteSet(Kept(rows)) /\ Cardinality(Kept(rows)) <= Cardinality(Ranks)
  BY <1>4, <1>5, FS_Injection
<1> QED
  BY <1>1, <1>5, <1>6, FS_CardinalityType

\* It drops a row only when it leaves as many as the limit, each of them ahead
\* of it.
LEMMA DroppedLast ==
  ASSUME NEW rows, Distinct(rows), NEW row \in rows \ Kept(rows)
  PROVE  /\ Cardinality(Kept(rows)) = MaxEntries
         /\ \A x \in Kept(rows) : Ahead(x, row)
<1> USE MaxEntriesAssumption
<1>1. \A x \in rows : x \in Kept(rows) <=> Cardinality(Before(rows, x)) < MaxEntries
  BY DEF Kept, Before
<1>2. \A x \in Kept(rows) : Ahead(x, row)
  <2> SUFFICES ASSUME NEW x \in Kept(rows) PROVE Ahead(x, row)
    OBVIOUS
  <2>1. x \in rows /\ x # row
    BY DEF Kept
  <2>2. ~ Ahead(row, x)
    <3>1. Cardinality(Before(rows, x)) < MaxEntries
      BY <1>1, <2>1
    <3>2. ~ (Cardinality(Before(rows, row)) < MaxEntries)
      BY <1>1
    <3>3. Cardinality(Before(rows, x)) \in Nat /\ Cardinality(Before(rows, row)) \in Nat
      BY <2>1, Order
    <3> QED
      BY <2>1, <3>1, <3>2, <3>3, Order
  <2> QED
    BY <2>1, <2>2, Order
<1>3. PICK z \in rows \ Kept(rows) : Before(rows, z) \subseteq Kept(rows)
  <2> DEFINE Fronts == {Before(rows, x) : x \in rows \ Kept(rows)}
  <2>1. Fronts \subseteq SUBSET rows /\ Fronts # {}
    BY DEF Before
  <2>2. IsWellFoundedOn(StrictSubsetOrdering(rows), SUBSET rows)
    BY FS_StrictSubsetOrderingWellFounded, FS_FiniteSubsetsOfFinite DEF Distinct
  <2> HIDE DEF Fronts
  <2>3. PICK front \in Fronts :
          \A other \in Fronts : ~ (<<other, front>> \in StrictSubsetOrdering(rows))
    BY <2>1, <2>2, WFMin
  <2>4. PICK z \in rows \ Kept(rows) : front = Before(rows, z)
    BY <2>3 DEF Fronts
  <2>5. ASSUME NEW y \in Before(rows, z), y \notin Kept(rows) PROVE FALSE
    <3>1. y \in rows /\ Ahead(y, z)
      BY DEF Before
    <3>2. Before(rows, y) \in Fronts
      BY <3>1, <2>5 DEF Fronts
    <3>3. Before(rows, y) \subseteq Before(rows, z) /\ Before(rows, y) # Before(rows, z)
      <4>1. y \notin Before(rows, y)
        BY <3>1, Order DEF Before
      <4>2. Before(rows, y) \subseteq Before(rows, z)
        BY <3>1, Order
      <4> QED
        BY <4>1, <4>2
    <3>4. <<Before(rows, y), Before(rows, z)>> \in StrictSubsetOrdering(rows)
      BY <3>3, <2>1, <3>2, <2>3, <2>4 DEF StrictSubsetOrdering
    <3> QED
      BY <3>2, <3>4, <2>3, <2>4
  <2> QED
    BY <2>5
<1>4. IsFiniteSet(Kept(rows)) /\ Cardinality(Kept(rows)) <= MaxEntries
      /\ Cardinality(Kept(rows)) \in Nat
  BY KeptBounded
<1>5. Cardinality(Before(rows, z)) <= Cardinality(Kept(rows))
  BY <1>3, <1>4, FS_Subset
<1>6. ~ (Cardinality(Before(rows, z)) < MaxEntries) /\ Cardinality(Before(rows, z)) \in Nat
  BY <1>1, Order
<1> QED
  BY <1>2, <1>4, <1>5, <1>6

-----------------------------------------------------------------------------
(* The limit.                                                              *)

\* A user has one memory of a key, and no two were stored at the same time.
RowsDistinct ==
  /\ IsFiniteSet(memory)
  /\ \A row \in memory : row.updated_at <= now
  /\ \A x, y \in memory : x.updated_at = y.updated_at => x = y
  /\ \A x, y \in memory : x.user = y.user /\ x.key = y.key => x = y

\* The memories of a user that no unpruned extraction has stored.
Settled(u) == {row \in RowsOf(u) : row.key \notin Unpruned(u)}

\* MemoryBounded is not inductive: a deletion and an upsert may both take a
\* memory that an extraction at work has stored.  What is: the settled ones are
\* within the limit, and only a prune settles any.
Limited ==
  /\ \A r \in Requests :
       job[r].phase \notin {"storing", "abandoned", "over"} => job[r].stored = {}
  /\ \A u \in UserIds :
       /\ IsFiniteSet(Unpruned(u))
       /\ Cardinality(Settled(u)) <= MaxEntries

LimitInv == RowsDistinct /\ Limited

LEMMA LimitInit == Init => LimitInv
<1> SUFFICES ASSUME Init PROVE LimitInv
  OBVIOUS
<1>1. RowsDistinct
  BY FS_EmptySet DEF Init, RowsDistinct
<1>2. ASSUME NEW u \in UserIds PROVE Unpruned(u) = {} /\ Settled(u) = {}
  BY DEF Init, Unpruned, Settled, RowsOf
<1>3. \A r \in Requests : job[r].stored = {}
  BY DEF Init
<1>4. Limited
  <2>1. IsFiniteSet({}) /\ Cardinality({}) <= MaxEntries
    BY FS_EmptySet, MaxEntriesAssumption
  <2> QED
    BY <1>2, <1>3, <2>1 DEF Limited
<1> QED
  BY <1>1, <1>4 DEF LimitInv

\* The new row of an upsert is the only one of its time and of its key.
LEMMA RowsStep ==
  ASSUME MemoryTypeOK, RowsDistinct, MemoryNext \/ UNCHANGED <<memory, now, job>>
  PROVE  RowsDistinct'
<1>1. CASE memory' \subseteq memory /\ now' = now
  <2>1. IsFiniteSet(memory')
    BY <1>1, FS_Subset DEF RowsDistinct
  <2> QED
    BY <1>1, <2>1 DEF RowsDistinct
<1>2. ASSUME NEW r \in Requests, Remember(r), now' # now PROVE RowsDistinct'
  <2> DEFINE user == job[r].user
             key == Head(job[r].items)
             old == RowsAt(user, key)
             count == IF old = {} THEN 1 ELSE 1 + (CHOOSE row \in old : TRUE).access_count
             new == Row(user, key, job[r].account, count, now')
  <2>1. now' = now + 1 /\ memory' = (memory \ old) \cup {new}
    BY <1>2 DEF Remember, Upsert
  <2>2. new.user = user /\ new.key = key /\ new.updated_at = now'
    BY DEF Row
  <2>3. old = {row \in memory : row.user = user /\ row.key = key}
    BY DEF RowsAt
  <2> HIDE DEF new, old, user, key
  <2>4. IsFiniteSet(memory \ old)
    BY FS_Subset DEF RowsDistinct
  <2>5. IsFiniteSet(memory')
    BY <2>1, <2>4, FS_AddElement
  <2>6. \A row \in memory \ old : row.updated_at < now' /\ row.updated_at \in Nat
    BY <2>1 DEF RowsDistinct, MemoryTypeOK, Rows
  <2>7. \A row \in memory' : row.updated_at <= now'
    BY <2>1, <2>2, <2>6 DEF MemoryTypeOK
  <2>8. \A x, y \in memory' : x.updated_at = y.updated_at => x = y
    BY <2>1, <2>2, <2>6 DEF RowsDistinct
  <2>9. \A x, y \in memory' : x.user = y.user /\ x.key = y.key => x = y
    BY <2>1, <2>2, <2>3 DEF RowsDistinct
  <2> QED
    BY <2>5, <2>7, <2>8, <2>9 DEF RowsDistinct
<1>3. ASSUME NEW r \in Requests, Remember(r), now' = now PROVE memory' \subseteq memory
  BY <1>3 DEF Remember, MemoryTypeOK
<1>4. ASSUME NEW r \in Requests, Prune(r) PROVE memory' \subseteq memory /\ now' = now
  BY <1>4 DEF Prune, Kept, RowsOf
<1>5. ASSUME NEW r \in Requests, Delete(r) PROVE memory' \subseteq memory /\ now' = now
  BY <1>5 DEF Delete
<1>6. \/ UNCHANGED <<memory, now>>
      \/ \E r \in Requests : Remember(r) \/ Prune(r) \/ Delete(r)
  BY ZenonT(30) DEF MemoryNext, Authenticate, Start, Learn, Abandon
<1> QED
  BY <1>1, <1>2, <1>3, <1>4, <1>5, <1>6

LEMMA UnprunedMember ==
  \A u, key :
    key \in Unpruned(u) <=>
      \E r \in Requests : /\ job[r].user = u
                          /\ job[r].phase \in {"storing", "abandoned"}
                          /\ key \in job[r].stored
BY DEF Unpruned

LEMMA UnprunedMemberNext ==
  \A u, key :
    key \in Unpruned(u)' <=>
      \E r \in Requests : /\ job'[r].user = u
                          /\ job'[r].phase \in {"storing", "abandoned"}
                          /\ key \in job'[r].stored
BY DEF Unpruned

\* What the step of one job adds to what is stored and not pruned.
LEMMA UnprunedAdds ==
  ASSUME NEW r \in Requests, \A s \in Requests \ {r} : job'[s] = job[s],
         NEW u, NEW added,
         \A key :
           (/\ job'[r].user = u /\ job'[r].phase \in {"storing", "abandoned"}
            /\ key \in job'[r].stored)
           <=> \/ /\ job[r].user = u /\ job[r].phase \in {"storing", "abandoned"}
                  /\ key \in job[r].stored
               \/ key \in added
  PROVE  Unpruned(u)' = Unpruned(u) \cup added
<1> DEFINE before == Unpruned(u)
           after == Unpruned(u)'
<1>1. \A key : key \in after <=> key \in before \/ key \in added
  BY UnprunedMember, UnprunedMemberNext
<1> HIDE DEF before, after
<1>2. after = before \cup added
  BY <1>1
<1> QED
  BY <1>2 DEF before, after

\* What a step makes of the job whose step it is, and of the others.
LEMMA JobSteps ==
  ASSUME MemoryTypeOK, NEW r \in Requests
  PROVE  /\ \A c \in Callbacks, key \in Keys \cup {None} :
              Authenticate(r, c, key) =>
                 /\ \A s \in Requests \ {r} : job'[s] = job[s]
                 /\ job[r].phase = "none" /\ job'[r].phase = "accepted"
                 /\ job'[r].stored = job[r].stored
         /\ Start(r) => /\ \A s \in Requests \ {r} : job'[s] = job[s]
                        /\ job[r].phase = "accepted" /\ job'[r].phase = "running"
                        /\ job'[r].stored = job[r].stored
         /\ Delete(r) => /\ \A s \in Requests \ {r} : job'[s] = job[s]
                         /\ job[r].phase = "accepted" /\ job'[r].phase = "over"
         /\ \A items \in Learnings :
              Learn(r, items) =>
                 /\ \A s \in Requests \ {r} : job'[s] = job[s]
                 /\ job[r].phase = "running" /\ job'[r].phase \in {"storing", "over"}
                 /\ job'[r].stored = job[r].stored
         /\ Abandon(r) => /\ \A s \in Requests \ {r} : job'[s] = job[s]
                          /\ job[r].phase = "storing" /\ job'[r].phase = "abandoned"
                          /\ job'[r].stored = job[r].stored /\ job'[r].user = job[r].user
         /\ Prune(r) => /\ \A s \in Requests \ {r} : job'[s] = job[s]
                        /\ job[r].phase = "storing" /\ job'[r].phase = "over"
                        /\ job'[r].user = job[r].user
<1> USE DEF MemoryTypeOK, Jobs
<1>1. ASSUME NEW c \in Callbacks, NEW key \in Keys \cup {None}, Authenticate(r, c, key)
      PROVE  /\ \A s \in Requests \ {r} : job'[s] = job[s]
             /\ job[r].phase = "none" /\ job'[r].phase = "accepted"
             /\ job'[r].stored = job[r].stored
  BY <1>1 DEF Authenticate
<1>2. Start(r) => /\ \A s \in Requests \ {r} : job'[s] = job[s]
                  /\ job[r].phase = "accepted" /\ job'[r].phase = "running"
                  /\ job'[r].stored = job[r].stored
  BY DEF Start
<1>3. Delete(r) => /\ \A s \in Requests \ {r} : job'[s] = job[s]
                   /\ job[r].phase = "accepted" /\ job'[r].phase = "over"
  BY DEF Delete
<1>4. ASSUME NEW items \in Learnings, Learn(r, items)
      PROVE  /\ \A s \in Requests \ {r} : job'[s] = job[s]
             /\ job[r].phase = "running" /\ job'[r].phase \in {"storing", "over"}
             /\ job'[r].stored = job[r].stored
  BY <1>4 DEF Learn
<1>5. Abandon(r) => /\ \A s \in Requests \ {r} : job'[s] = job[s]
                    /\ job[r].phase = "storing" /\ job'[r].phase = "abandoned"
                    /\ job'[r].stored = job[r].stored /\ job'[r].user = job[r].user
  BY DEF Abandon
<1>6. Prune(r) => /\ \A s \in Requests \ {r} : job'[s] = job[s]
                  /\ job[r].phase = "storing" /\ job'[r].phase = "over"
                  /\ job'[r].user = job[r].user
  BY DEF Prune
<1> QED
  BY <1>1, <1>2, <1>3, <1>4, <1>5, <1>6

\* What storing the next item, if it has a key, makes of the jobs.
LEMMA RememberStores ==
  ASSUME MemoryTypeOK, NEW r \in Requests, Remember(r)
  PROVE  /\ \A s \in Requests \ {r} : job'[s] = job[s]
         /\ job[r].phase = "storing" /\ job'[r].phase = "storing"
         /\ job'[r].user = job[r].user
         /\ job'[r].stored = IF Head(job[r].items) = None THEN job[r].stored
                             ELSE job[r].stored \cup {Head(job[r].items)}
<1> DEFINE rest == Tail(job[r].items)
           stored == job[r].stored \cup {Head(job[r].items)}
<1>1. /\ Head(job[r].items) = None => job' = [job EXCEPT ![r].items = rest]
      /\ Head(job[r].items) # None =>
           job' = [job EXCEPT ![r].items = rest, ![r].stored = stored]
      /\ job[r].phase = "storing"
  BY DEF Remember
<1> HIDE DEF rest
<1>2. CASE Head(job[r].items) = None
  BY <1>1, <1>2 DEF MemoryTypeOK, Jobs
<1>3. CASE Head(job[r].items) # None
  <2>1. job' = [job EXCEPT ![r] = [job[r] EXCEPT !.items = rest, !.stored = stored]]
    BY <1>1, <1>3 DEF MemoryTypeOK
  <2> HIDE DEF stored
  <2>2. job[r] \in Jobs /\ job \in [Requests -> Jobs]
    BY DEF MemoryTypeOK
  <2>3. /\ job'[r].phase = job[r].phase /\ job'[r].user = job[r].user
        /\ job'[r].stored = stored
    BY <2>1, <2>2 DEF Jobs
  <2>4. \A s \in Requests \ {r} : job'[s] = job[s]
    BY <2>1, <2>2
  <2> QED
    BY <1>1, <1>3, <2>3, <2>4 DEF stored
<1> QED
  BY <1>2, <1>3

\* A step that settles nothing.
LEMMA NoneSettled ==
  ASSUME LimitInv, NEW u \in UserIds, IsFiniteSet(Unpruned(u)'),
         Settled(u)' \subseteq Settled(u)
  PROVE  IsFiniteSet(Unpruned(u)') /\ Cardinality(Settled(u)') <= MaxEntries
<1>1. IsFiniteSet(Settled(u))
  <2>1. Settled(u) \in SUBSET memory
    BY DEF Settled, RowsOf
  <2> QED
    BY <2>1, FS_Subset DEF LimitInv, RowsDistinct
<1>2. IsFiniteSet(Settled(u)') /\ Cardinality(Settled(u)') <= Cardinality(Settled(u))
  BY <1>1, FS_Subset
<1>3. Cardinality(Settled(u)') \in Nat /\ Cardinality(Settled(u)) \in Nat
  BY <1>1, <1>2, FS_CardinalityType
<1>4. Cardinality(Settled(u)) <= MaxEntries
  BY DEF LimitInv, Limited
<1> QED
  BY <1>2, <1>3, <1>4, MaxEntriesAssumption

\* One that stores and prunes nothing.
LEMMA NothingStored ==
  ASSUME LimitInv, memory' \subseteq memory, \A u \in UserIds : Unpruned(u)' = Unpruned(u),
         NEW u \in UserIds
  PROVE  IsFiniteSet(Unpruned(u)') /\ Cardinality(Settled(u)') <= MaxEntries
<1>1. Settled(u)' \subseteq Settled(u)
  BY DEF Settled, RowsOf
<1>2. IsFiniteSet(Unpruned(u)')
  BY DEF LimitInv, Limited
<1> QED
  BY <1>1, <1>2, NoneSettled

LEMMA LimitedStep ==
  ASSUME MemoryTypeOK, LimitInv, MemoryNext \/ UNCHANGED <<memory, now, job>>
  PROVE  Limited'
<1> DEFINE Early == {"none", "accepted", "running"}
<1>0. \A r \in Requests : /\ job[r].phase \in Early => job[r].stored = {}
                          /\ job[r].phase \in Early \cup {"storing", "abandoned", "over"}
  BY DEF LimitInv, Limited, MemoryTypeOK, Jobs
<1> DEFINE Fine == \A u \in UserIds :
                     IsFiniteSet(Unpruned(u)') /\ Cardinality(Settled(u)') <= MaxEntries
           Unstored == \A r \in Requests : job'[r].phase \notin {"storing", "abandoned", "over"}
                                             => job'[r].stored = {}
<1>1. ASSUME NEW r \in Requests, NEW c \in Callbacks,
             NEW key \in Keys \cup {None}, Authenticate(r, c, key)
      PROVE  Unstored /\ Fine
  <2>1. /\ \A s \in Requests \ {r} : job'[s] = job[s]
        /\ job[r].phase = "none" /\ job'[r].phase = "accepted"
        /\ job'[r].stored = job[r].stored
    BY <1>1, JobSteps
  <2>2. ASSUME NEW u \in UserIds PROVE Unpruned(u)' = Unpruned(u)
    <3>1. Unpruned(u)' = Unpruned(u) \cup {}
      BY <1>0, <2>1, UnprunedAdds
    <3> QED
      BY <3>1
  <2>3. memory' \subseteq memory
    BY <1>1 DEF Authenticate
  <2> QED
    BY <1>0, <2>1, <2>2, <2>3, NothingStored
<1>2. ASSUME NEW r \in Requests, Start(r) PROVE Unstored /\ Fine
  <2>1. /\ \A s \in Requests \ {r} : job'[s] = job[s]
        /\ job[r].phase = "accepted" /\ job'[r].phase = "running"
        /\ job'[r].stored = job[r].stored
    BY <1>2, JobSteps
  <2>2. ASSUME NEW u \in UserIds PROVE Unpruned(u)' = Unpruned(u)
    <3>1. Unpruned(u)' = Unpruned(u) \cup {}
      BY <1>0, <2>1, UnprunedAdds
    <3> QED
      BY <3>1
  <2>3. memory' \subseteq memory
    BY <1>2 DEF Start
  <2> QED
    BY <1>0, <2>1, <2>2, <2>3, NothingStored
<1>3. ASSUME NEW r \in Requests, Delete(r) PROVE Unstored /\ Fine
  <2>1. /\ \A s \in Requests \ {r} : job'[s] = job[s]
        /\ job[r].phase = "accepted" /\ job'[r].phase = "over"
    BY <1>3, JobSteps
  <2>2. ASSUME NEW u \in UserIds PROVE Unpruned(u)' = Unpruned(u)
    <3>1. Unpruned(u)' = Unpruned(u) \cup {}
      BY <1>0, <2>1, UnprunedAdds
    <3> QED
      BY <3>1
  <2>3. memory' \subseteq memory
    BY <1>3 DEF Delete
  <2> QED
    BY <1>0, <2>1, <2>2, <2>3, NothingStored
<1>4. ASSUME NEW r \in Requests, NEW items \in Learnings, Learn(r, items)
      PROVE  Unstored /\ Fine
  <2>1. /\ \A s \in Requests \ {r} : job'[s] = job[s]
        /\ job[r].phase = "running" /\ job'[r].phase \in {"storing", "over"}
        /\ job'[r].stored = job[r].stored
    BY <1>4, JobSteps
  <2>2. job[r].stored = {}
    BY <1>0, <2>1
  <2>3. ASSUME NEW u \in UserIds PROVE Unpruned(u)' = Unpruned(u)
    <3>1. Unpruned(u)' = Unpruned(u) \cup {}
      BY <2>1, <2>2, UnprunedAdds
    <3> QED
      BY <3>1
  <2>4. memory' \subseteq memory
    BY <1>4 DEF Learn
  <2> QED
    BY <1>0, <2>1, <2>3, <2>4, NothingStored
<1>5. ASSUME NEW r \in Requests, Abandon(r) PROVE Unstored /\ Fine
  <2>1. /\ \A s \in Requests \ {r} : job'[s] = job[s]
        /\ job[r].phase = "storing" /\ job'[r].phase = "abandoned"
        /\ job'[r].stored = job[r].stored /\ job'[r].user = job[r].user
    BY <1>5, JobSteps
  <2>2. ASSUME NEW u \in UserIds PROVE Unpruned(u)' = Unpruned(u)
    <3>1. \A key :
            (/\ job'[r].user = u /\ job'[r].phase \in {"storing", "abandoned"}
             /\ key \in job'[r].stored)
            <=> \/ /\ job[r].user = u /\ job[r].phase \in {"storing", "abandoned"}
                   /\ key \in job[r].stored
                \/ key \in {}
      BY <2>1
    <3>2. Unpruned(u)' = Unpruned(u) \cup {}
      BY <2>1, <3>1, UnprunedAdds
    <3> QED
      BY <3>2
  <2>3. memory' \subseteq memory
    BY <1>5 DEF Abandon
  <2> QED
    BY <1>0, <2>1, <2>2, <2>3, NothingStored
<1>6. ASSUME NEW r \in Requests, Remember(r) PROVE Unstored /\ Fine
  <2> DEFINE key == Head(job[r].items)
  <2>1. /\ \A s \in Requests \ {r} : job'[s] = job[s]
        /\ job[r].phase = "storing" /\ job'[r].phase = "storing"
        /\ job'[r].user = job[r].user
        /\ job'[r].stored = IF key = None THEN job[r].stored ELSE job[r].stored \cup {key}
    BY <1>6, RememberStores
  <2>2. /\ key = None => memory' = memory
        /\ key # None => memory' = Upsert(job[r].user, job[r].account, key)
    BY <1>6 DEF Remember
  <2> HIDE DEF key
  <2>3. Unstored
    BY <1>0, <2>1
  <2>4. CASE key = None
    <3>1. ASSUME NEW u \in UserIds PROVE Unpruned(u)' = Unpruned(u)
      <4>1. Unpruned(u)' = Unpruned(u) \cup {}
        BY <2>1, <2>4, UnprunedAdds
      <4> QED
        BY <4>1
    <3> QED
      BY <2>2, <2>3, <2>4, <3>1, NothingStored
  <2>5. CASE key # None
    <3> SUFFICES ASSUME NEW u \in UserIds
                 PROVE  IsFiniteSet(Unpruned(u)') /\ Cardinality(Settled(u)') <= MaxEntries
      BY <2>3
    <3> DEFINE added == IF u = job[r].user THEN {key} ELSE {}
    <3>1. Unpruned(u)' = Unpruned(u) \cup added
      <4>1. \A k :
              (/\ job'[r].user = u /\ job'[r].phase \in {"storing", "abandoned"}
               /\ k \in job'[r].stored)
              <=> \/ /\ job[r].user = u /\ job[r].phase \in {"storing", "abandoned"}
                     /\ k \in job[r].stored
                  \/ k \in added
        BY <2>1, <2>5
      <4> HIDE DEF added
      <4> QED
        BY <2>1, <4>1, UnprunedAdds
    <3>2. IsFiniteSet(Unpruned(u)')
      <4>1. IsFiniteSet(added)
        BY FS_EmptySet, FS_Singleton
      <4> HIDE DEF added
      <4> QED
        BY <3>1, <4>1, FS_Union DEF LimitInv, Limited
    <3>3. \A row \in memory' : row \in memory \/ (row.user = job[r].user /\ row.key = key)
      <4> DEFINE old == RowsAt(job[r].user, key)
                 count == IF old = {} THEN 1
                          ELSE 1 + (CHOOSE row \in old : TRUE).access_count
                 new == Row(job[r].user, key, job[r].account, count, now')
      <4>1. memory' = (memory \ old) \cup {new}
        BY <2>2, <2>5 DEF Upsert
      <4>2. new.user = job[r].user /\ new.key = key
        BY DEF Row
      <4> HIDE DEF new, old
      <4> QED
        BY <4>1, <4>2
    <3>4. Settled(u)' \subseteq Settled(u)
      BY <3>1, <3>3 DEF Settled, RowsOf
    <3> QED
      BY <3>2, <3>4, NoneSettled
  <2> QED
    BY <2>4, <2>5
<1>7. ASSUME NEW r \in Requests, Prune(r) PROVE Unstored /\ Fine
  <2>1. /\ \A s \in Requests \ {r} : job'[s] = job[s]
        /\ job[r].phase = "storing" /\ job'[r].phase = "over"
        /\ job'[r].user = job[r].user
    BY <1>7, JobSteps
  <2> DEFINE rows == RowsOf(job[r].user)
  <2>2. memory' = (memory \ rows) \cup Kept(rows)
    BY <1>7 DEF Prune
  <2>3. Kept(rows) \subseteq rows /\ rows \subseteq memory
    BY DEF Kept, RowsOf
  <2>4. Unstored
    BY <1>0, <2>1
  <2> SUFFICES ASSUME NEW u \in UserIds
               PROVE  IsFiniteSet(Unpruned(u)') /\ Cardinality(Settled(u)') <= MaxEntries
    BY <2>4
  <2>5. Unpruned(u)' \subseteq Unpruned(u)
    BY <2>1, UnprunedMember, UnprunedMemberNext
  <2>6. IsFiniteSet(Unpruned(u)')
    BY <2>5, FS_Subset DEF LimitInv, Limited
  <2>7. CASE u = job[r].user
    <3>1. Distinct(rows)
      <4>1. IsFiniteSet(rows)
        BY <2>3, FS_Subset DEF LimitInv, RowsDistinct
      <4> QED
        BY <4>1, <2>3 DEF LimitInv, RowsDistinct, Distinct, MemoryTypeOK, Rows
    <3>2. /\ IsFiniteSet(Kept(rows)) /\ Cardinality(Kept(rows)) \in Nat
          /\ Cardinality(Kept(rows)) <= MaxEntries
      BY <3>1, KeptBounded
    <3>3. Settled(u)' \subseteq Kept(rows)
      BY <2>2, <2>7 DEF Settled, RowsOf
    <3>4. /\ Cardinality(Settled(u)') <= Cardinality(Kept(rows))
          /\ Cardinality(Settled(u)') \in Nat
      BY <3>2, <3>3, FS_Subset, FS_CardinalityType
    <3> QED
      BY <2>6, <3>2, <3>4, MaxEntriesAssumption
  <2>8. CASE u # job[r].user
    <3>1. Unpruned(u)' = Unpruned(u)
      <4>1. Unpruned(u)' = Unpruned(u) \cup {}
        BY <2>1, <2>8, UnprunedAdds
      <4> QED
        BY <4>1
    <3>2. Settled(u)' \subseteq Settled(u)
      BY <2>2, <2>3, <3>1 DEF Settled, RowsOf
    <3> QED
      BY <2>6, <3>2, NoneSettled
  <2> QED
    BY <2>7, <2>8
<1>8. ASSUME UNCHANGED <<memory, now, job>> PROVE Unstored /\ Fine
  <2>1. ASSUME NEW u \in UserIds PROVE Unpruned(u)' = Unpruned(u)
    BY <1>8 DEF Unpruned
  <2>2. memory' \subseteq memory /\ job' = job
    BY <1>8
  <2>3. Unstored
    BY <1>0, <2>2
  <2>4. Fine
    BY <2>1, <2>2, NothingStored
  <2> QED
    BY <2>3, <2>4
<1> HIDE DEF Unstored, Fine
<1>9. Unstored /\ Fine
  BY <1>1, <1>2, <1>3, <1>4, <1>5, <1>6, <1>7, <1>8 DEF MemoryNext
<1> QED
  BY <1>9 DEF Limited, Unstored, Fine

THEOREM LimitHolds == Spec => []LimitInv
<1>1. Init => LimitInv
  BY LimitInit
<1>2. IInv /\ LimitInv /\ [Next]_vars => LimitInv'
  <2> SUFFICES ASSUME IInv, LimitInv, [Next]_vars PROVE LimitInv'
    OBVIOUS
  <2>1. MemoryNext \/ UNCHANGED <<memory, now, job>>
    BY DEF Next, vars
  <2> QED
    BY <2>1, RowsStep, LimitedStep DEF IInv, LimitInv
<1> QED
  BY <1>1, <1>2, InvariantHolds, PTL DEF Spec

\* A user's memories exceed the limit by what is stored and not yet pruned.
THEOREM WithinLimit == Spec => []MemoryBounded
<1>1. IInv /\ LimitInv => MemoryBounded
  <2> SUFFICES ASSUME IInv, LimitInv, NEW u \in UserIds
               PROVE  Cardinality(RowsOf(u)) <= MaxEntries + Cardinality(Unpruned(u))
    BY DEF MemoryBounded
  <2> DEFINE fresh == {row \in RowsOf(u) : row.key \in Unpruned(u)}
             keyOf == [row \in fresh |-> row.key]
  <2>1. /\ IsFiniteSet(Unpruned(u)) /\ Cardinality(Unpruned(u)) \in Nat
    BY FS_CardinalityType DEF LimitInv, Limited
  <2>2. IsFiniteSet(fresh) /\ Cardinality(fresh) <= Cardinality(Unpruned(u))
    <3>1. keyOf \in [fresh -> Unpruned(u)]
      OBVIOUS
    <3>2. \A x, y \in fresh : keyOf[x] = keyOf[y] => x = y
      BY DEF RowsOf, LimitInv, RowsDistinct
    <3>3. keyOf \in Injection(fresh, Unpruned(u))
      BY <3>1, <3>2, Fun_IsInj
    <3> QED
      BY <2>1, <3>3, FS_Injection
  <2>3. RowsOf(u) = Settled(u) \cup fresh
    BY DEF Settled
  <2>4. IsFiniteSet(Settled(u))
    <3>1. Settled(u) \in SUBSET memory
      BY DEF Settled, RowsOf
    <3> QED
      BY <3>1, FS_Subset DEF LimitInv, RowsDistinct
  <2> HIDE DEF fresh
  <2>5. Cardinality(RowsOf(u))
          = Cardinality(Settled(u)) + Cardinality(fresh) - Cardinality(Settled(u) \cap fresh)
    BY <2>2, <2>3, <2>4, FS_Union
  <2>6. /\ Cardinality(Settled(u)) \in Nat /\ Cardinality(fresh) \in Nat
        /\ Cardinality(Settled(u) \cap fresh) \in Nat
    BY <2>2, <2>4, FS_Intersection, FS_CardinalityType
  <2>7. Cardinality(Settled(u)) <= MaxEntries
    BY DEF LimitInv, Limited
  <2> QED
    BY <2>1, <2>2, <2>5, <2>6, <2>7, MaxEntriesAssumption
<1> QED
  BY <1>1, InvariantHolds, LimitHolds, PTL

-----------------------------------------------------------------------------
(* What is lost.                                                           *)

\* A memory survives but a deletion of it, and a prune of a full store.
LEMMA Survives ==
  ASSUME IInv, LimitInv, MemoryNext, NEW row \in memory,
         ~ \E new \in memory' : new.user = row.user /\ new.key = row.key
  PROVE  \/ \E r \in Requests : Deletes(r, row) /\ job'[r].phase = "over"
         \/ /\ Cardinality({new \in memory' : new.user = row.user}) = MaxEntries
            /\ \A new \in memory' : new.user = row.user => Ahead(new, row)
<1>0. MemoryTypeOK /\ row \notin memory'
  BY DEF IInv
<1>1. ASSUME NEW r \in Requests, Delete(r) PROVE Deletes(r, row) /\ job'[r].phase = "over"
  <2>1. row \in RowsAt(job[r].user, job[r].deletes)
    BY <1>0, <1>1 DEF Delete
  <2>2. job[r].phase = "accepted" /\ job'[r].phase = "over"
    BY <1>0, <1>1, JobSteps
  <2> QED
    BY <2>1, <2>2 DEF Deletes, RowsAt
<1>2. ASSUME NEW r \in Requests, Remember(r) PROVE FALSE
  <2> DEFINE key == Head(job[r].items)
             old == RowsAt(job[r].user, key)
             count == IF old = {} THEN 1 ELSE 1 + (CHOOSE x \in old : TRUE).access_count
             new == Row(job[r].user, key, job[r].account, count, now')
  <2>1. memory' = (memory \ old) \cup {new}
    BY <1>0, <1>2 DEF Remember, Upsert
  <2>2. new.user = job[r].user /\ new.key = key
    BY DEF Row
  <2> HIDE DEF new
  <2>3. row.user = job[r].user /\ row.key = key
    BY <1>0, <2>1 DEF RowsAt
  <2> QED
    BY <2>1, <2>2, <2>3
<1>3. ASSUME NEW r \in Requests, Prune(r)
      PROVE  /\ Cardinality({new \in memory' : new.user = row.user}) = MaxEntries
             /\ \A new \in memory' : new.user = row.user => Ahead(new, row)
  <2> DEFINE rows == RowsOf(job[r].user)
  <2>1. memory' = (memory \ rows) \cup Kept(rows)
    BY <1>3 DEF Prune
  <2>2. Kept(rows) \subseteq rows /\ rows = {x \in memory : x.user = job[r].user}
    BY DEF Kept, RowsOf
  <2>3. row \in rows \ Kept(rows) /\ row.user = job[r].user
    BY <1>0, <2>1, <2>2
  <2>4. Distinct(rows)
    <3>1. IsFiniteSet(rows)
      BY <2>2, FS_Subset DEF LimitInv, RowsDistinct
    <3> QED
      BY <1>0, <3>1, <2>2 DEF LimitInv, RowsDistinct, Distinct, MemoryTypeOK, Rows
  <2> HIDE DEF rows
  <2>5. {new \in memory' : new.user = row.user} = Kept(rows)
    BY <2>1, <2>2, <2>3
  <2> QED
    BY <2>3, <2>4, <2>5, DroppedLast
<1>4. \E r \in Requests : Delete(r) \/ Remember(r) \/ Prune(r)
  BY <1>0 DEF MemoryNext, Authenticate, Start, Learn, Abandon
<1> QED
  BY <1>1, <1>2, <1>3, <1>4

\* A memory is lost to its deletion, or to memories upserted more often, or
\* as often and the last time later.
THEOREM MostUsedStay == Spec => MostUsedSurvive
<1>1. IInv /\ LimitInv /\ [Next]_vars =>
        [\A row \in memory :
           \/ \E new \in memory' : new.user = row.user /\ new.key = row.key
           \/ \E r \in Requests : Deletes(r, row) /\ job'[r].phase = "over"
           \/ LET left == {new \in memory' : new.user = row.user}
              IN  /\ Cardinality(left) = MaxEntries
                  /\ \A new \in left :
                       \/ new.access_count > row.access_count
                       \/ /\ new.access_count = row.access_count
                          /\ new.updated_at > row.updated_at]_vars
  <2>1. CASE MemoryNext
    BY <2>1, Survives DEF Ahead
  <2>2. CASE UNCHANGED memory
    BY <2>2
  <2> QED
    BY <2>1, <2>2 DEF Next, vars
<1> QED
  BY <1>1, InvariantHolds, LimitHolds, PTL DEF Spec, MostUsedSurvive

=============================================================================
