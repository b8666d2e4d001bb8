--------------------------- MODULE AccountSessions ---------------------------
(***************************************************************************)
(* The Platform's accounts and the tokens issued for them.  A Platform     *)
(* process makes the tables and the demo accounts before it serves; two of *)
(* them may start on one database, and be killed, at any step.  A client   *)
(* holds a token for a while, through restarts of the Platform; one that   *)
(* keeps its credentials (the resident Agent) logs in again on a 401 and   *)
(* sends the request once more, unless the log-in is answered by an error. *)
(*                                                                         *)
(* A name stands for the account with that name and for its user_id: rows  *)
(* are never deleted.  A password is right or wrong, a secret one of a few *)
(* values.  How a token is encoded and signed is left out: it is one of    *)
(* this Platform's if its secret is the process's.                         *)
(***************************************************************************)
EXTENDS Integers

CONSTANTS Server,       \* Platform processes on one database
          Client,       \* programs that send requests for a user
          Secret,       \* RDH_JWT_SECRET's values, the built-in one among them
          BuiltIn,      \* "local-dev-only-not-a-real-secret"
          TTL,          \* jwt_ttl_seconds
          MaxClock      \* bound: the clock

ASSUME SecretAssumption == BuiltIn \in Secret
ASSUME TTLAssumption == TTL \in Nat
ASSUME ClockBound == MaxClock \in Nat

VARIABLES tables,       \* the tables exist
          account,      \* each account's row, as committed
          server,       \* each process: where it is, and its secret
          clock,
          client,       \* each client: its user, whether it has the password, and keeps it
          token,        \* the access token it holds
          request       \* its request

accountVars == <<tables, account, server, clock, client, token, request>>
databaseVars == <<tables, account, server>>

------------------------------------------------------------------------------
Name == {"admin", "recorder", "annotator"}

\* The accounts' roles, which are also all the roles that endpoints ask for.
RolesOf == [n \in Name |-> {n}]

Allowances == {{"admin"}, {"admin", "recorder"}, {"annotator"}}

Row == {"absent", "active", "disabled"}

ServerStep == {"down", "schema", "making", "counting", "seeding", "inserted", "serving"}

Token == [user : Name, secret : Secret, exp : Nat]
NoToken == [user |-> "nobody", secret |-> BuiltIn, exp |-> 0]

\* step: on the way ("sent", "read"), waiting for a new token ("login"), or answered.
\* asked: when it began.  why, judged: what the latest 401 says, and when it was given.
\* login: how the log-in ended that the request has made; only "renewed" leads to a second try.
RequestStep == {"none", "sent", "read", "login", "served", "forbidden", "refused"}
Why == {"", "signature", "expired", "account"}
Login == {"", "renewed", "account", "password", "error"}
NoRequest == [step |-> "none", server |-> "nowhere", allowed |-> {}, login |-> "",
              asked |-> 0, judged |-> 0, why |-> ""]

AccountInit ==
    /\ tables = FALSE
    /\ account = [n \in Name |-> "absent"]
    /\ server = [p \in Server |-> [at |-> "down", secret |-> BuiltIn]]
    /\ clock = 0
    /\ client \in [Client -> [user : Name, right : BOOLEAN, keeps : BOOLEAN]]
    /\ token = [c \in Client |-> NoToken]
    /\ request = [c \in Client |-> NoRequest]

------------------------------------------------------------------------------
\* A Platform process starts: lifespan.

Goes(p, step) == server' = [server EXCEPT ![p].at = step]

Serving(p) == server[p].at = "serving"

ReadyForProduction(production, secret) == production => secret # BuiltIn

Start(p) ==
    /\ server[p].at = "down"
    /\ \E production \in BOOLEAN, secret \in Secret :
         /\ ReadyForProduction(production, secret)
         /\ server' = [server EXCEPT ![p] = [at |-> "schema", secret |-> secret]]
    /\ UNCHANGED <<tables, account, clock, client, token, request>>

\* create_all looks for the tables first, and then makes what it has not found.
LookForTables(p) ==
    /\ server[p].at = "schema"
    /\ Goes(p, IF tables THEN "counting" ELSE "making")
    /\ UNCHANGED <<tables, account, clock, client, token, request>>

\* CREATE TABLE fails if somebody else has made them meanwhile: the start raises.
MakeTables(p) ==
    /\ server[p].at = "making"
    /\ Goes(p, IF tables THEN "down" ELSE "counting")
    /\ tables' = TRUE
    /\ UNCHANGED <<account, clock, client, token, request>>

SomeAccount == \E n \in Name : account[n] # "absent"

CountUsers(p) ==
    /\ server[p].at = "counting"
    /\ Goes(p, IF SomeAccount THEN "serving" ELSE "seeding")
    /\ UNCHANGED <<tables, account, clock, client, token, request>>

\* The flush waits for another process's uncommitted row of the same name; if that one has
\* been committed, the name is not unique, and the start raises.
InsertUsers(p) ==
    /\ server[p].at = "seeding"
    /\ \A q \in Server : server[q].at # "inserted"
    /\ Goes(p, IF SomeAccount THEN "down" ELSE "inserted")
    /\ UNCHANGED <<tables, account, clock, client, token, request>>

\* Mutant: each account is committed by itself, and the process dies after the first.
FirstOnly == [account EXCEPT !["admin"] = "active"]

\* The three rows are one transaction.
Seeded == [n \in Name |-> "active"]

CommitUsers(p) ==
    /\ server[p].at = "inserted"
    /\ account' = Seeded
    /\ Goes(p, "serving")
    /\ UNCHANGED <<tables, clock, client, token, request>>

\* It is stopped or killed: what it has not committed is rolled back, and the requests it
\* was handling get no answer.
StopServer(p) ==
    /\ server[p].at # "down"
    /\ Goes(p, "down")
    /\ request' = [c \in Client |-> IF request[c].step \in {"sent", "read"} /\ request[c].server = p
                                   THEN NoRequest ELSE request[c]]
    /\ UNCHANGED <<tables, account, clock, client, token>>

\* Somebody takes a client's account out of use, in the database.
Disable(c) ==
    /\ account[client[c].user] = "active"
    /\ account' = [account EXCEPT ![client[c].user] = "disabled"]
    /\ UNCHANGED <<tables, server, clock, client, token, request>>

Tick ==
    /\ clock < MaxClock
    /\ clock' = clock + 1
    /\ UNCHANGED <<databaseVars, client, token, request>>

------------------------------------------------------------------------------
\* POST /auth/login.

CreateToken(p, user) == [user |-> user, secret |-> server[p].secret, exp |-> clock + TTL]

\* get_credentials.
Known(user) == account[user] # "absent"

\* verify_password.
PasswordMatches(c) == client[c].right

\* Why AuthService.login refuses it, "" if it does not.
LoginProblem(c) ==
    IF ~Known(client[c].user) \/ ~PasswordMatches(c) THEN "password"
    ELSE IF account[client[c].user] # "active" THEN "account" ELSE ""

\* Mutant: the new token is put into another client object.
Unrenewed(c, t) == UNCHANGED token

\* The token is replaced in the client object that everybody shares.
Renew(c, t) == token' = [token EXCEPT ![c] = t]

\* A program starts, or its user logs in on the login page.
LogIn(c, p) ==
    /\ request[c].step = "none"
    /\ token[c] = NoToken
    /\ Serving(p)
    /\ LoginProblem(c) = ""
    /\ token' = [token EXCEPT ![c] = CreateToken(p, client[c].user)]
    /\ UNCHANGED <<databaseVars, clock, client, request>>

\* The program ends, or its user leaves the page.
LogOut(c) ==
    /\ request[c].step = "none"
    /\ token[c] # NoToken
    /\ token' = [token EXCEPT ![c] = NoToken]
    /\ UNCHANGED <<databaseVars, clock, client, request>>

------------------------------------------------------------------------------
\* A request of a logged-in client: _send_authed, and current_user and require_roles.

Ask(c, p) ==
    /\ request[c].step = "none"
    /\ token[c] # NoToken
    /\ Serving(p)
    /\ \E roles \in Allowances :
         request' = [request EXCEPT ![c] = [NoRequest EXCEPT !.step = "sent", !.server = p,
                                               !.allowed = roles, !.asked = clock]]
    /\ UNCHANGED <<databaseVars, clock, client, token>>

SetRequest(c, r) == request' = [request EXCEPT ![c] = r]

\* An AuthError is a 401.  The first one makes a client that has credentials log in again.
Unauthorized(c, why) ==
    LET next == IF client[c].keeps /\ request[c].login = "" THEN "login" ELSE "refused"
    IN  SetRequest(c, [request[c] EXCEPT !.step = next, !.judged = clock, !.why = why])

\* decode_access_token, which takes a token that expires at this very moment.
TokenProblem(c) ==
    IF token[c].secret # server[request[c].server].secret THEN "signature"
    ELSE IF token[c].exp < clock THEN "expired" ELSE ""

Decode(c) ==
    /\ request[c].step = "sent"
    /\ IF TokenProblem(c) = "" THEN SetRequest(c, [request[c] EXCEPT !.step = "read"])
                               ELSE Unauthorized(c, TokenProblem(c))
    /\ UNCHANGED <<databaseVars, clock, client, token>>

\* A user's roles are the row's: those in the token decide nothing.
RolesAllow(user, allowed) == "admin" \in RolesOf[user] \/ allowed \cap RolesOf[user] # {}

LoadUser(c) ==
    /\ request[c].step = "read"
    /\ IF account[token[c].user] # "active" THEN Unauthorized(c, "account")
       ELSE IF RolesAllow(token[c].user, request[c].allowed)
       THEN SetRequest(c, [request[c] EXCEPT !.step = "served"])
       ELSE SetRequest(c, [request[c] EXCEPT !.step = "forbidden"])
    /\ UNCHANGED <<databaseVars, clock, client, token>>

\* _relogin at one process, and the request once more, perhaps at another one.  Where the
\* log-in is refused the first 401 is the answer.
Relogin(c, p, q) ==
    /\ request[c].step = "login"
    /\ Serving(p) /\ Serving(q)
    /\ IF LoginProblem(c) = ""
       THEN /\ Renew(c, CreateToken(p, client[c].user))
            /\ SetRequest(c, [request[c] EXCEPT !.step = "sent", !.server = q, !.login = "renewed"])
       ELSE /\ SetRequest(c, [request[c] EXCEPT !.step = "refused", !.login = LoginProblem(c)])
            /\ UNCHANGED token
    /\ UNCHANGED <<databaseVars, clock, client>>

\* The log-in is answered by an error that says nothing of the account (a Platform without
\* its database, a proxy without a Platform): login raises for any answer but 200, _relogin
\* catches it, and the first 401 is the answer.
ReloginFails(c) ==
    /\ request[c].step = "login"
    /\ SetRequest(c, [request[c] EXCEPT !.step = "refused", !.login = "error"])
    /\ UNCHANGED <<databaseVars, clock, client, token>>

\* The answer is used; or there is none, and the HTTP client raises.
Over(c) ==
    /\ request[c].step # "none"
    /\ SetRequest(c, NoRequest)
    /\ UNCHANGED <<databaseVars, clock, client, token>>

------------------------------------------------------------------------------
ServerNext ==
    \E p \in Server :
        \/ Start(p) \/ LookForTables(p) \/ MakeTables(p) \/ CountUsers(p) \/ InsertUsers(p)
        \/ CommitUsers(p) \/ StopServer(p)

ClientNext ==
    \E c \in Client :
        \/ Disable(c) \/ LogOut(c) \/ Decode(c) \/ LoadUser(c) \/ ReloginFails(c) \/ Over(c)
        \/ \E p \in Server : LogIn(c, p) \/ Ask(c, p)
        \/ \E p, q \in Server : Relogin(c, p, q)

AccountNext == ServerNext \/ ClientNext \/ Tick

AccountSpec == AccountInit /\ [][AccountNext]_accountVars

------------------------------------------------------------------------------
\* The types of the accounts, the processes and the clients.
AccountTypeOK ==
    /\ tables \in BOOLEAN
    /\ account \in [Name -> Row]
    /\ server \in [Server -> [at : ServerStep, secret : Secret]]
    /\ clock \in 0 .. MaxClock
    /\ client \in [Client -> [user : Name, right : BOOLEAN, keeps : BOOLEAN]]
    /\ token \in [Client -> Token \cup {NoToken}]
    /\ request \in [Client -> [step : RequestStep, server : Server \cup {"nowhere"},
                               allowed : Allowances \cup {{}}, login : Login,
                               asked : Nat, judged : Nat, why : Why]]

\* However many processes start on a database, and whenever they are killed, all three
\* accounts or none exist.
AccountsWhole == SomeAccount => \A n \in Name : account[n] # "absent"

\* No process that serves refuses who has the right password as unknown.
PasswordSuffices ==
    \A c \in Client : client[c].right /\ (\E p \in Server : Serving(p)) => LoginProblem(c) # "password"

\* A client that keeps its credentials is refused in the end only
\*  - because its account is out of use;
\*  - because the log-in that it made was itself answered by an error, after a 401 which the
\*    token that it still holds had earned: it is not tried again within the request;
\*  - or with a token that it got since the request began, and for an expired one only if the
\*    request has taken longer than a token lives.
KeeperOutlivesTokens ==
    \A c \in Client : client[c].keeps /\ request[c].step = "refused" =>
        \/ "account" \in {request[c].why, request[c].login} /\ account[client[c].user] = "disabled"
        \/ /\ request[c].login = "error" /\ request[c].why \in {"signature", "expired"}
           /\ request[c].why = "expired" => token[c].exp < request[c].judged
        \/ /\ request[c].login = "renewed" /\ request[c].why \in {"signature", "expired"}
           /\ token[c].exp >= request[c].asked + TTL
           /\ request[c].why = "expired" => request[c].judged > request[c].asked + TTL

\* Nobody is shut out without a reason: neither by starts that race or die while they make
\* the accounts, nor by a token that has expired or that a restart has made worthless, as long
\* as a log-in is answered by what it finds of the account.
NobodyShutOut == AccountsWhole /\ PasswordSuffices /\ KeeperOutlivesTokens
=============================================================================
