------------------------------ MODULE Accounts ------------------------------
(***************************************************************************)
(* What a sign-up is for: logins (routes/auth.ts, authenticate of          *)
(* SignupService) read the tables of Signup while sign-ups still write     *)
(* them, and hand out signed session tokens; AgentCredentialService gives  *)
(* agents tokens with a time to live of the caller's choice.  Both kinds   *)
(* are judged by the clock alone, with no row to revoke.  A password is    *)
(* named by the sign-up request that chose it.  Tokens do not influence    *)
(* each other, so one per login and one of an agent are watched.           *)
(***************************************************************************)
EXTENDS Signup, Naturals

CONSTANTS
    Logins,    \* login requests
    Agents,    \* members of type "agent"
    Ttls,      \* the times to live agents ask for
    NaN,       \* the time that is no number: Date arithmetic gone wrong
    Hour,      \* SESSION_TTL_MS and MAX_AGENT_CREDENTIAL_TTL_MS, in ticks
    MaxClock,  \* bound: the clock stops here
    NoLogin, NoKey

\* "mine" and "since" are history: whether the account was the sender's own
\* when the login was sent, and when its token was issued.
LoginRecords ==
    [pc : {"findByEmail", "verifyPassword", "findById",
           "ok", "invalid-credentials", "server-error"},
     password : Requests, address : Emails, mine : BOOLEAN,
     member : MemberIds \cup {NoMember}, exp : Nat, since : Nat]

Keys == [agent : Agents, issuedAt : Nat, expiresAt : Nat \cup {NaN}]

ASSUME AccountsAssumption ==
    /\ Hour \in Nat \ {0}
    /\ MaxClock \in Nat
    /\ NaN \notin Nat
    /\ Ttls \subseteq Nat \cup {NaN}
    /\ NoLogin \notin LoginRecords
    /\ NoKey \notin Keys

Times == Nat \cup {NaN}

VARIABLES
    clock,
    login,   \* each login and, in the end, the session token it returned
    key      \* the credential issued to an agent

tokens == <<clock, login, key>>

allVars == <<vars, tokens>>

AccountsTypeOK ==
    /\ clock \in Nat
    /\ login \in [Logins -> LoginRecords \cup {NoLogin}]
    /\ key \in Keys \cup {NoKey}

AccountsInit ==
    /\ Init
    /\ clock = 0
    /\ login = [l \in Logins |-> NoLogin]
    /\ key = NoKey

At(l, label) == login[l] # NoLogin /\ login[l].pc = label

-----------------------------------------------------------------------------
(* POST /login *)

\* Somebody who chose the password of r tries it with an address.
LoginArrives(l, r, e) ==
    /\ login[l] = NoLogin
    /\ login' = [login EXCEPT ![l] =
                   [pc |-> "findByEmail", password |-> r, address |-> e,
                    mine |-> pc[r] = "created" /\ email[r] = e,
                    member |-> NoMember, exp |-> 0, since |-> 0]]
    /\ UNCHANGED <<vars, clock, key>>

\* Mutant: the member is looked up by identity and not by credential.
LoginFindsByIdentity(l) ==
    LET holders == {id \in MemberIds : identityRef[id] = login[l].address}
    IN  /\ At(l, "findByEmail")
        /\ login' = [login EXCEPT
              ![l].member = IF holders = {} THEN NoMember
                                            ELSE CHOOSE id \in holders : TRUE,
              ![l].pc = IF credential[login[l].address] = login[l].password
                          THEN "findById" ELSE "invalid-credentials"]
        /\ UNCHANGED <<vars, clock, key>>

LoginFinds(l) ==
    LET row == credential[login[l].address]
    IN  /\ At(l, "findByEmail")
        /\ login' = [login EXCEPT ![l].member = row,
                                  ![l].pc = IF row = NoMember
                                              THEN "invalid-credentials"
                                              ELSE "verifyPassword"]
        /\ UNCHANGED <<vars, clock, key>>

\* The hash in a row is that of the request which inserted it.
VerifyPassword(l) ==
    /\ At(l, "verifyPassword")
    /\ login' = [login EXCEPT
          ![l].pc = IF login[l].member = login[l].password
                      THEN "findById" ELSE "invalid-credentials"]
    /\ UNCHANGED <<vars, clock, key>>

\* members.findById finds the row the credential refers to, for members are
\* not deleted; the token is issued at the time of the answer.
Grant(l) ==
    /\ At(l, "findById")
    /\ login' = [login EXCEPT ![l].pc = "ok",
                              ![l].exp = clock + Hour,
                              ![l].since = clock]
    /\ UNCHANGED <<vars, clock, key>>

LoginFails(l) ==
    /\ failures
    /\ \E label \in {"findByEmail", "verifyPassword", "findById"} : At(l, label)
    /\ login' = [login EXCEPT ![l].pc = "server-error"]
    /\ UNCHANGED <<vars, clock, key>>

\* SessionTokenService.verify, on a token whose signature is right.
SessionAccepted(l) == At(l, "ok") /\ ~(clock >= login[l].exp)

-----------------------------------------------------------------------------
(* AgentCredentialService *)

\* Comparisons with NaN are false, and sums with it are NaN.
Exceeds(a, b) == a # NaN /\ a > b

Plus(a, b) == IF b = NaN THEN NaN ELSE a + b

\* Mutant: the time to live has no upper bound.
AdmissiblePositive(ttl) == ~(ttl # NaN /\ ttl <= 0)

\* AgentCredential.create throws for ttl <= 0 and for ttl > the maximum.
Admissible(ttl) == ~(ttl # NaN /\ ttl <= 0) /\ ~Exceeds(ttl, Hour)

\* issue, for a member of type "agent".
IssueKey(a, ttl) ==
    /\ key = NoKey
    /\ Admissible(ttl)
    /\ key' = [agent |-> a, issuedAt |-> clock, expiresAt |-> Plus(clock, ttl)]
    /\ UNCHANGED <<vars, clock, login>>

Expired(k) == k.expiresAt # NaN /\ clock >= k.expiresAt

\* verify, with the token of the credential and scopes it covers.
KeyAccepted == key # NoKey /\ ~Expired(key)

-----------------------------------------------------------------------------
Tick ==
    /\ clock < MaxClock
    /\ clock' = clock + 1
    /\ UNCHANGED <<vars, login, key>>

LoginStep(l) ==
    \/ \E r \in Requests, e \in Emails : LoginArrives(l, r, e)
    \/ LoginFinds(l)
    \/ VerifyPassword(l)
    \/ Grant(l)
    \/ LoginFails(l)

AccountsNext ==
    \/ Next /\ UNCHANGED tokens
    \/ \E l \in Logins : LoginStep(l)
    \/ \E a \in Agents, ttl \in Ttls : IssueKey(a, ttl)
    \/ Tick

AccountsSpec == AccountsInit /\ [][AccountsNext]_allVars

FairAccounts == AccountsSpec /\ Fairness

-----------------------------------------------------------------------------
\* Whoever has been told 201 gets in: a login sent with that address and the
\* password chosen then is never answered 401, whatever other sign-ups, edits
\* of members and failures come in between.
RegisteredGetsIn ==
    \A l \in Logins : At(l, "invalid-credentials") => ~login[l].mine

\* Nobody gets in for somebody else: a session belongs to the member that was
\* signed up with its password and, while nobody edits members, that member's
\* identity is the address the login was made with.
SessionsAreOwned ==
    \A l \in Logins : At(l, "ok") =>
        /\ login[l].member = login[l].password
        /\ email[login[l].password] = login[l].address
        /\ ~edits => identityRef[login[l].member] = login[l].address

\* "One hour is the hard ceiling": no session and no agent credential is
\* accepted an hour after it was issued - except a credential asked for with
\* a time to live that is no number, which passes both checks of create and
\* never expires.
NothingOutlivesTheHour ==
    /\ \A l \in Logins : SessionAccepted(l) => clock < login[l].since + Hour
    /\ KeyAccepted /\ key.expiresAt # NaN => clock < key.issuedAt + Hour

\* What a login may rely on at each of its steps; with SignupInv, inductive.
LoginInv(l) ==
    LET x == login[l]
    IN  /\ x.mine => pc[x.password] = "created" /\ email[x.password] = x.address
        /\ x.pc = "invalid-credentials" => ~x.mine
        /\ x.pc \in {"verifyPassword", "findById", "ok"} =>
             x.member \in Requests /\ credential[x.address] = x.member
        /\ x.pc \in {"findById", "ok"} => x.member = x.password
        /\ x.pc = "ok" => x.exp = x.since + Hour

AccountsInv ==
    /\ SignupInv
    /\ AccountsTypeOK
    /\ \A l \in Logins : login[l] # NoLogin => LoginInv(l)
    /\ key # NoKey /\ key.expiresAt # NaN =>
         key.expiresAt <= key.issuedAt + Hour
=============================================================================
