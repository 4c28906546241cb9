--------------------------- MODULE AccountsProofs ---------------------------
(***************************************************************************)
(* SignupInv is inductive, for any number of requests, addresses, edits    *)
(* and failures, and the three safety properties of sign-up follow from    *)
(* it.  AccountsInv is inductive too: logins change nothing of sign-up, so *)
(* SignupInv carries over, and what a login has read of the credentials    *)
(* table stays true because rows of that table are never changed.          *)
(***************************************************************************)
EXTENDS Accounts, TLAPS

-----------------------------------------------------------------------------
(* Sign-up *)

LEMMA InitSignup == Init => SignupInv
BY SignupAssumption DEF Init, SignupInv, TypeOK, MemberIds, Refs, Answers,
                        CreatedOwnsEmail

\* One step of sign-up, by the statement it executes.
LEMMA StepSignup == SignupInv /\ [Next]_vars => SignupInv'
<1> SUFFICES ASSUME SignupInv, [Next]_vars PROVE SignupInv'
  OBVIOUS
<1> USE SignupAssumption
<1>1. ASSUME NEW r \in Requests, Arrive(r) PROVE SignupInv'
  BY <1>1 DEF Arrive, conditions, SignupInv, TypeOK, MemberIds, Refs, Answers,
              CreatedOwnsEmail
<1>2. ASSUME NEW r \in Requests, FindByEmail(r) PROVE SignupInv'
  BY <1>2 DEF FindByEmail, conditions, SignupInv, TypeOK, MemberIds, Refs, Answers,
              CreatedOwnsEmail
<1>3. ASSUME NEW r \in Requests, SaveMember(r) PROVE SignupInv'
  BY <1>3 DEF SaveMember, conditions, RefIsFree, SignupInv, TypeOK, MemberIds, Refs,
              Answers, CreatedOwnsEmail
<1>4. ASSUME NEW r \in Requests, SaveCredential(r) PROVE SignupInv'
  BY <1>4 DEF SaveCredential, conditions, SignupInv, TypeOK, MemberIds, Refs, Answers,
              CreatedOwnsEmail
<1>5. ASSUME NEW r \in Requests, Fail(r) PROVE SignupInv'
  BY <1>5 DEF Fail, conditions, SignupInv, TypeOK, MemberIds, Refs, Answers,
              CreatedOwnsEmail
<1>6. ASSUME NEW id \in MemberIds, NEW ref \in Refs, EditMember(id, ref)
      PROVE  SignupInv'
  BY <1>6 DEF EditMember, conditions, RefIsFree, SignupInv, TypeOK, MemberIds, Refs,
              Answers, CreatedOwnsEmail
<1>7. CASE UNCHANGED vars
  BY <1>7 DEF vars, conditions, SignupInv, TypeOK, CreatedOwnsEmail
<1> QED
  BY <1>1, <1>2, <1>3, <1>4, <1>5, <1>6, <1>7 DEF Next, Proceed

\* The tables and the requests fit together in every reachable state.
THEOREM SignupInvariant == Spec => []SignupInv
BY InitSignup, StepSignup, PTL DEF Spec

\* Whoever is answered 201 owns the address for ever (signup-service.ts:44,
\* schema.ts:109): no two requests are told they created the same account.
THEOREM CreatedIsExclusive == Spec => []CreatedOwnsEmail
<1>1. SignupInv => CreatedOwnsEmail
  BY DEF SignupInv
<1> QED
  BY <1>1, SignupInvariant, PTL

\* Without edits a request whose member was inserted holds the identity of its
\* address, so no other has a credential for it (schema.ts:90).
LEMMA SignupIdentity == SignupInv => IdentityIndexGuards
<1> SUFFICES ASSUME SignupInv, ~edits, NEW r \in Requests,
                    pc[r] = "saveCredential",
                    credential[email[r]] # NoMember
             PROVE  FALSE
  BY DEF IdentityIndexGuards
<1> DEFINE owner == credential[email[r]]
<1>1. /\ owner \in Requests
      /\ pc[owner] = "created"
      /\ email[owner] = email[r]
  BY DEF SignupInv, TypeOK
<1>2. identityRef[owner] = email[r] /\ identityRef[r] = email[r]
  BY <1>1 DEF SignupInv
<1>3. owner # r /\ owner \in MemberIds /\ r \in MemberIds
  BY <1>1 DEF MemberIds
<1>4. email[r] \in Refs
  BY DEF SignupInv, TypeOK, Refs
<1> QED
  BY <1>2, <1>3, <1>4, SignupAssumption DEF SignupInv

\* Hence the identity index alone settles every race for an address.
THEOREM IdentityIndexSuffices == Spec => []IdentityIndexGuards
BY SignupIdentity, SignupInvariant, PTL

\* Without edits a login by e-mail leads to the member with that identity
\* (signup-service.ts:55-61).
THEOREM LoginIsFaithful == Spec => []LoginFindsIdentity
<1>1. SignupInv => LoginFindsIdentity
  BY DEF SignupInv, LoginFindsIdentity
<1> QED
  BY <1>1, SignupInvariant, PTL

\* One step without edits and failures strands nobody: a member row without its
\* credential belongs to a request that is about to insert it, and the identity
\* index has made sure that it can.
LEMMA StepStranded ==
    SignupInv /\ NoStrandedAddress /\ [Next]_vars => NoStrandedAddress'
<1> SUFFICES ASSUME SignupInv, NoStrandedAddress, [Next]_vars,
                    ~edits', ~failures', NEW r \in Requests,
                    identityRef'[r] # NoRef
             PROVE  pc'[r] = "saveCredential" \/ credential'[email'[r]] = r
  BY DEF NoStrandedAddress
<1>1. ~edits /\ ~failures /\ email' = email
  BY DEF Next, Proceed, Arrive, FindByEmail, SaveMember, SaveCredential, Fail,
         EditMember, vars, conditions
<1>2. /\ Requests \subseteq MemberIds
      /\ identityRef \in [MemberIds -> Refs \cup {NoRef}]
      /\ credential \in [Emails -> MemberIds \cup {NoMember}]
      /\ email \in [Requests -> Emails]
      /\ pc \in [Requests ->
            {"new", "findByEmail", "saveMember", "saveCredential"} \cup Answers]
  BY DEF SignupInv, TypeOK, MemberIds
<1>3. IdentityIndexGuards
  BY SignupIdentity
<1>4. ASSUME NEW q \in Requests, Proceed(q)
      PROVE  pc'[r] = "saveCredential" \/ credential'[email'[r]] = r
  <2>1. CASE Arrive(q)
    BY <2>1, <1>1, <1>2 DEF Arrive, NoStrandedAddress
  <2>2. CASE FindByEmail(q)
    BY <2>2, <1>1, <1>2 DEF FindByEmail, NoStrandedAddress
  <2>3. CASE SaveMember(q)
    BY <2>3, <1>1, <1>2 DEF SaveMember, NoStrandedAddress
  <2>4. CASE SaveCredential(q)
    <3>1. credential[email[q]] = NoMember
      BY <2>4, <1>1, <1>3 DEF SaveCredential, IdentityIndexGuards
    <3>2. credential' = [credential EXCEPT ![email[q]] = q] /\ identityRef' = identityRef
      BY <2>4, <3>1 DEF SaveCredential
    <3>3. CASE r = q
      BY <3>2, <3>3, <1>1, <1>2
    <3>4. CASE r # q
      <4>1. pc'[r] = pc[r]
        BY <2>4, <3>4, <1>2 DEF SaveCredential
      <4>2. pc[r] = "saveCredential" \/ credential[email[r]] = r
        BY <1>1, <3>2 DEF NoStrandedAddress
      <4>3. credential[email[r]] = r => email[r] # email[q]
        BY <3>1, <1>2, SignupAssumption
      <4> QED
        BY <4>1, <4>2, <4>3, <3>2, <1>1, <1>2
    <3> QED
      BY <3>3, <3>4
  <2> QED
    BY <1>4, <2>1, <2>2, <2>3, <2>4 DEF Proceed
<1>5. CASE UNCHANGED vars
  BY <1>5, <1>1 DEF vars, conditions, NoStrandedAddress
<1> QED
  BY <1>1, <1>4, <1>5 DEF Next, Fail, EditMember

\* Sign-ups that nothing disturbs strand no address (signup-service.ts:44-51).
THEOREM NothingIsStranded == Spec => []NoStrandedAddress
<1>1. Init => NoStrandedAddress
  BY DEF Init, NoStrandedAddress, MemberIds
<1> QED
  BY <1>1, StepStranded, SignupInvariant, PTL DEF Spec

-----------------------------------------------------------------------------
(* Logins *)

\* What a sign-up step leaves alone: credentials that are there, requests that
\* were answered 201, and what everybody's password and address is.
LEMMA AccountsLast ==
    ASSUME SignupInv, [Next]_vars
    PROVE  /\ email' = email
           /\ \A e \in Emails : credential[e] # NoMember
                                  => credential'[e] = credential[e]
           /\ \A r \in Requests : pc[r] = "created" => pc'[r] = "created"
<1> USE SignupAssumption DEF SignupInv, TypeOK, conditions
<1>1. ASSUME NEW r \in Requests, Proceed(r) \/ Fail(r)
      PROVE  /\ email' = email
             /\ \A e \in Emails : credential[e] # NoMember
                                    => credential'[e] = credential[e]
             /\ \A q \in Requests : pc[q] = "created" => pc'[q] = "created"
  BY <1>1 DEF Proceed, Arrive, FindByEmail, SaveMember, SaveCredential, Fail
<1>2. ASSUME NEW id \in MemberIds, NEW ref \in Refs, EditMember(id, ref)
      PROVE  UNCHANGED <<email, credential, pc>>
  BY <1>2 DEF EditMember
<1>3. CASE UNCHANGED vars
  BY <1>3 DEF vars
<1> QED
  BY <1>1, <1>2, <1>3 DEF Next

\* A step of the composition is one of sign-up, or leaves its state alone.
LEMMA AccountsStep == [AccountsNext]_allVars => [Next]_vars
BY DEF AccountsNext, allVars, LoginStep, LoginArrives, LoginFinds,
       VerifyPassword, Grant, LoginFails, IssueKey, Tick

LEMMA InitAccounts == AccountsInit => AccountsInv
BY InitSignup DEF AccountsInit, AccountsInv, AccountsTypeOK

\* The steps of one login.
LEMMA LoginPreserves ==
    ASSUME AccountsInv, NEW l \in Logins, LoginStep(l)
    PROVE  AccountsInv'
<1> USE AccountsAssumption, SignupAssumption DEF At
<1>1. UNCHANGED <<vars, clock, key>> /\ SignupInv
  BY DEF LoginStep, LoginArrives, LoginFinds, VerifyPassword, Grant, LoginFails,
         AccountsInv
<1>2. SignupInv'
  BY <1>1, StepSignup
<1>3. \A m \in Logins \ {l} : login'[m] = login[m]
  BY DEF LoginStep, LoginArrives, LoginFinds, VerifyPassword, Grant, LoginFails,
         AccountsInv, AccountsTypeOK
<1>4. /\ credential \in [Emails -> MemberIds \cup {NoMember}]
      /\ \A e \in Emails : credential[e] # NoMember => credential[e] \in Requests
      /\ \A r \in Requests : pc[r] = "created" => credential[email[r]] = r
      /\ Requests \subseteq MemberIds
      /\ Hour \in Nat /\ clock \in Nat /\ clock + Hour \in Nat
  BY DEF SignupInv, TypeOK, AccountsInv, AccountsTypeOK, CreatedOwnsEmail, MemberIds
<1>5. login'[l] \in LoginRecords /\ login' \in [Logins -> LoginRecords \cup {NoLogin}]
  <2>1. ASSUME NEW r \in Requests, NEW e \in Emails, LoginArrives(l, r, e)
        PROVE  login'[l] \in LoginRecords /\ login' \in [Logins -> LoginRecords \cup {NoLogin}]
    BY <2>1 DEF LoginArrives, AccountsInv, AccountsTypeOK, LoginRecords
  <2>2. CASE LoginFinds(l)
    BY <2>2, <1>4 DEF LoginFinds, AccountsInv, AccountsTypeOK, LoginRecords
  <2>3. CASE VerifyPassword(l)
    BY <2>3 DEF VerifyPassword, AccountsInv, AccountsTypeOK, LoginRecords
  <2>4. CASE Grant(l)
    <3>1. login[l] \in LoginRecords /\ login \in [Logins -> LoginRecords \cup {NoLogin}]
      BY <2>4 DEF Grant, AccountsInv, AccountsTypeOK
    <3>2. login'[l] = [login[l] EXCEPT !.pc = "ok", !.exp = clock + Hour, !.since = clock]
      BY <2>4, <3>1 DEF Grant
    <3>3. login'[l] \in LoginRecords
      BY <3>1, <3>2, <1>4 DEF LoginRecords
    <3> QED
      BY <2>4, <3>1, <3>3 DEF Grant
  <2>5. CASE LoginFails(l)
    BY <2>5 DEF LoginFails, AccountsInv, AccountsTypeOK, LoginRecords
  <2> QED
    BY <2>1, <2>2, <2>3, <2>4, <2>5 DEF LoginStep
<1>6. LoginInv(l)'
  <2> USE DEF LoginInv, AccountsInv, AccountsTypeOK, LoginRecords
  <2>1. ASSUME NEW r \in Requests, NEW e \in Emails, LoginArrives(l, r, e)
        PROVE  LoginInv(l)'
    BY <2>1, <1>1 DEF LoginArrives, vars, conditions
  <2>2. CASE LoginFinds(l)
    BY <2>2, <1>1, <1>4 DEF LoginFinds, vars, conditions
  <2>3. CASE VerifyPassword(l)
    BY <2>3, <1>1, <1>4 DEF VerifyPassword, vars, conditions
  <2>4. CASE Grant(l)
    BY <2>4, <1>1, <1>4 DEF Grant, vars, conditions
  <2>5. CASE LoginFails(l)
    BY <2>5, <1>1 DEF LoginFails, vars, conditions
  <2> QED
    BY <2>1, <2>2, <2>3, <2>4, <2>5 DEF LoginStep
<1>7. ASSUME NEW m \in Logins, login'[m] # NoLogin
      PROVE  LoginInv(m)'
  BY <1>1, <1>3, <1>6, <1>7 DEF LoginInv, AccountsInv, vars, conditions
<1> QED
  BY <1>1, <1>2, <1>5, <1>7 DEF AccountsInv, AccountsTypeOK

\* Issuing a credential: whatever create lets pass is a number within the
\* hour, or no number at all.
LEMMA KeyPreserves ==
    ASSUME AccountsInv, NEW a \in Agents, NEW ttl \in Ttls, IssueKey(a, ttl)
    PROVE  AccountsInv'
<1> USE AccountsAssumption
<1>1. UNCHANGED <<vars, clock, login>> /\ SignupInv
  BY DEF IssueKey, AccountsInv
<1>2. SignupInv'
  BY <1>1, StepSignup
<1>3. clock \in Nat /\ Hour \in Nat /\ (ttl \in Nat \/ ttl = NaN)
  BY DEF AccountsInv, AccountsTypeOK
<1>4. ttl # NaN => ttl <= Hour /\ Plus(clock, ttl) = clock + ttl
  BY <1>3 DEF IssueKey, Admissible, Exceeds, Plus
<1>5. ttl = NaN => Plus(clock, ttl) = NaN
  BY DEF Plus
<1>6. key' \in Keys /\ (key'.expiresAt # NaN => key'.expiresAt <= key'.issuedAt + Hour)
  BY <1>3, <1>4, <1>5 DEF IssueKey, Keys
<1>7. \A l \in Logins : LoginInv(l)' <=> LoginInv(l)
  BY <1>1 DEF LoginInv, vars, conditions
<1> QED
  BY <1>1, <1>2, <1>6, <1>7 DEF AccountsInv, AccountsTypeOK

LEMMA StepAccounts == AccountsInv /\ [AccountsNext]_allVars => AccountsInv'
<1> SUFFICES ASSUME AccountsInv, [AccountsNext]_allVars PROVE AccountsInv'
  OBVIOUS
<1>1. SignupInv /\ SignupInv'
  BY AccountsStep, StepSignup DEF AccountsInv
<1>2. ASSUME [Next]_vars, UNCHANGED <<login, key>>, clock' \in Nat
      PROVE  AccountsInv'
  <2>1. ASSUME NEW l \in Logins, login[l] # NoLogin PROVE LoginInv(l)'
    <3>1. LoginInv(l) /\ login[l] \in LoginRecords
      BY <2>1 DEF AccountsInv, AccountsTypeOK
    <3>2. login[l].password \in Requests /\ login[l].address \in Emails
      BY <3>1 DEF LoginRecords
    <3>3. login[l].member \in Requests => login[l].member # NoMember
      BY SignupAssumption DEF MemberIds
    <3> QED
      BY <1>1, <1>2, <3>1, <3>2, <3>3, AccountsLast DEF LoginInv
  <2> QED
    BY <1>1, <1>2, <2>1 DEF AccountsInv, AccountsTypeOK
<1>3. CASE Next /\ UNCHANGED tokens
  BY <1>2, <1>3 DEF tokens, AccountsInv, AccountsTypeOK
<1>4. CASE Tick
  BY <1>2, <1>4 DEF Tick, AccountsInv, AccountsTypeOK
<1>5. CASE UNCHANGED allVars
  BY <1>2, <1>5 DEF allVars, tokens, AccountsInv, AccountsTypeOK
<1> QED
  BY <1>3, <1>4, <1>5, LoginPreserves, KeyPreserves DEF AccountsNext

\* Sign-ups, logins under way, tokens and credentials fit together.
THEOREM AccountsInvariant == AccountsSpec => []AccountsInv
BY InitAccounts, StepAccounts, PTL DEF AccountsSpec

\* Logins and credentials leave sign-up as it is: whatever is proved of Signup
\* holds of it in their company.
THEOREM AccountsKeepSignup == AccountsSpec => Spec
<1>1. AccountsInit => Init
  BY DEF AccountsInit
<1> QED
  BY <1>1, AccountsStep, PTL DEF AccountsSpec, Spec

\* An account that was reported created can be used (auth.ts:50, :67).
THEOREM RegisteredUsersGetIn == AccountsSpec => []RegisteredGetsIn
<1>1. AccountsInv => RegisteredGetsIn
  BY DEF AccountsInv, AccountsTypeOK, LoginInv, RegisteredGetsIn, At
<1> QED
  BY <1>1, AccountsInvariant, PTL

\* A session is the owner's, whatever races went on (signup-service.ts:55-60).
THEOREM SessionsHaveOwners == AccountsSpec => []SessionsAreOwned
<1>1. AccountsInv => SessionsAreOwned
  <2> SUFFICES ASSUME AccountsInv, NEW l \in Logins, At(l, "ok")
               PROVE  /\ login[l].member = login[l].password
                      /\ email[login[l].password] = login[l].address
                      /\ ~edits => identityRef[login[l].member] = login[l].address
    BY DEF SessionsAreOwned
  <2> DEFINE e == login[l].address
  <2>1. /\ login[l].member = login[l].password
        /\ credential[e] = login[l].member
        /\ login[l].member \in Requests
        /\ e \in Emails
    BY DEF AccountsInv, AccountsTypeOK, LoginInv, LoginRecords, At
  <2>2. credential[e] # NoMember
    BY <2>1, SignupAssumption DEF MemberIds
  <2>3. pc[login[l].member] = "created" /\ email[login[l].member] = e
    BY <2>1, <2>2 DEF AccountsInv, SignupInv
  <2> QED
    BY <2>1, <2>3 DEF AccountsInv, SignupInv
<1> QED
  BY <1>1, AccountsInvariant, PTL

\* Sessions and agent credentials end with the hour, for every time to live
\* that is a number (session-token.ts:41, agent-credential.ts:46-54, :86).
THEOREM TokensExpire == AccountsSpec => []NothingOutlivesTheHour
<1>1. AccountsInv => NothingOutlivesTheHour
  <2> SUFFICES ASSUME AccountsInv PROVE NothingOutlivesTheHour
    OBVIOUS
  <2>1. ASSUME NEW l \in Logins, SessionAccepted(l)
        PROVE  clock < login[l].since + Hour
    BY <2>1, AccountsAssumption
       DEF SessionAccepted, At, AccountsInv, AccountsTypeOK, LoginInv, LoginRecords
  <2>2. ASSUME KeyAccepted, key.expiresAt # NaN
        PROVE  clock < key.issuedAt + Hour
    <3>1. key \in Keys /\ key.expiresAt \in Nat /\ key.issuedAt \in Nat
      BY <2>2 DEF KeyAccepted, Expired, AccountsInv, AccountsTypeOK, Keys
    <3>2. clock < key.expiresAt /\ key.expiresAt <= key.issuedAt + Hour
      BY <2>2, <3>1 DEF KeyAccepted, Expired, AccountsInv, AccountsTypeOK
    <3> QED
      BY <3>1, <3>2, AccountsAssumption DEF AccountsInv, AccountsTypeOK
  <2> QED
    BY <2>1, <2>2 DEF NothingOutlivesTheHour
<1> QED
  BY <1>1, AccountsInvariant, PTL
=============================================================================
