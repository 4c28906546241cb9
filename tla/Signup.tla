------------------------------- MODULE Signup -------------------------------
(***************************************************************************)
(* Local sign-up (apps/server/src/auth): a request checks that its e-mail  *)
(* is free, inserts a member and then, after hashing the password, a       *)
(* credential.  Two unique indexes watch: members.identity_ref, which      *)
(* holds "local|<email>", and human_credentials.email.  Requests interleave*)
(* at every awaited statement, may fail between any two, and POST /members *)
(* may change identity_ref under them.                                     *)
(***************************************************************************)
CONSTANTS
    Requests,   \* sign-up requests; each draws its own member id, named by it
    RouteIds,   \* ids that only POST /members uses
    Emails,     \* normalized addresses; e also stands for "local|e"
    OtherRefs,  \* identity references that are no local address
    NoMember, NoRef

MemberIds == Requests \cup RouteIds
Refs == Emails \cup OtherRefs

ASSUME SignupAssumption ==
    /\ NoMember \notin MemberIds
    /\ NoRef \notin Refs

VARIABLES
    identityRef,  \* the members table
    credential,   \* the human_credentials table: the member of each e-mail
    pc,           \* where each request is, or how it was answered
    email,        \* the address each request came with
    edits,        \* is POST /members used while people sign up?
    failures      \* may a request fail between two statements?

\* What the run of the server decides and no step changes.
conditions == <<email, edits, failures>>

vars == <<identityRef, credential, pc, conditions>>

Answers == {"created", "email-taken", "server-error"}

TypeOK ==
    /\ identityRef \in [MemberIds -> Refs \cup {NoRef}]
    /\ credential \in [Emails -> MemberIds \cup {NoMember}]
    /\ pc \in [Requests ->
                {"new", "findByEmail", "saveMember", "saveCredential"} \cup Answers]
    /\ email \in [Requests -> Emails]
    /\ edits \in BOOLEAN
    /\ failures \in BOOLEAN

Init ==
    /\ identityRef = [id \in MemberIds |-> NoRef]
    /\ credential = [e \in Emails |-> NoMember]
    /\ pc = [r \in Requests |-> "new"]
    /\ email \in [Requests -> Emails]
    /\ edits \in BOOLEAN
    /\ failures \in BOOLEAN

\* The unique index: no other row has this reference.
RefIsFree(id, ref) == \A other \in MemberIds \ {id} : identityRef[other] # ref

Arrive(r) ==
    /\ pc[r] = "new"
    /\ pc' = [pc EXCEPT ![r] = "findByEmail"]
    /\ UNCHANGED <<identityRef, credential, conditions>>

\* The pre-check.
FindByEmail(r) ==
    /\ pc[r] = "findByEmail"
    /\ pc' = [pc EXCEPT ![r] =
                IF credential[email[r]] = NoMember THEN "saveMember"
                                                   ELSE "email-taken"]
    /\ UNCHANGED <<identityRef, credential, conditions>>

\* Mutant: a members table without its index on identity_ref.
SaveMemberUnindexed(r) ==
    /\ pc[r] = "saveMember"
    /\ identityRef' = [identityRef EXCEPT ![r] = email[r]]
    /\ pc' = [pc EXCEPT ![r] = "saveCredential"]
    /\ UNCHANGED <<credential, conditions>>

\* Mutant: on a conflict the reference goes to the new row.
SaveMemberTakesOver(r) ==
    /\ pc[r] = "saveMember"
    /\ identityRef' = [id \in MemberIds |->
                         IF id = r THEN email[r]
                         ELSE IF identityRef[id] = email[r] THEN NoRef
                                                            ELSE identityRef[id]]
    /\ pc' = [pc EXCEPT ![r] = "saveCredential"]
    /\ UNCHANGED <<credential, conditions>>

\* Mutant: the credential is forgotten.
SaveMemberOnly(r) ==
    /\ pc[r] = "saveMember"
    /\ identityRef' = [identityRef EXCEPT ![r] = email[r]]
    /\ pc' = [pc EXCEPT ![r] = "created"]
    /\ UNCHANGED <<credential, conditions>>

\* members.save: an upsert by id.  The id is new, so a row that already has
\* the reference makes the insert fail, and nothing translates that error.
SaveMember(r) ==
    /\ pc[r] = "saveMember"
    /\ IF RefIsFree(r, email[r])
         THEN /\ identityRef' = [identityRef EXCEPT ![r] = email[r]]
              /\ pc' = [pc EXCEPT ![r] = "saveCredential"]
         ELSE /\ pc' = [pc EXCEPT ![r] = "server-error"]
              /\ UNCHANGED identityRef
    /\ UNCHANGED <<credential, conditions>>

\* Mutant: credentials.save is an upsert by e-mail.
SaveCredentialUpsert(r) ==
    /\ pc[r] = "saveCredential"
    /\ credential' = [credential EXCEPT ![email[r]] = r]
    /\ pc' = [pc EXCEPT ![r] = "created"]
    /\ UNCHANGED <<identityRef, conditions>>

\* credentials.save: a plain insert; the e-mail index refuses a second row and
\* the repository reports EmailAlreadyRegisteredError.
SaveCredential(r) ==
    /\ pc[r] = "saveCredential"
    /\ IF credential[email[r]] = NoMember
         THEN /\ credential' = [credential EXCEPT ![email[r]] = r]
              /\ pc' = [pc EXCEPT ![r] = "created"]
         ELSE /\ pc' = [pc EXCEPT ![r] = "email-taken"]
              /\ UNCHANGED credential
    /\ UNCHANGED <<identityRef, conditions>>

\* A statement or the process fails; what was inserted stays.
Fail(r) ==
    /\ failures
    /\ pc[r] \in {"findByEmail", "saveMember", "saveCredential"}
    /\ pc' = [pc EXCEPT ![r] = "server-error"]
    /\ UNCHANGED <<identityRef, credential, conditions>>

\* POST /members: an upsert of any id with any reference no other row has.  A
\* signed-up member's random id is known to nobody before its row is there.
EditMember(id, ref) ==
    /\ edits
    /\ id \in RouteIds \/ identityRef[id] # NoRef
    /\ RefIsFree(id, ref)
    /\ identityRef' = [identityRef EXCEPT ![id] = ref]
    /\ UNCHANGED <<credential, pc, conditions>>

Proceed(r) == Arrive(r) \/ FindByEmail(r) \/ SaveMember(r) \/ SaveCredential(r)

Next ==
    \/ \E r \in Requests : Proceed(r) \/ Fail(r)
    \/ \E id \in MemberIds, ref \in Refs : EditMember(id, ref)

Spec == Init /\ [][Next]_vars

\* A request under way proceeds; none need ever arrive.
Fairness == \A r \in Requests : WF_vars(pc[r] # "new" /\ Proceed(r))

-----------------------------------------------------------------------------
\* Whoever was told "created" holds the e-mail for ever: two requests for one
\* address are never both answered 201, and a login finds the one that was.
CreatedOwnsEmail ==
    \A r \in Requests : pc[r] = "created" => credential[email[r]] = r

\* Without edits the identity index settles every race: a request that got past
\* it finds its e-mail free, so the index on e-mail never has to refuse.
IdentityIndexGuards ==
    ~edits => \A r \in Requests :
        pc[r] = "saveCredential" => credential[email[r]] = NoMember

\* A login with an e-mail leads to the member whose identity is that e-mail.
LoginFindsIdentity ==
    ~edits => \A e \in Emails :
        credential[e] # NoMember => identityRef[credential[e]] = e

\* Without failures and edits no address is lost: the member that holds one has
\* its credential, or its request is about to insert it.
NoStrandedAddress ==
    ~edits /\ ~failures => \A r \in Requests :
        identityRef[r] # NoRef =>
            pc[r] = "saveCredential" \/ credential[email[r]] = r

\* What makes the above inductive.
SignupInv ==
    /\ TypeOK
    /\ ~edits =>
         \A r \in Requests :
            pc[r] \in {"saveCredential", "created"} => identityRef[r] = email[r]
    /\ \A e \in Emails : credential[e] # NoMember =>
         /\ credential[e] \in Requests
         /\ pc[credential[e]] = "created"
         /\ email[credential[e]] = e
    /\ \A a, b \in MemberIds :
         a # b /\ identityRef[a] # NoRef => identityRef[a] # identityRef[b]
    /\ CreatedOwnsEmail

\* "The unique email index is the real guard against a race [...]; it surfaces
\* as EmailAlreadyRegisteredError": a race never ends in a server error.
RaceIsReported ==
    ~edits /\ ~failures => \A r \in Requests : pc[r] # "server-error"

\* Without failures and edits somebody gets the address, however many ask at once.
EmailGetsRegistered ==
    \A r \in Requests :
        pc[r] = "findByEmail" /\ ~edits /\ ~failures
            ~> credential[email[r]] # NoMember
=============================================================================
