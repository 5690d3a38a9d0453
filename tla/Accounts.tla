------------------------------ MODULE Accounts ------------------------------
(***************************************************************************)
(* The HTTP side of the server: accounts (backend/auth/service.py), clubs  *)
(* and their tables (backend/api), over the rows of a persistence adapter  *)
(* (backend/persistence), with what a start of the server seeds: the Admin *)
(* user and, outside production, two demo users with their club and table  *)
(* (backend/main.py, backend/dev_seed.py).                                 *)
(*                                                                         *)
(* A request is a coroutine.  Every call of the adapter is one step, and   *)
(* between two of them other requests run, when the adapter suspends: the  *)
(* SQLite adapter awaits its connection, the in-memory one never does, so  *)
(* its handlers run from the first statement to the last.  main.lifespan   *)
(* chooses the adapter, and seeds before the first request is served; the  *)
(* environment and the adapter of a deployment stay as configured.         *)
(*                                                                         *)
(* Left out: passwords and their hashes, display names, table settings,    *)
(* expiry of tokens, and requests refused for their fields, which touch no *)
(* row.                                                                    *)
(***************************************************************************)
EXTENDS Naturals, FiniteSets

CONSTANTS
    Slots,          \* requests the server can be serving at once
    Names,          \* usernames people ask for (Admin apart)
    Admin,          \* the username of the built-in account
    Phones,         \* phone numbers asked for on the OTP route
    AlicePhone,     \* the phone numbers of the two demo users
    BobPhone,
    NoName,         \* the empty username or phone of a row
    MaxUsers,       \* bound: user ids, the demo users' and those drawn (uuid4)
    MaxCodes,       \* bound: codes sent to a phone
    MaxClubs,       \* bound: clubs created
    MaxRestarts     \* bound: restarts of the server

ASSUME ConstantsAssumption ==
    /\ MaxUsers \in Nat /\ MaxUsers >= 3
    /\ MaxCodes \in Nat /\ MaxClubs \in Nat /\ MaxRestarts \in Nat
    /\ Admin # NoName /\ Admin \notin Names
    /\ NoName \notin Names /\ NoName \notin Phones
    /\ AlicePhone # NoName /\ BobPhone # NoName /\ AlicePhone # BobPhone

VARIABLES
    app_env,        \* settings.app_env: "production" or "development"
    adapter,        \* "sqlite" or "memory", the second in development only
    users,          \* table users: id -> [name, phone]
    clubs,          \* table clubs: club -> id of the owner
    members,        \* table club_memberships: pairs <<club, user>>
    tables,         \* table tables: the clubs that have one
    otps,           \* ConsoleAuthService._otps: phone -> code, 0 for none
    req,            \* where each request stands, with what it has read
    lastId,         \* the ids drawn so far
    tokens,         \* history: the ids whose tokens are known
    sent, accepted, \* history: codes sent to, and accepted from, a phone
    created,        \* history: clubs create_club reported
    restarts

rows == <<users, clubs, members, tables>>
history == <<tokens, sent, accepted, created>>
settings == <<app_env, adapter>>
vars == <<app_env, adapter, users, clubs, members, tables, otps, req, lastId, tokens,
          sent, accepted, created, restarts>>

\* Fixed ids of dev_seed.py; the ids that are drawn follow them.
Alice == 1
Bob == 2
DemoClub == 0

UserIds == 1 .. MaxUsers
ClubIds == 0 .. MaxClubs
UserRow == [name  : Names \cup {Admin, NoName},
            phone : Phones \cup {AlicePhone, BobPhone, NoName}]

-----------------------------------------------------------------------------
(* The rows *)

\* get_user_by_username, get_user_by_phone: the ids such a row is found under
WithName(n)  == {u \in DOMAIN users : users[u].name = n}
WithPhone(p) == {u \in DOMAIN users : users[u].phone = p}

\* Mutation of Displaced: the tables are created without the unique indexes.
Displaced_NoIndex(found, row) == {}

\* The rows INSERT OR REPLACE deletes: those that hold a username or a phone
\* of the new row, which partial unique indexes cover.  A dictionary has none.
Displaced(found, row) ==
    IF adapter = "memory" THEN {}
    ELSE {u \in DOMAIN found : \/ row.name # NoName /\ found[u].name = row.name
                               \/ row.phone # NoName /\ found[u].phone = row.phone}

\* save_user of the user u, over the rows it finds
SaveUser(found, u, row) ==
    [x \in (DOMAIN found \ Displaced(found, row)) \cup {u} |->
        IF x = u THEN row ELSE found[x]]

\* Mutation of MembersSaved: SQLite too replaces the members of the club.
MembersSaved_Replaced(c, copy) ==
    {m \in members : m[1] # c} \cup {<<c, u>> : u \in copy}

\* save_club of club c whose object carries the users of `copy`: SQLite adds
\* or rewrites their rows, the in-memory adapter stores the object it is given.
MembersSaved(c, copy) ==
    LET others == IF adapter = "memory" THEN {m \in members : m[1] # c} ELSE members
    IN  others \cup {<<c, u>> : u \in copy}

\* Club.memberships as get_club reads them, and get_clubs_for_user
MembersOf(c) == {u \in UserIds : <<c, u>> \in members}
ClubsOf(u)   == {c \in DOMAIN clubs : <<c, u>> \in members}

-----------------------------------------------------------------------------
(* Requests *)

Idle == [at |-> "idle"]

Request ==
    {Idle}
    \cup [at : {"save_user"}, name : Names \cup {NoName}, phone : Phones \cup {NoName}]
    \cup [at : {"find_phone"}, phone : Phones, named : BOOLEAN]
    \cup [at : {"create", "join"}, user : UserIds]
    \cup [at : {"save_table"}, user : UserIds, club : ClubIds]
    \cup [at : {"save_club"}, user : UserIds, club : ClubIds, copy : SUBSET UserIds]
    \cup [at : {"save_member"}, user : UserIds, club : ClubIds]

\* A handler over the in-memory adapter never gives way.  "create" and "join"
\* are before its first statement, where FastAPI resolves other dependencies.
MayRun(s) ==
    adapter = "memory" =>
        \A o \in Slots \ {s} : req[o].at \in {"idle", "create", "join"}

Goto(s, r) == /\ MayRun(s)
              /\ req' = [req EXCEPT ![s] = r]

\* register, up to the username lookup that must find nobody
Register(s, n) ==
    /\ req[s] = Idle
    /\ WithName(n) = {}
    /\ Goto(s, [at |-> "save_user", name |-> n, phone |-> NoName])
    /\ UNCHANGED <<settings, rows, otps, lastId, history, restarts>>

\* login, when name and password match: a token for the row found
Login(s, u) ==
    /\ req[s] = Idle
    /\ users[u].name # NoName
    /\ Goto(s, Idle)
    /\ tokens' = tokens \cup {u}
    /\ UNCHANGED <<settings, rows, otps, lastId, sent, accepted,
                   created, restarts>>

\* request_otp: a new code takes the place of the one sent before
RequestOtp(s, p) ==
    /\ req[s] = Idle
    /\ sent[p] < MaxCodes
    /\ Goto(s, Idle)
    /\ sent' = [sent EXCEPT ![p] = @ + 1]
    /\ otps' = [otps EXCEPT ![p] = sent[p] + 1]
    /\ UNCHANGED <<settings, rows, lastId, tokens, accepted, created,
                   restarts>>

\* Mutation of CheckOtp: the code is not deleted before the first await.
CheckOtp_KeepsCode(s, p, code, named) ==
    /\ req[s] = Idle
    /\ code # 0 /\ otps[p] = code
    /\ Goto(s, [at |-> "find_phone", phone |-> p, named |-> named])
    /\ accepted' = [accepted EXCEPT ![p] = @ + 1]
    /\ UNCHANGED <<settings, rows, otps, lastId, tokens, sent, created,
                   restarts>>

\* verify_otp, its first part: the code is checked and deleted in one go
CheckOtp(s, p, code, named) ==
    /\ req[s] = Idle
    /\ code # 0 /\ otps[p] = code
    /\ Goto(s, [at |-> "find_phone", phone |-> p, named |-> named])
    /\ otps' = [otps EXCEPT ![p] = 0]
    /\ accepted' = [accepted EXCEPT ![p] = @ + 1]
    /\ UNCHANGED <<settings, rows, lastId, tokens, sent, created, restarts>>

\* verify_otp, its second part: the account of the phone, or a new one, for
\* which the caller must have given a display name
FindPhone(s) ==
    /\ req[s].at = "find_phone"
    /\ LET r == req[s]
           found == WithPhone(r.phone)
       IN  /\ Goto(s, IF found = {} /\ r.named
                      THEN [at |-> "save_user", name |-> NoName, phone |-> r.phone]
                      ELSE Idle)
           /\ tokens' = tokens \cup found
    /\ UNCHANGED <<settings, rows, otps, lastId, sent, accepted,
                   created, restarts>>

\* register and verify_otp, their last part: the row of a new user, and a token
SaveNewUser(s) ==
    /\ req[s].at = "save_user"
    /\ lastId < MaxUsers
    /\ LET u == lastId + 1
           row == [name |-> req[s].name, phone |-> req[s].phone]
       IN  /\ users' = SaveUser(users, u, row)
           /\ lastId' = u
           /\ tokens' = tokens \cup {u}
    /\ Goto(s, Idle)
    /\ UNCHANGED <<settings, clubs, members, tables, otps, sent, accepted, created,
                   restarts>>

\* get_current_user: the token's user must have a row; create_club is for Admin
Authenticate(s, u, op) ==
    /\ req[s] = Idle
    /\ u \in tokens \cap DOMAIN users
    /\ op = "create" => users[u].name = Admin
    /\ Goto(s, [at |-> op, user |-> u])
    /\ UNCHANGED <<settings, rows, otps, lastId, history, restarts>>

\* The number of the next club: those create_club made are 1, 2, ...
NextClub == Cardinality(DOMAIN clubs \ {DemoClub}) + 1

\* Mutations of CreateClub: only the owner's membership is saved; the table goes
\* to the other transaction, first, and the club's row is left to the second.
CreateClub_MembersOnly(s) ==
    /\ req[s].at = "create"
    /\ members' = MembersSaved(NextClub, {req[s].user})
    /\ Goto(s, Idle)
    /\ UNCHANGED <<settings, users, clubs, tables, otps, lastId, history, restarts>>

CreateClub_TableFirst(s) ==
    /\ req[s].at = "create"
    /\ NextClub <= MaxClubs
    /\ LET c == NextClub
       IN  /\ tables' = tables \cup {c}
           /\ Goto(s, [at |-> "save_table", user |-> req[s].user, club |-> c])
    /\ UNCHANGED <<settings, users, clubs, members, otps, lastId, history, restarts>>

\* create_club: the club with the membership of its owner, in one transaction
CreateClub(s) ==
    /\ req[s].at = "create"
    /\ NextClub <= MaxClubs
    /\ LET u == req[s].user
           c == NextClub
       IN  /\ clubs' = [x \in DOMAIN clubs \cup {c} |-> IF x = c THEN u ELSE clubs[x]]
           /\ members' = MembersSaved(c, {u})
           /\ Goto(s, [at |-> "save_table", user |-> u, club |-> c])
    /\ UNCHANGED <<settings, users, tables, otps, lastId, history, restarts>>

\* create_club: the table, in a second transaction, and the answer
SaveTable(s) ==
    /\ req[s].at = "save_table"
    /\ tables' = tables \cup {req[s].club}
    /\ created' = created \cup {req[s].club}
    /\ Goto(s, Idle)
    /\ UNCHANGED <<settings, users, clubs, members, otps, lastId, tokens,
                   sent, accepted, restarts>>

\* join_club, join_club_by_invite: the club of the invite code, as it stands,
\* unless the caller is in it already
FindClub(s, c) ==
    /\ req[s].at = "join"
    /\ LET u == req[s].user
       IN  /\ u \notin MembersOf(c)
           /\ Goto(s, [at |-> "save_club", user |-> u, club |-> c,
                       copy |-> MembersOf(c) \cup {u}])
    /\ UNCHANGED <<settings, rows, otps, lastId, history, restarts>>

\* The two refusals: no such code, or already a member
RefuseJoin(s) ==
    /\ req[s].at = "join"
    /\ Goto(s, Idle)
    /\ UNCHANGED <<settings, rows, otps, lastId, history, restarts>>

\* ... save_club of the copy, with the members it was read with
SaveCopy(s) ==
    /\ req[s].at = "save_club"
    /\ members' = MembersSaved(req[s].club, req[s].copy)
    /\ Goto(s, [at |-> "save_member", user |-> req[s].user, club |-> req[s].club])
    /\ UNCHANGED <<settings, users, clubs, tables, otps, lastId, history, restarts>>

\* ... save_membership of the caller, and the answer
SaveMembership(s) ==
    /\ req[s].at = "save_member"
    /\ members' = members \cup {<<req[s].club, req[s].user>>}
    /\ Goto(s, Idle)
    /\ UNCHANGED <<settings, users, clubs, tables, otps, lastId, history, restarts>>

-----------------------------------------------------------------------------
(* Start and restart *)

\* Mutation of Seeded: Admin is written at every start, over the older row.
Seeded_Always(found, u) ==
    LET kept == {x \in DOMAIN found : found[x].name # Admin}
    IN  [x \in kept \cup {u} |->
            IF x = u THEN [name |-> Admin, phone |-> NoName] ELSE found[x]]

\* seed_admin_user: over the rows a start finds, an Admin unless there is one
Seeded(found, u) ==
    IF \E x \in DOMAIN found : found[x].name = Admin THEN found
    ELSE [x \in DOMAIN found \cup {u} |->
             IF x = u THEN [name |-> Admin, phone |-> NoName] ELSE found[x]]

\* seed_demo_data, outside production, at every start: two users without a
\* username, over whoever has their phones, ...
WithDemoUsers(found) ==
    LET row(phone) == [name |-> NoName, phone |-> phone]
    IN  IF app_env = "production" THEN found
        ELSE SaveUser(SaveUser(found, Alice, row(AlicePhone)), Bob, row(BobPhone))

\* ... and the club the first of them owns, with its table
WithDemoClub(found) ==
    IF app_env = "production" THEN found
    ELSE [c \in DOMAIN found \cup {DemoClub} |-> IF c = DemoClub THEN Alice ELSE found[c]]
DemoMembers == IF app_env = "production" THEN {} ELSE {DemoClub} \X {Alice, Bob}
DemoTables  == IF app_env = "production" THEN {} ELSE {DemoClub}

\* What main.lifespan makes of the rows it finds, with a fresh id for Admin
Start(u, oldUsers, oldClubs, oldMembers, oldTables) ==
    /\ users' = WithDemoUsers(Seeded(oldUsers, u))
    /\ clubs' = WithDemoClub(oldClubs)
    /\ members' = oldMembers \cup DemoMembers
    /\ tables' = oldTables \cup DemoTables

NoRows == [x \in {} |-> NoName]

\* The process dies, with its requests and its codes, and starts again: what
\* the in-memory adapter held is gone, and so is what was promised about it.
Restart ==
    /\ restarts < MaxRestarts /\ lastId < MaxUsers
    /\ restarts' = restarts + 1
    /\ req' = [s \in Slots |-> Idle]
    /\ otps' = [p \in Phones |-> 0]
    /\ lastId' = lastId + 1
    /\ IF adapter = "sqlite"
       THEN Start(lastId', users, clubs, members, tables) /\ created' = created
       ELSE Start(lastId', NoRows, NoRows, {}, {}) /\ created' = {}
    /\ UNCHANGED <<settings, tokens, sent, accepted>>

\* main.lifespan on an empty database.  The tokens of the demo users are known:
\* their ids are fixed and dev_seed.py prints them.
Init ==
    /\ app_env \in {"production", "development"}
    /\ adapter \in {"sqlite", "memory"}
    /\ adapter = "memory" => app_env = "development"
    /\ lastId = 3
    /\ users = WithDemoUsers(Seeded(NoRows, 3)) /\ clubs = WithDemoClub(NoRows)
    /\ members = DemoMembers /\ tables = DemoTables
    /\ tokens = IF app_env = "production" THEN {} ELSE {Alice, Bob}
    /\ otps = [p \in Phones |-> 0]
    /\ req = [s \in Slots |-> Idle]
    /\ created = {}
    /\ sent = [p \in Phones |-> 0] /\ accepted = [p \in Phones |-> 0]
    /\ restarts = 0

Serve(s) ==
    \/ \E n \in Names \cup {Admin} : Register(s, n)
    \/ \E u \in DOMAIN users : Login(s, u)
    \/ \E p \in Phones : RequestOtp(s, p)
    \/ \E p \in Phones, code \in 1 .. MaxCodes, named \in BOOLEAN : CheckOtp(s, p, code, named)
    \/ FindPhone(s)
    \/ SaveNewUser(s)
    \/ \E u \in UserIds, op \in {"create", "join"} : Authenticate(s, u, op)
    \/ CreateClub(s)
    \/ SaveTable(s)
    \/ \E c \in DOMAIN clubs : FindClub(s, c)
    \/ RefuseJoin(s)
    \/ SaveCopy(s)
    \/ SaveMembership(s)

Next == Restart \/ \E s \in Slots : Serve(s)

Spec == Init /\ [][Next]_vars

-----------------------------------------------------------------------------
(* Properties *)

TypeOK ==
    /\ app_env \in {"production", "development"} /\ adapter \in {"sqlite", "memory"}
    /\ DOMAIN users \subseteq 1 .. lastId /\ \A u \in DOMAIN users : users[u] \in UserRow
    /\ DOMAIN clubs \subseteq ClubIds     /\ \A c \in DOMAIN clubs : clubs[c] \in UserIds
    /\ members \subseteq (DOMAIN clubs) \X UserIds
    /\ tables \subseteq ClubIds /\ created \subseteq ClubIds
    /\ otps \in [Phones -> 0 .. MaxCodes]
    /\ req \in [Slots -> Request]
    /\ lastId \in UserIds /\ tokens \subseteq UserIds
    /\ sent \in [Phones -> 0 .. MaxCodes] /\ accepted \in [Phones -> Nat]
    /\ restarts \in 0 .. MaxRestarts

\* Of two accounts that share no username and no phone number, whichever
\* requests ran against each other (sqlite_adapter.initialize, the two partial
\* indexes; memory.py, by its handlers never giving way): a login or a verified
\* code can mean one account only.
OneRowPerName ==
    \A u, v \in DOMAIN users :
        /\ users[u].name = users[v].name => u = v \/ users[u].name = NoName
        /\ users[u].phone = users[v].phone => u = v \/ users[u].phone = NoName

\* A code opens the door once: verify_otp deletes it before it awaits, so of
\* two requests with the same code the second is refused.
OtpSingleUse == \A p \in Phones : accepted[p] <= sent[p]

\* A table belongs to a club that exists, and a club that was reported to its
\* creator has its table, through a crash between the two transactions.
ClubsAreComplete ==
    /\ tables \subseteq DOMAIN clubs
    /\ created \subseteq tables

\* Whatever was restarted, seeded or registered since, a club has an owner who
\* sees it among his own: for every club create_club made that is the account
\* one logs in to as Admin; for the demo club it is Alice, whose row nobody who
\* verifies a phone number takes (seed_admin_user, seed_demo_data).
OwnerIsAdmin ==
    \A c \in DOMAIN clubs :
        /\ clubs[c] \in IF c = DemoClub THEN WithPhone(AlicePhone) ELSE WithName(Admin)
        /\ c \in ClubsOf(clubs[c])

\* A membership, once saved, is not lost to another request that saves the
\* club with the members it read earlier (clubs_router.py:205, :236).
MembershipKept ==
    [][adapter = "sqlite" \/ restarts' = restarts => members \subseteq members']_vars
=============================================================================
