--------------------------- MODULE AccountsProofs ---------------------------
(***************************************************************************)
(* Accounts for any number of requests at a time, names, phones, clubs and *)
(* restarts, over either adapter.                                          *)
(*                                                                         *)
(* Two arguments recur.  Over SQLite a step between the read and the write *)
(* of another request does no harm, for the write itself displaces or adds *)
(* (the unique indexes, INSERT OR REPLACE per membership).  Over the       *)
(* dictionaries the write is blind, so that what was read must still hold: *)
(* it does, for no other request runs in between (Alone).                  *)
(***************************************************************************)
EXTENDS Accounts, FiniteSetTheorems, TLAPS

\* The environment and the adapter are chosen once, and no step changes them.
USE DEF settings

-----------------------------------------------------------------------------
(* One-time codes *)

\* A code that can still be used is one that was sent and not accepted.
OtpInv ==
    /\ otps \in [Phones -> Nat] /\ sent \in [Phones -> Nat] /\ accepted \in [Phones -> Nat]
    /\ \A p \in Phones : accepted[p] + (IF otps[p] = 0 THEN 0 ELSE 1) <= sent[p]

\* No code at first.
LEMMA InitOtpInv == Init => OtpInv
  BY DEF Init, OtpInv

\* A step of a request or a restart accepts no code twice.
LEMMA StepOtpInv == OtpInv /\ [Next]_vars => OtpInv'
  <1> SUFFICES ASSUME OtpInv, [Next]_vars PROVE OtpInv'
    OBVIOUS
  <1>1. ASSUME NEW s \in Slots, NEW q \in Phones, RequestOtp(s, q) PROVE OtpInv'
    BY <1>1 DEF RequestOtp, OtpInv
  \* The code goes as it is accepted.
  <1>2. ASSUME NEW s \in Slots, NEW q \in Phones, NEW code, NEW named, CheckOtp(s, q, code, named)
        PROVE  OtpInv'
    BY <1>2 DEF CheckOtp, OtpInv
  <1>3. CASE Restart
    BY <1>3 DEF Restart, OtpInv
  <1>4. CASE UNCHANGED <<otps, sent, accepted>>
    BY <1>4 DEF OtpInv
  <1> QED
    BY <1>1, <1>2, <1>3, <1>4
    DEF Next, Serve, Register, Login, FindPhone, SaveNewUser, Authenticate, CreateClub,
        SaveTable, FindClub, RefuseJoin, SaveCopy, SaveMembership, rows, history, vars

\* verify_otp accepts no more codes than were sent.
THEOREM CodesOpenOnce == Spec => []OtpSingleUse
  <1>1. Init => OtpInv
    BY InitOtpInv
  <1>2. OtpInv /\ [Next]_vars => OtpInv'
    BY StepOtpInv
  <1>3. OtpInv => OtpSingleUse
    BY DEF OtpInv, OtpSingleUse
  <1> QED
    BY <1>1, <1>2, <1>3, PTL DEF Spec

-----------------------------------------------------------------------------
(* Clubs and their tables *)

\* A request that has read something of a club names one that exists.
ClubsKnown ==
    \A s \in Slots :
        req[s].at \in {"save_table", "save_club", "save_member"} => req[s].club \in DOMAIN clubs

ClubInv == req = [s \in Slots |-> req[s]] /\ ClubsKnown /\ ClubsAreComplete

\* What a start adds to the clubs: nothing, or the demo club of Alice.
LEMMA DemoClubAdded ==
    ASSUME NEW found
    PROVE  /\ DOMAIN WithDemoClub(found) = DOMAIN found \cup DemoTables
           /\ \A c \in DOMAIN WithDemoClub(found) :
                  \/ c \in DOMAIN found /\ WithDemoClub(found)[c] = found[c] /\ c \notin DemoTables
                  \/ c \in DemoTables /\ WithDemoClub(found)[c] = Alice
           /\ DemoTables = IF app_env = "production" THEN {} ELSE {DemoClub}
           /\ DemoMembers = DemoTables \X {Alice, Bob}
  BY DEF WithDemoClub, DemoTables, DemoMembers

\* At first, no request, and no club but the demo club with its table.
LEMMA InitClubInv == Init => ClubInv
  <1> SUFFICES ASSUME Init PROVE ClubInv
    OBVIOUS
  <1>1. DOMAIN clubs = DemoTables
    BY DemoClubAdded DEF Init, NoRows
  <1> QED
    BY <1>1 DEF Init, ClubInv, ClubsKnown, ClubsAreComplete, Idle

\* A request that goes on, with or without a club that exists.
LEMMA MovedClub ==
    ASSUME ClubInv, NEW s \in Slots, NEW r, Goto(s, r),
           DOMAIN clubs \subseteq DOMAIN clubs',
           r.at \in {"save_table", "save_club", "save_member"} => r.club \in DOMAIN clubs'
    PROVE  req' = [o \in Slots |-> req'[o]] /\ ClubsKnown'
  BY DEF ClubInv, ClubsKnown, Goto

\* No step leaves a table without its club, or a club that was reported
\* without its table.
LEMMA StepClubInv == ClubInv /\ [Next]_vars => ClubInv'
  <1> SUFFICES ASSUME ClubInv, [Next]_vars PROVE ClubInv'
    OBVIOUS
  <1>0. ASSUME NEW s \in Slots, NEW r, Goto(s, r), UNCHANGED <<clubs, tables, created>>,
               r.at \in {"save_table", "save_club", "save_member"} => r.club \in DOMAIN clubs
        PROVE  ClubInv'
    BY <1>0, MovedClub DEF ClubInv, ClubsAreComplete
  <1>1. ASSUME NEW s \in Slots, CreateClub(s) PROVE ClubInv'
    <2> DEFINE c == NextClub
               r == [at |-> "save_table", user |-> req[s].user, club |-> c]
    <2>1. Goto(s, r) /\ DOMAIN clubs' = DOMAIN clubs \cup {c} /\ UNCHANGED <<tables, created>>
      BY <1>1 DEF CreateClub, history
    <2>2. r.club \in DOMAIN clubs'
      BY <2>1
    <2> HIDE DEF c, r
    <2> QED
      BY <2>1, <2>2, MovedClub DEF ClubInv, ClubsAreComplete
  <1>2. ASSUME NEW s \in Slots, SaveTable(s) PROVE ClubInv'
    <2>1. Goto(s, Idle) /\ req[s].club \in DOMAIN clubs /\ clubs' = clubs
      BY <1>2 DEF SaveTable, ClubInv, ClubsKnown
    <2>2. ClubsAreComplete'
      BY <1>2, <2>1 DEF SaveTable, ClubInv, ClubsAreComplete
    <2> QED
      BY <2>1, <2>2, MovedClub DEF Idle, ClubInv
  <1>3. ASSUME NEW s \in Slots, NEW c \in DOMAIN clubs, FindClub(s, c) PROVE ClubInv'
    BY <1>0, <1>3 DEF FindClub, rows, history
  <1>4. ASSUME NEW s \in Slots, SaveCopy(s) PROVE ClubInv'
    BY <1>0, <1>4 DEF SaveCopy, history, ClubInv, ClubsKnown
  <1>5. ASSUME NEW s \in Slots,
               \/ \E n \in Names \cup {Admin} : Register(s, n)
               \/ \E p \in Phones, code \in 1 .. MaxCodes, named \in BOOLEAN :
                      CheckOtp(s, p, code, named)
               \/ FindPhone(s)
               \/ \E u \in UserIds, op \in {"create", "join"} : Authenticate(s, u, op)
        PROVE  ClubInv'
    BY <1>0, <1>5 DEF Register, CheckOtp, FindPhone, Authenticate, Idle, rows, history
  <1>6. ASSUME NEW s \in Slots,
               \/ \E u \in DOMAIN users : Login(s, u)
               \/ \E p \in Phones : RequestOtp(s, p)
               \/ SaveNewUser(s) \/ RefuseJoin(s) \/ SaveMembership(s)
        PROVE  ClubInv'
    BY <1>0, <1>6 DEF Login, RequestOtp, SaveNewUser, RefuseJoin, SaveMembership, Idle, rows, history
  \* A start keeps the clubs and the tables, or begins without either.
  <1>7. CASE Restart
    <2> DEFINE oldClubs == IF adapter = "sqlite" THEN clubs ELSE NoRows
               oldTables == IF adapter = "sqlite" THEN tables ELSE {}
    <2>1. /\ req' = [s \in Slots |-> Idle]
          /\ clubs' = WithDemoClub(oldClubs) /\ tables' = oldTables \cup DemoTables
          /\ created' \subseteq oldTables
      BY <1>7 DEF Restart, Start, ClubInv, ClubsAreComplete
    <2>2. oldTables \subseteq DOMAIN oldClubs
      BY DEF ClubInv, ClubsAreComplete
    <2> HIDE DEF oldClubs, oldTables
    <2>3. DOMAIN clubs' = DOMAIN oldClubs \cup DemoTables
      BY <2>1, DemoClubAdded
    <2>4. ClubsAreComplete'
      BY <2>1, <2>2, <2>3 DEF ClubsAreComplete
    <2> QED
      BY <2>1, <2>4 DEF ClubInv, ClubsKnown, Idle
  <1>8. CASE UNCHANGED vars
    BY <1>8 DEF vars, ClubInv, ClubsKnown, ClubsAreComplete
  <1> QED
    BY <1>1, <1>2, <1>3, <1>4, <1>5, <1>6, <1>7, <1>8 DEF Next, Serve

\* create_club: no table without a club, no club that was reported without a
\* table, through crashes between its two transactions.
THEOREM ClubsHaveTables == Spec => []ClubsAreComplete
  <1>1. Init => ClubInv
    BY InitClubInv
  <1>2. ClubInv /\ [Next]_vars => ClubInv'
    BY StepClubInv
  <1>3. ClubInv => ClubsAreComplete
    BY DEF ClubInv
  <1> QED
    BY <1>1, <1>2, <1>3, PTL DEF Spec

-----------------------------------------------------------------------------
(* One account per username and phone *)

\* The requests that have not reached their first statement, or are through.
Waiting == {"idle", "create", "join"}

\* Over the dictionaries one request runs at a time.
Alone ==
    adapter = "memory" =>
        \A s, o \in Slots : s # o => req[s].at \in Waiting \/ req[o].at \in Waiting

\* There, nobody has taken the name or the phone that was looked up.
StillFree ==
    adapter = "memory" =>
        \A s \in Slots : req[s].at = "save_user" =>
            \A u \in DOMAIN users :
                /\ users[u].name = req[s].name => req[s].name = NoName
                /\ users[u].phone = req[s].phone => req[s].phone = NoName

RowInv == req = [s \in Slots |-> req[s]] /\ Alone /\ StillFree /\ OneRowPerName

\* A step from or to a request that waits, or of one that others wait for,
\* leaves one that runs.
LEMMA MovedAlone ==
    ASSUME req = [s \in Slots |-> req[s]], Alone, NEW s \in Slots, NEW r, Goto(s, r),
           adapter' = adapter
    PROVE  /\ req' = [o \in Slots |-> req'[o]] /\ Alone'
           /\ req'[s] = r /\ \A o \in Slots \ {s} : req'[o] = req[o]
           /\ adapter = "memory" => \A o \in Slots \ {s} : req[o].at \in Waiting
  BY DEF Goto, MayRun, Alone, Waiting

\* What OneRowPerName says of rows that are not those of the table yet
Unique(found) ==
    \A v, w \in DOMAIN found :
        /\ found[v].name = found[w].name => v = w \/ found[v].name = NoName
        /\ found[v].phone = found[w].phone => v = w \/ found[v].phone = NoName

\* Who shares a name or a phone with a new row is displaced by it, or there is
\* nobody such.
LEMMA SavedIsUnique ==
    ASSUME NEW found, Unique(found), NEW u, NEW row,
           \A v \in DOMAIN found : adapter = "memory" =>
               /\ found[v].name = row.name => row.name = NoName
               /\ found[v].phone = row.phone => row.phone = NoName
    PROVE  Unique(SaveUser(found, u, row))
  <1> DEFINE new == SaveUser(found, u, row)
  <1>1. new = [x \in (DOMAIN found \ Displaced(found, row)) \cup {u} |->
                 IF x = u THEN row ELSE found[x]]
    BY DEF SaveUser
  <1>2. ASSUME NEW v \in DOMAIN found \ Displaced(found, row)
        PROVE  /\ found[v].name = row.name => row.name = NoName
               /\ found[v].phone = row.phone => row.phone = NoName
    <2>1. CASE adapter = "memory"
      BY <2>1
    <2>2. CASE adapter # "memory"
      BY <2>2 DEF Displaced
    <2> QED
      BY <2>1, <2>2
  <1> HIDE DEF new
  <1> SUFFICES ASSUME NEW v \in DOMAIN new, NEW w \in DOMAIN new, v # w
               PROVE  /\ new[v].name = new[w].name => new[v].name = NoName
                      /\ new[v].phone = new[w].phone => new[v].phone = NoName
    BY DEF Unique, new
  <1>3. CASE v # u /\ w # u
    BY <1>1, <1>3 DEF Unique
  <1>4. CASE v = u
    BY <1>1, <1>2, <1>4
  <1>5. CASE w = u
    BY <1>1, <1>2, <1>5
  <1> QED
    BY <1>3, <1>4, <1>5

\* A start adds Admin where nobody has the name, and the demo users over who
\* has their phones; the dictionaries are empty then.
LEMMA StartIsUnique ==
    ASSUME NEW found, Unique(found), adapter = "memory" => found = NoRows, NEW u
    PROVE  Unique(WithDemoUsers(Seeded(found, u)))
  <1> DEFINE one == Seeded(found, u)
             row(phone) == [name |-> NoName, phone |-> phone]
             two == SaveUser(one, Alice, row(AlicePhone))
  <1>1. Unique(one)
    BY DEF Unique, Seeded
  <1>2. adapter = "memory" => \A x \in DOMAIN one : one[x].phone = NoName
    BY DEF Seeded, NoRows
  <1> HIDE DEF one
  <1>3. Unique(two)
    BY <1>1, <1>2, SavedIsUnique, ConstantsAssumption
  <1>4. adapter = "memory" => \A x \in DOMAIN two : two[x].phone \in {NoName, AlicePhone}
    BY <1>2 DEF SaveUser
  <1> HIDE DEF two
  <1>5. Unique(SaveUser(two, Bob, row(BobPhone)))
    BY <1>3, <1>4, SavedIsUnique, ConstantsAssumption
  <1> QED
    BY <1>1, <1>5 DEF WithDemoUsers, one, two

\* The first start leaves one row per name.
LEMMA InitRowInv == Init => RowInv
  <1> SUFFICES ASSUME Init PROVE RowInv
    OBVIOUS
  <1>1. req = [s \in Slots |-> Idle]
    BY DEF Init
  <1>2. Unique(NoRows)
    BY DEF Unique, NoRows
  <1>3. Unique(users)
    BY <1>2, StartIsUnique DEF Init
  <1>4. OneRowPerName
    BY <1>3 DEF Unique, OneRowPerName
  <1> QED
    BY <1>1, <1>4 DEF RowInv, Alone, StillFree, Idle, Waiting

\* A request that does not write users, and that has just looked up the name
\* and the phone if it is going to.
LEMMA MovedRow ==
    ASSUME RowInv, NEW s \in Slots, NEW r, Goto(s, r), UNCHANGED <<adapter, users>>,
           r.at = "save_user" =>
               /\ WithName(r.name) = {} \/ r.name = NoName
               /\ WithPhone(r.phone) = {} \/ r.phone = NoName
    PROVE  RowInv'
  <1>1. /\ req' = [o \in Slots |-> req'[o]] /\ Alone'
        /\ req'[s] = r /\ \A o \in Slots \ {s} : req'[o] = req[o]
    BY MovedAlone DEF RowInv
  <1>2. StillFree'
    BY <1>1 DEF RowInv, StillFree, WithName, WithPhone
  <1>3. OneRowPerName'
    BY DEF RowInv, OneRowPerName
  <1> QED
    BY <1>1, <1>2, <1>3 DEF RowInv

\* No step gives two accounts one username or one phone number.
LEMMA StepRowInv == RowInv /\ [Next]_vars => RowInv'
  <1> SUFFICES ASSUME RowInv, [Next]_vars PROVE RowInv'
    OBVIOUS
  <1>1. ASSUME NEW s \in Slots, SaveNewUser(s) PROVE RowInv'
    <2> DEFINE row == [name |-> req[s].name, phone |-> req[s].phone]
               u == lastId + 1
    <2>1. /\ req[s].at = "save_user" /\ Goto(s, Idle) /\ adapter' = adapter
          /\ users' = SaveUser(users, u, row)
      BY <1>1 DEF SaveNewUser
    <2>2. /\ req' = [o \in Slots |-> req'[o]] /\ Alone'
          /\ adapter = "memory" => \A o \in Slots : req'[o].at \in Waiting
      BY <2>1, MovedAlone DEF RowInv, Idle, Waiting
    <2>3. StillFree'
      BY <2>1, <2>2 DEF StillFree, Waiting
    \* There was nobody at the lookup and is nobody yet.
    <2>4. \A v \in DOMAIN users : adapter = "memory" =>
              /\ users[v].name = row.name => row.name = NoName
              /\ users[v].phone = row.phone => row.phone = NoName
      BY <2>1 DEF RowInv, StillFree
    <2> HIDE DEF row, u
    <2>5. OneRowPerName'
      <3>1. Unique(users)
        BY DEF RowInv, OneRowPerName, Unique
      <3>2. Unique(SaveUser(users, u, row))
        BY <2>4, <3>1, SavedIsUnique
      <3> QED
        BY <2>1, <3>2 DEF OneRowPerName, Unique
    <2> QED
      BY <2>2, <2>3, <2>5 DEF RowInv
  <1>2. ASSUME NEW s \in Slots, NEW n, Register(s, n) PROVE RowInv'
    BY <1>2, MovedRow DEF Register, rows
  <1>3. ASSUME NEW s \in Slots, FindPhone(s) PROVE RowInv'
    BY <1>3, MovedRow DEF FindPhone, rows, Idle
  <1>4. ASSUME NEW s \in Slots,
               \/ \E u \in DOMAIN users : Login(s, u)
               \/ \E p \in Phones : RequestOtp(s, p)
               \/ \E p \in Phones, code \in 1 .. MaxCodes, named \in BOOLEAN :
                      CheckOtp(s, p, code, named)
               \/ \E u \in UserIds, op \in {"create", "join"} : Authenticate(s, u, op)
        PROVE  RowInv'
    BY <1>4, MovedRow DEF Login, RequestOtp, CheckOtp, Authenticate, Idle, rows
  <1>5. ASSUME NEW s \in Slots,
               \/ CreateClub(s) \/ SaveTable(s) \/ \E c \in DOMAIN clubs : FindClub(s, c)
               \/ RefuseJoin(s) \/ SaveCopy(s) \/ SaveMembership(s)
        PROVE  RowInv'
    BY <1>5, MovedRow
    DEF CreateClub, SaveTable, FindClub, RefuseJoin, SaveCopy, SaveMembership, Idle, rows
  <1>6. CASE Restart
    <2> DEFINE found == IF adapter = "sqlite" THEN users ELSE NoRows
               u == lastId + 1
    <2>1. req' = [s \in Slots |-> Idle] /\ users' = WithDemoUsers(Seeded(found, u))
      BY <1>6 DEF Restart, Start
    <2>2. Alone' /\ StillFree'
      BY <2>1 DEF Alone, StillFree, Idle, Waiting
    <2>3. Unique(found) /\ (adapter = "memory" => found = NoRows)
      BY DEF RowInv, OneRowPerName, Unique, NoRows
    <2> HIDE DEF found, u
    <2>4. OneRowPerName'
      BY <2>1, <2>3, StartIsUnique DEF OneRowPerName, Unique
    <2> QED
      BY <2>1, <2>2, <2>4 DEF RowInv
  <1>7. CASE UNCHANGED vars
    BY <1>7 DEF vars, RowInv, Alone, StillFree, OneRowPerName
  <1> QED
    BY <1>1, <1>2, <1>3, <1>4, <1>5, <1>6, <1>7 DEF Next, Serve

\* A username or a phone number means one account (the partial unique indexes
\* of sqlite_adapter.initialize; the handlers over memory.py).
THEOREM NamesAreUnique == Spec => []OneRowPerName
  <1>1. Init => RowInv
    BY InitRowInv
  <1>2. RowInv /\ [Next]_vars => RowInv'
    BY StepRowInv
  <1>3. RowInv => OneRowPerName
    BY DEF RowInv
  <1> QED
    BY <1>1, <1>2, <1>3, PTL DEF Spec

-----------------------------------------------------------------------------
(* Memberships *)

\* The clubs are numbered as they come, the demo club apart, members are users
\* of a club that is there, and the requests carry users.
NewClubs == DOMAIN clubs \ {DemoClub}
Numbered == IsFiniteSet(NewClubs) /\ NewClubs = 1 .. Cardinality(NewClubs)
MembersKnown == members \subseteq (DOMAIN clubs) \X UserIds
UsersKnown ==
    \A s \in Slots :
        /\ req[s].at \in {"create", "join", "save_club", "save_member"} => req[s].user \in UserIds
        /\ req[s].at = "save_club" => req[s].copy \subseteq UserIds

\* Over the dictionaries the members that were read are still all there are.
CopyIsWhole ==
    adapter = "memory" =>
        \A s \in Slots : req[s].at = "save_club" => MembersOf(req[s].club) \subseteq req[s].copy

MemberInv == ClubInv /\ Alone /\ Numbered /\ MembersKnown /\ UsersKnown /\ CopyIsWhole

\* No clubs at first, or the demo club with its two members.
LEMMA InitMemberInv == Init => MemberInv
  <1> SUFFICES ASSUME Init PROVE MemberInv
    OBVIOUS
  <1>1. /\ req = [s \in Slots |-> Idle]
        /\ DOMAIN clubs = DemoTables /\ members = DemoTables \X {Alice, Bob}
    BY DemoClubAdded DEF Init, NoRows
  <1>2. NewClubs = {}
    BY <1>1, DemoClubAdded DEF NewClubs
  <1>3. Numbered
    BY <1>2, FS_EmptySet DEF Numbered
  <1>4. MembersKnown
    BY <1>1, ConstantsAssumption DEF MembersKnown, Alice, Bob, UserIds
  <1> QED
    BY <1>1, <1>3, <1>4, InitClubInv
    DEF MemberInv, Alone, UsersKnown, CopyIsWhole, Idle, Waiting

\* What is saved of a club is added, and nothing goes that was saved before.
LEMMA MembersAreAdded ==
    ASSUME MembersKnown, NEW c, NEW copy \in SUBSET UserIds,
           adapter = "memory" => MembersOf(c) \subseteq copy
    PROVE  /\ members \subseteq MembersSaved(c, copy)
           /\ MembersSaved(c, copy) \subseteq members \cup ({c} \X copy)
           /\ \A u \in copy : <<c, u>> \in MembersSaved(c, copy)
  <1>1. ASSUME NEW m \in members, m[1] = c, adapter = "memory"
        PROVE  \E u \in copy : m = <<c, u>>
    <2>1. m = <<m[1], m[2]>> /\ m[2] \in UserIds
      BY DEF MembersKnown
    <2>2. m[2] \in MembersOf(c)
      BY <1>1, <2>1 DEF MembersOf
    <2> QED
      BY <1>1, <2>1, <2>2
  <1> QED
    BY <1>1 DEF MembersSaved

\* The steps of requests that save no membership and found no club.
LEMMA MovedMember ==
    ASSUME MemberInv, ClubInv', NEW s \in Slots, NEW r, Goto(s, r),
           UNCHANGED <<adapter, clubs, members>>,
           r.at # "save_club",
           r.at \in {"create", "join", "save_member"} => r.user \in UserIds
    PROVE  MemberInv'
  <1>1. /\ Alone'
        /\ req'[s] = r /\ \A o \in Slots \ {s} : req'[o] = req[o]
    BY MovedAlone DEF MemberInv, ClubInv
  <1>2. Numbered' /\ MembersKnown'
    BY DEF MemberInv, Numbered, NewClubs, MembersKnown
  <1>3. UsersKnown'
    BY <1>1 DEF MemberInv, UsersKnown
  <1>4. CopyIsWhole'
    BY <1>1 DEF MemberInv, CopyIsWhole, MembersOf
  <1> QED
    BY <1>1, <1>2, <1>3, <1>4 DEF MemberInv

\* The steps that save memberships: no copy is being carried when they are done.
LEMMA SavedMember ==
    ASSUME MemberInv, ClubInv', NEW s \in Slots, NEW r, Goto(s, r), adapter' = adapter,
           Numbered', MembersKnown',
           r.at # "save_club",
           r.at \in {"create", "join", "save_member"} => r.user \in UserIds
    PROVE  MemberInv'
  <1>1. /\ Alone'
        /\ req'[s] = r /\ \A o \in Slots \ {s} : req'[o] = req[o]
        /\ adapter = "memory" => \A o \in Slots \ {s} : req[o].at \in Waiting
    BY MovedAlone DEF MemberInv, ClubInv
  <1>2. UsersKnown'
    BY <1>1 DEF MemberInv, UsersKnown
  <1>3. CopyIsWhole'
    BY <1>1 DEF CopyIsWhole, Waiting
  <1> QED
    BY <1>1, <1>2, <1>3 DEF MemberInv

\* The next number is not that of a club that is there.
LEMMA NextClubIsFree ==
    ASSUME Numbered
    PROVE  /\ NextClub \notin DOMAIN clubs /\ NextClub \in Nat \ {DemoClub}
           /\ IsFiniteSet(NewClubs \cup {NextClub})
           /\ NewClubs \cup {NextClub} = 1 .. Cardinality(NewClubs \cup {NextClub})
  <1> DEFINE n == Cardinality(NewClubs)
  <1>1. n \in Nat /\ NewClubs = 1 .. n /\ NextClub = n + 1
    BY FS_CardinalityType DEF Numbered, NextClub, NewClubs
  <1>2. n + 1 \notin NewClubs /\ n + 1 # 0
    BY <1>1
  <1>3. IsFiniteSet(NewClubs \cup {n + 1}) /\ Cardinality(NewClubs \cup {n + 1}) = n + 1
    BY <1>1, <1>2, FS_AddElement DEF Numbered
  <1>4. NewClubs \cup {n + 1} = 1 .. n + 1
    BY <1>1
  <1>5. NextClub \notin DOMAIN clubs
    BY <1>1, <1>2 DEF NewClubs, DemoClub
  <1>6. NextClub \in Nat \ {DemoClub}
    BY <1>1 DEF DemoClub
  <1>7. IsFiniteSet(NewClubs \cup {NextClub})
        /\ NewClubs \cup {NextClub} = 1 .. Cardinality(NewClubs \cup {NextClub})
    BY <1>1, <1>3, <1>4, Zenon
  <1> QED
    BY <1>5, <1>6, <1>7

\* create_club adds the club, and the membership of its owner.
LEMMA CreateAdds ==
    ASSUME MemberInv, NEW s \in Slots, CreateClub(s)
    PROVE  /\ Numbered' /\ MembersKnown' /\ members \subseteq members'
           /\ \A x \in DOMAIN clubs' : \/ x \in DOMAIN clubs /\ clubs'[x] = clubs[x]
                                       \/ /\ x # DemoClub /\ clubs'[x] = req[s].user
                                          /\ <<x, req[s].user>> \in members'
  <1> DEFINE c == NextClub
             u == req[s].user
  <1>1. /\ u \in UserIds /\ adapter' = adapter
        /\ clubs' = [x \in DOMAIN clubs \cup {c} |-> IF x = c THEN u ELSE clubs[x]]
        /\ members' = MembersSaved(c, {u})
    BY DEF CreateClub, MemberInv, UsersKnown
  <1>2. /\ c \notin DOMAIN clubs /\ c # DemoClub
        /\ IsFiniteSet(NewClubs \cup {c})
        /\ NewClubs \cup {c} = 1 .. Cardinality(NewClubs \cup {c})
    BY NextClubIsFree DEF MemberInv
  <1>3. MembersOf(c) = {}
    BY <1>2 DEF MemberInv, MembersKnown, MembersOf
  <1> HIDE DEF c
  <1>4. /\ members \subseteq members' /\ members' \subseteq members \cup ({c} \X {u})
        /\ <<c, u>> \in members'
    BY <1>1, <1>3, MembersAreAdded DEF MemberInv
  <1>5. DOMAIN clubs' = DOMAIN clubs \cup {c}
    BY <1>1
  <1>a. NewClubs' = NewClubs \cup {c}
    BY <1>2, <1>5 DEF NewClubs
  <1>6. Numbered'
    BY <1>2, <1>a, Zenon DEF Numbered
  <1>7. MembersKnown'
    BY <1>1, <1>4, <1>5 DEF MemberInv, MembersKnown
  <1>8. clubs'[c] = u /\ \A x \in DOMAIN clubs : clubs'[x] = clubs[x]
    BY <1>1, <1>2
  <1>9. \A x \in DOMAIN clubs' : \/ x \in DOMAIN clubs /\ clubs'[x] = clubs[x]
                                 \/ /\ x # DemoClub /\ clubs'[x] = req[s].user
                                    /\ <<x, req[s].user>> \in members'
    BY <1>2, <1>4, <1>5, <1>8
  <1>10. members \subseteq members'
    BY <1>4
  <1> QED
    BY <1>6, <1>7, <1>9, <1>10

\* save_club of a copy, and save_membership, add memberships.
LEMMA SaveAdds ==
    ASSUME MemberInv, NEW s \in Slots, SaveCopy(s) \/ SaveMembership(s)
    PROVE  Numbered' /\ MembersKnown' /\ members \subseteq members'
  <1> DEFINE c == req[s].club
  <1>1. c \in DOMAIN clubs /\ UNCHANGED <<adapter, clubs>>
    BY DEF SaveCopy, SaveMembership, history, MemberInv, ClubInv, ClubsKnown
  <1>2. Numbered'
    BY <1>1 DEF MemberInv, Numbered, NewClubs
  <1>3. CASE SaveCopy(s)
    <2> DEFINE copy == req[s].copy
    <2>1. members' = MembersSaved(c, copy) /\ copy \in SUBSET UserIds
          /\ (adapter = "memory" => MembersOf(c) \subseteq copy)
      BY <1>3 DEF SaveCopy, MemberInv, UsersKnown, CopyIsWhole
    <2> HIDE DEF c, copy
    <2>2. members \subseteq members' /\ members' \subseteq members \cup ({c} \X copy)
      BY <2>1, MembersAreAdded DEF MemberInv
    <2>3. MembersKnown'
      BY <1>1, <2>1, <2>2 DEF MemberInv, MembersKnown
    <2> QED
      BY <1>2, <2>2, <2>3
  <1>4. CASE SaveMembership(s)
    <2>1. members' = members \cup {<<c, req[s].user>>} /\ req[s].user \in UserIds
      BY <1>4 DEF SaveMembership, MemberInv, UsersKnown
    <2>2. MembersKnown'
      BY <1>1, <2>1 DEF MemberInv, MembersKnown
    <2> QED
      BY <1>2, <2>1, <2>2
  <1> QED
    BY <1>3, <1>4

\* No step of a request loses a membership, or reads a club and runs beside
\* another one over the dictionaries.
LEMMA StepMemberInv == MemberInv /\ [Next]_vars => MemberInv'
  <1> SUFFICES ASSUME MemberInv, [Next]_vars PROVE MemberInv'
    OBVIOUS
  <1>0. ClubInv'
    BY StepClubInv DEF MemberInv
  <1>1. ASSUME NEW s \in Slots, CreateClub(s) PROVE MemberInv'
    <2>1. Numbered' /\ MembersKnown'
      BY <1>1, CreateAdds
    <2> QED
      BY <1>0, <1>1, <2>1, SavedMember DEF CreateClub
  <1>2. ASSUME NEW s \in Slots, SaveCopy(s) PROVE MemberInv'
    <2>1. Numbered' /\ MembersKnown' /\ req[s].user \in UserIds
      BY <1>2, SaveAdds DEF SaveCopy, MemberInv, UsersKnown
    <2> QED
      BY <1>0, <1>2, <2>1, SavedMember DEF SaveCopy
  <1>3. ASSUME NEW s \in Slots, SaveMembership(s) PROVE MemberInv'
    <2>1. Numbered' /\ MembersKnown'
      BY <1>3, SaveAdds
    <2> QED
      BY <1>0, <1>3, <2>1, SavedMember DEF SaveMembership, Idle
  \* The copy is taken from the row as it is, with the caller.
  <1>4. ASSUME NEW s \in Slots, NEW c \in DOMAIN clubs, FindClub(s, c) PROVE MemberInv'
    <2> DEFINE u == req[s].user
               r == [at |-> "save_club", user |-> u, club |-> c, copy |-> MembersOf(c) \cup {u}]
    <2>1. Goto(s, r) /\ UNCHANGED <<adapter, clubs, members>> /\ u \in UserIds
      BY <1>4 DEF FindClub, rows, MemberInv, UsersKnown
    <2>2. /\ Alone'
          /\ req'[s] = r /\ \A o \in Slots \ {s} : req'[o] = req[o]
      BY <2>1, MovedAlone DEF MemberInv, ClubInv
    <2>3. Numbered' /\ MembersKnown'
      BY <2>1 DEF MemberInv, Numbered, NewClubs, MembersKnown
    <2>4. MembersOf(c) \subseteq UserIds
      BY DEF MembersOf
    <2>5. UsersKnown'
      BY <2>1, <2>2, <2>4 DEF MemberInv, UsersKnown
    <2>6. CopyIsWhole'
      BY <2>1, <2>2 DEF MemberInv, CopyIsWhole, MembersOf
    <2> QED
      BY <1>0, <2>2, <2>3, <2>5, <2>6 DEF MemberInv
  <1>5. ASSUME NEW s \in Slots, NEW u \in UserIds, NEW op \in {"create", "join"},
               Authenticate(s, u, op)
        PROVE  MemberInv'
    BY <1>0, <1>5, MovedMember DEF Authenticate, rows
  <1>6. ASSUME NEW s \in Slots,
               \/ \E n \in Names \cup {Admin} : Register(s, n)
               \/ \E p \in Phones, code \in 1 .. MaxCodes, named \in BOOLEAN :
                      CheckOtp(s, p, code, named)
               \/ FindPhone(s)
        PROVE  MemberInv'
    BY <1>0, <1>6, MovedMember DEF Register, CheckOtp, FindPhone, Idle, rows
  <1>7. ASSUME NEW s \in Slots,
               \/ \E u \in DOMAIN users : Login(s, u)
               \/ \E p \in Phones : RequestOtp(s, p)
               \/ SaveNewUser(s) \/ SaveTable(s) \/ RefuseJoin(s)
        PROVE  MemberInv'
    BY <1>0, <1>7, MovedMember
    DEF Login, RequestOtp, SaveNewUser, SaveTable, RefuseJoin, Idle, rows
  <1>8. CASE Restart
    <2> DEFINE oldClubs == IF adapter = "sqlite" THEN clubs ELSE NoRows
               oldMembers == IF adapter = "sqlite" THEN members ELSE {}
    <2>1. /\ req' = [s \in Slots |-> Idle]
          /\ clubs' = WithDemoClub(oldClubs) /\ members' = oldMembers \cup DemoMembers
      BY <1>8 DEF Restart, Start
    <2>a. /\ oldMembers \subseteq (DOMAIN oldClubs) \X UserIds
          /\ DOMAIN oldClubs = DOMAIN clubs \/ DOMAIN oldClubs = {}
      BY DEF MemberInv, MembersKnown, NoRows
    <2> HIDE DEF oldClubs, oldMembers
    <2>b. DOMAIN clubs' = DOMAIN oldClubs \cup DemoTables /\ DemoTables \subseteq {DemoClub}
      BY <2>1, DemoClubAdded
    <2>2. Numbered'
      <3>1. NewClubs' = NewClubs \/ NewClubs' = {}
        BY <2>a, <2>b DEF NewClubs
      <3> QED
        BY <3>1, FS_EmptySet DEF MemberInv, Numbered
    <2>3. MembersKnown'
      <3>1. {Alice, Bob} \subseteq UserIds
        BY ConstantsAssumption DEF Alice, Bob, UserIds
      <3>2. DemoMembers \subseteq DemoTables \X {Alice, Bob}
        BY DEF DemoMembers, DemoTables
      <3> QED
        BY <2>1, <2>a, <2>b, <3>1, <3>2 DEF MembersKnown
    <2> QED
      BY <1>0, <2>1, <2>2, <2>3 DEF MemberInv, Alone, UsersKnown, CopyIsWhole, Idle, Waiting
  <1>9. CASE UNCHANGED vars
    BY <1>0, <1>9 DEF vars, MemberInv, Alone, Numbered, NewClubs, MembersKnown, UsersKnown, CopyIsWhole, MembersOf
  <1> QED
    BY <1>1, <1>2, <1>3, <1>4, <1>5, <1>6, <1>7, <1>8, <1>9 DEF Next, Serve

\* Memberships stay, except where the dictionaries die with the process.
LEMMA StepKeepsMembers ==
    MemberInv /\ restarts \in Nat /\ [Next]_vars =>
        (adapter = "sqlite" \/ restarts' = restarts => members \subseteq members')
  <1> SUFFICES ASSUME MemberInv, restarts \in Nat, [Next]_vars
               PROVE  adapter = "sqlite" \/ restarts' = restarts => members \subseteq members'
    OBVIOUS
  <1>1. ASSUME NEW s \in Slots, CreateClub(s) \/ SaveCopy(s) \/ SaveMembership(s)
        PROVE  members \subseteq members'
    BY <1>1, CreateAdds, SaveAdds
  <1>2. CASE Restart
    <2>1. restarts' # restarts
      BY <1>2 DEF Restart
    <2> QED
      BY <1>2, <2>1 DEF Restart, Start
  <1>3. CASE members' = members
    BY <1>3
  <1> QED
    BY <1>1, <1>2, <1>3
    DEF Next, Serve, Register, Login, RequestOtp, CheckOtp, FindPhone, SaveNewUser,
        Authenticate, SaveTable, FindClub, RefuseJoin, rows, vars

\* No request that saves a club with the members it read earlier takes away a
\* membership (join_club, join_club_by_invite, create_club).
THEOREM MembershipsStay == Spec => MembershipKept
  <1>1. Init => MemberInv
    BY InitMemberInv
  <1>2. MemberInv /\ [Next]_vars => MemberInv'
    BY StepMemberInv
  <1>3. Init => restarts \in Nat
    BY DEF Init
  <1>4. restarts \in Nat /\ [Next]_vars => (restarts \in Nat)'
    <2>1. [Next]_vars => restarts' = restarts \/ restarts' = restarts + 1
     BY DEF Next, Serve, Restart, Register, Login, RequestOtp, CheckOtp, FindPhone,
           SaveNewUser, Authenticate, CreateClub, SaveTable, FindClub, RefuseJoin, SaveCopy,
           SaveMembership, history, vars
    <2> QED
      BY <2>1
  <1>5. MemberInv /\ restarts \in Nat /\ [Next]_vars =>
            [adapter = "sqlite" \/ restarts' = restarts => members \subseteq members']_vars
    BY StepKeepsMembers
  <1> QED
    BY <1>1, <1>2, <1>3, <1>4, <1>5, PTL DEF Spec, MembershipKept

-----------------------------------------------------------------------------
(* The owner of the clubs *)

\* There is an Admin, without a phone, whom no request is about to register;
\* it is Admin who creates a club; and outside production Alice keeps her phone.
Ids == lastId \in Nat /\ lastId >= 3 /\ DOMAIN users \subseteq 1 .. lastId
AdminStays ==
    /\ WithName(Admin) # {}
    /\ \A u \in WithName(Admin) : users[u].phone = NoName /\ u \notin {Alice, Bob}
    /\ \A s \in Slots : req[s].at = "save_user" => req[s].name # Admin
AdminCreates == \A s \in Slots : req[s].at = "create" => req[s].user \in WithName(Admin)
AliceStays ==
    app_env # "production" =>
        /\ Alice \in DOMAIN users /\ users[Alice] = [name |-> NoName, phone |-> AlicePhone]
        /\ \A s \in Slots : req[s].at = "save_user" => req[s].phone # AlicePhone
OwnersAreUsers ==
    \A c \in DOMAIN clubs :
        /\ IF c = DemoClub THEN clubs[c] = Alice /\ app_env # "production"
           ELSE clubs[c] \in WithName(Admin)
        /\ <<c, clubs[c]>> \in members

OwnerInv == Ids /\ AdminStays /\ AdminCreates /\ AliceStays /\ OwnersAreUsers

\* What a start makes of the accounts: who was Admin still is, or the fresh id
\* is; and outside production Alice has her row.
LEMMA StartKeepsOwners ==
    ASSUME NEW found, NEW u \in Nat, u >= 3, DOMAIN found \subseteq 1 .. u,
           \A x \in DOMAIN found : found[x].name = Admin =>
               found[x].phone = NoName /\ x \notin {Alice, Bob}
    PROVE  LET new == WithDemoUsers(Seeded(found, u))
           IN  /\ DOMAIN new \subseteq 1 .. u
               /\ \A x \in DOMAIN new : new[x].name = Admin =>
                      new[x].phone = NoName /\ x \notin {Alice, Bob}
               /\ \E x \in DOMAIN new : new[x].name = Admin
               /\ \A x \in DOMAIN found : found[x].name = Admin =>
                      x \in DOMAIN new /\ new[x] = found[x]
               /\ app_env # "production" =>
                      Alice \in DOMAIN new /\ new[Alice] = [name |-> NoName, phone |-> AlicePhone]
  <1> DEFINE one == Seeded(found, u)
             row(phone) == [name |-> NoName, phone |-> phone]
             two == SaveUser(one, Alice, row(AlicePhone))
             three == SaveUser(two, Bob, row(BobPhone))
             Kept(a, b) ==
                 /\ DOMAIN b \subseteq 1 .. u
                 /\ \A x \in DOMAIN b : b[x].name = Admin =>
                        b[x].phone = NoName /\ x \notin {Alice, Bob}
                 /\ \A x \in DOMAIN a : a[x].name = Admin => x \in DOMAIN b /\ b[x] = a[x]
  <1>1. Alice \in 1 .. u /\ Bob \in 1 .. u /\ u \notin {Alice, Bob} /\ Alice # Bob
    BY DEF Alice, Bob
  <1>2. Kept(found, one) /\ \E x \in DOMAIN one : one[x].name = Admin
    <2>1. CASE \E x \in DOMAIN found : found[x].name = Admin
      BY <2>1 DEF Seeded
    <2>2. CASE ~\E x \in DOMAIN found : found[x].name = Admin
      <3>1. one = [x \in DOMAIN found \cup {u} |->
                     IF x = u THEN [name |-> Admin, phone |-> NoName] ELSE found[x]]
        BY <2>2 DEF Seeded
      <3> HIDE DEF one
      <3>2. DOMAIN one = DOMAIN found \cup {u} /\ one[u] = [name |-> Admin, phone |-> NoName]
            /\ \A x \in DOMAIN found \ {u} : one[x] = found[x]
        BY <3>1
      <3> QED
        BY <1>1, <2>2, <3>2
    <2> QED
      BY <2>1, <2>2
  <1> HIDE DEF one
  \* Saving a row without a username, with a phone that is not Admin's
  <1>3. ASSUME NEW a, NEW v \in {Alice, Bob}, NEW phone, phone # NoName, Kept(one, a)
        PROVE  /\ Kept(one, SaveUser(a, v, row(phone)))
               /\ v \in DOMAIN SaveUser(a, v, row(phone))
               /\ SaveUser(a, v, row(phone))[v] = row(phone)
    <2> DEFINE b == SaveUser(a, v, row(phone))
               gone == Displaced(a, row(phone))
    <2>1. DOMAIN b = (DOMAIN a \ gone) \cup {v} /\ b[v] = row(phone)
          /\ \A x \in DOMAIN b \ {v} : b[x] = a[x]
      BY DEF SaveUser
    <2>2. \A x \in DOMAIN a : a[x].name = Admin => x \notin gone /\ x # v
      BY <1>3, ConstantsAssumption DEF Displaced
    <2> HIDE DEF b, gone
    <2>3. Kept(one, b)
      BY <1>1, <1>3, <2>1, <2>2, ConstantsAssumption
    <2> QED
      BY <2>1, <2>3 DEF b
  <1>4. Kept(one, one)
    BY <1>2
  <1>5. /\ Kept(one, two) /\ Alice \in DOMAIN two /\ two[Alice] = row(AlicePhone)
    BY <1>3, <1>4, ConstantsAssumption
  <1> HIDE DEF two
  <1>6. Kept(one, three)
    BY <1>3, <1>5, ConstantsAssumption
  <1>7. Alice \in DOMAIN three /\ three[Alice] = row(AlicePhone)
    BY <1>1, <1>5, ConstantsAssumption DEF SaveUser, Displaced
  <1>8. WithDemoUsers(one) = IF app_env = "production" THEN one ELSE three
    BY DEF WithDemoUsers, two
  <1> HIDE DEF three
  <1> QED
    BY <1>2, <1>4, <1>6, <1>7, <1>8 DEF one

\* The first start seeds Admin, and Alice with her club.
LEMMA InitOwnerInv == Init => OwnerInv
  <1> SUFFICES ASSUME Init PROVE OwnerInv
    OBVIOUS
  <1>1. /\ users = WithDemoUsers(Seeded(NoRows, 3)) /\ clubs = WithDemoClub(NoRows)
        /\ lastId = 3 /\ req = [s \in Slots |-> Idle] /\ members = DemoMembers
    BY DEF Init
  <1>2. DOMAIN NoRows = {}
    BY DEF NoRows
  <1>3. /\ DOMAIN users \subseteq 1 .. 3
        /\ \A x \in DOMAIN users : users[x].name = Admin =>
               users[x].phone = NoName /\ x \notin {Alice, Bob}
        /\ \E x \in DOMAIN users : users[x].name = Admin
        /\ app_env # "production" =>
               Alice \in DOMAIN users /\ users[Alice] = [name |-> NoName, phone |-> AlicePhone]
    BY <1>1, <1>2, StartKeepsOwners
  <1>4. OwnersAreUsers
    BY <1>1, <1>2, DemoClubAdded DEF OwnersAreUsers
  <1> QED
    BY <1>1, <1>3, <1>4
    DEF OwnerInv, Ids, AdminStays, AdminCreates, AliceStays, WithName, Idle

\* The steps that leave the accounts and the clubs alone: nobody registers as
\* Admin, and nobody else passes for him.
LEMMA MovedOwner ==
    ASSUME OwnerInv, req = [s \in Slots |-> req[s]], NEW s \in Slots, NEW r, Goto(s, r),
           UNCHANGED <<app_env, users, clubs, lastId>>, members \subseteq members',
           r.at = "save_user" =>
               r.name # Admin /\ (WithPhone(r.phone) = {} \/ r.phone = NoName),
           r.at = "create" => r.user \in WithName(Admin)
    PROVE  OwnerInv'
  <1>1. /\ req'[s] = r /\ \A o \in Slots \ {s} : req'[o] = req[o]
    BY DEF Goto
  <1>2. WithName(Admin)' = WithName(Admin)
    BY DEF WithName
  <1>3. Ids'
    BY DEF OwnerInv, Ids
  <1>4. AdminStays' /\ AdminCreates'
    BY <1>1, <1>2 DEF OwnerInv, AdminStays, AdminCreates
  <1>6. AliceStays'
    BY <1>1, ConstantsAssumption DEF OwnerInv, AliceStays, WithPhone
  <1>5. OwnersAreUsers'
    BY <1>2 DEF OwnerInv, OwnersAreUsers
  <1> QED
    BY <1>3, <1>4, <1>5, <1>6 DEF OwnerInv

\* No step of a request takes Admin's account or a club away from him.
LEMMA StepOwnerInv == MemberInv /\ OwnerInv /\ [Next]_vars => OwnerInv'
  <1> SUFFICES ASSUME MemberInv, OwnerInv, [Next]_vars PROVE OwnerInv'
    OBVIOUS
  <1>0. req = [s \in Slots |-> req[s]]
    BY DEF MemberInv, ClubInv
  \* The new row shares neither the name nor the phone of Admin's.
  <1>1. ASSUME NEW s \in Slots, SaveNewUser(s) PROVE OwnerInv'
    <2> DEFINE row == [name |-> req[s].name, phone |-> req[s].phone]
               u == lastId + 1
               kept == DOMAIN users \ Displaced(users, row)
    <2>1. /\ row.name # Admin /\ lastId' = u /\ UNCHANGED <<app_env, clubs, members>>
          /\ users' = [x \in kept \cup {u} |-> IF x = u THEN row ELSE users[x]]
          /\ req' = [req EXCEPT ![s] = Idle]
      BY <1>1 DEF SaveNewUser, SaveUser, Goto, OwnerInv, AdminStays
    <2>2. u \notin DOMAIN users /\ Ids'
      BY <2>1 DEF OwnerInv, Ids
    <2>3. WithName(Admin) \cap Displaced(users, row) = {}
      BY <2>1, ConstantsAssumption DEF Displaced, WithName, OwnerInv, AdminStays
    <2>8. AliceStays'
      <3>1. app_env # "production" =>
                Alice \in kept /\ users[Alice] = [name |-> NoName, phone |-> AlicePhone]
        BY <1>1 DEF SaveNewUser, Displaced, OwnerInv, AliceStays
      <3>2. u # Alice
        BY DEF OwnerInv, Ids, Alice
      <3> HIDE DEF u, kept
      <3>3. app_env # "production" => Alice \in DOMAIN users' /\ users'[Alice] = users[Alice]
        BY <2>1, <3>1, <3>2
      <3>4. \A o \in Slots : req'[o].at = "save_user" => req'[o] = req[o]
        BY <1>0, <2>1 DEF Idle
      <3> QED
        BY <2>1, <3>1, <3>3, <3>4 DEF OwnerInv, AliceStays
    <2> HIDE DEF row, kept
    <2>4. WithName(Admin)' = WithName(Admin)
      <3>1. \A x \in DOMAIN users' : users'[x].name = Admin => x \in WithName(Admin)
        BY <2>1 DEF kept, WithName
      <3>2. \A x \in WithName(Admin) : x \in DOMAIN users' /\ users'[x] = users[x]
        BY <2>1, <2>2, <2>3 DEF kept, WithName
      <3> QED
        BY <3>1, <3>2 DEF WithName
    <2>5. \A x \in WithName(Admin) : users'[x] = users[x]
      BY <2>1, <2>2, <2>3 DEF kept, WithName
    <2>6. AdminStays'
      BY <1>0, <2>1, <2>4, <2>5 DEF OwnerInv, AdminStays, Idle
    <2>7. AdminCreates' /\ OwnersAreUsers'
      BY <1>0, <2>1, <2>4 DEF OwnerInv, AdminCreates, OwnersAreUsers, Idle
    <2> QED
      BY <2>2, <2>6, <2>7, <2>8 DEF OwnerInv
  <1>2. ASSUME NEW s \in Slots, CreateClub(s) PROVE OwnerInv'
    <2>1. members \subseteq members'
          /\ \A x \in DOMAIN clubs' : \/ x \in DOMAIN clubs /\ clubs'[x] = clubs[x]
                                      \/ /\ x # DemoClub /\ clubs'[x] = req[s].user
                                         /\ <<x, req[s].user>> \in members'
      BY <1>2, CreateAdds
    <2>2. PICK r : Goto(s, r) /\ r.at = "save_table"
      BY <1>2 DEF CreateClub
    <2>3. req[s].user \in WithName(Admin) /\ UNCHANGED <<app_env, users, lastId>>
      BY <1>2 DEF CreateClub, OwnerInv, AdminCreates
    <2>4. WithName(Admin)' = WithName(Admin)
      BY <2>3 DEF WithName
    <2>5. OwnersAreUsers'
      BY <2>1, <2>3, <2>4 DEF OwnerInv, OwnersAreUsers
    <2>6. AdminStays' /\ AdminCreates' /\ AliceStays'
      BY <1>0, <2>2, <2>3, <2>4 DEF Goto, OwnerInv, AdminStays, AdminCreates, AliceStays
    <2>7. Ids'
      BY <2>3 DEF OwnerInv, Ids
    <2> QED
      BY <2>5, <2>6, <2>7 DEF OwnerInv
  <1>3. ASSUME NEW s \in Slots, SaveCopy(s) \/ SaveMembership(s) PROVE OwnerInv'
    <2>1. members \subseteq members'
      BY <1>3, SaveAdds
    <2> QED
      BY <1>0, <1>3, <2>1, MovedOwner DEF SaveCopy, SaveMembership, Idle, history
  <1>4. ASSUME NEW s \in Slots, NEW n, Register(s, n) PROVE OwnerInv'
    <2>1. n # Admin
      BY <1>4 DEF Register, OwnerInv, AdminStays
    <2> QED
      BY <1>0, <1>4, <2>1, MovedOwner DEF Register, rows
  <1>5. ASSUME NEW s \in Slots, FindPhone(s) PROVE OwnerInv'
    BY <1>0, <1>5, MovedOwner, ConstantsAssumption DEF FindPhone, rows, Idle
  <1>6. ASSUME NEW s \in Slots, NEW u, NEW op \in {"create", "join"}, Authenticate(s, u, op)
        PROVE  OwnerInv'
    <2>1. op = "create" => u \in WithName(Admin)
      BY <1>6 DEF Authenticate, WithName
    <2> QED
      BY <1>0, <1>6, <2>1, MovedOwner DEF Authenticate, rows
  <1>7. ASSUME NEW s \in Slots,
               \/ \E u \in DOMAIN users : Login(s, u)
               \/ \E p \in Phones : RequestOtp(s, p)
               \/ \E p \in Phones, code \in 1 .. MaxCodes, named \in BOOLEAN :
                      CheckOtp(s, p, code, named)
               \/ SaveTable(s) \/ RefuseJoin(s) \/ \E c \in DOMAIN clubs : FindClub(s, c)
        PROVE  OwnerInv'
    BY <1>0, <1>7, MovedOwner
    DEF Login, RequestOtp, CheckOtp, SaveTable, FindClub, RefuseJoin, Idle, rows
  \* A start finds Admin, or no rows at all.
  <1>8. CASE Restart
    <2> DEFINE u == lastId + 1
               found == IF adapter = "sqlite" THEN users ELSE NoRows
               oldClubs == IF adapter = "sqlite" THEN clubs ELSE NoRows
               oldMembers == IF adapter = "sqlite" THEN members ELSE {}
    <2>1. /\ req' = [s \in Slots |-> Idle] /\ lastId' = u /\ app_env' = app_env
          /\ users' = WithDemoUsers(Seeded(found, u)) /\ clubs' = WithDemoClub(oldClubs)
          /\ members' = oldMembers \cup DemoMembers
      BY <1>8 DEF Restart, Start
    <2>2. /\ u \in Nat /\ u >= 3 /\ DOMAIN found \subseteq 1 .. u
          /\ \A x \in DOMAIN found : found[x].name = Admin =>
                 found[x].phone = NoName /\ x \notin {Alice, Bob}
      BY DEF NoRows, OwnerInv, Ids, AdminStays, WithName
    <2>3. \A c \in DOMAIN oldClubs :
              /\ IF c = DemoClub THEN oldClubs[c] = Alice /\ app_env # "production"
                 ELSE oldClubs[c] \in DOMAIN found /\ found[oldClubs[c]].name = Admin
              /\ <<c, oldClubs[c]>> \in oldMembers
      BY DEF NoRows, OwnerInv, OwnersAreUsers, WithName
    <2> HIDE DEF u, found, oldClubs, oldMembers
    <2>4. /\ DOMAIN users' \subseteq 1 .. u
          /\ \A x \in DOMAIN users' : users'[x].name = Admin =>
                 users'[x].phone = NoName /\ x \notin {Alice, Bob}
          /\ \E x \in DOMAIN users' : users'[x].name = Admin
          /\ \A x \in DOMAIN found : found[x].name = Admin =>
                 x \in DOMAIN users' /\ users'[x] = found[x]
          /\ app_env # "production" =>
                 Alice \in DOMAIN users' /\ users'[Alice] = [name |-> NoName, phone |-> AlicePhone]
      BY <2>1, <2>2, StartKeepsOwners
    <2>5. OwnersAreUsers'
      <3> SUFFICES ASSUME NEW c \in DOMAIN clubs'
                   PROVE  /\ IF c = DemoClub THEN clubs'[c] = Alice /\ app_env # "production"
                             ELSE clubs'[c] \in WithName(Admin)'
                          /\ <<c, clubs'[c]>> \in members'
        BY <2>1 DEF OwnersAreUsers
      <3>1. \/ c \in DOMAIN oldClubs /\ clubs'[c] = oldClubs[c] /\ c \notin DemoTables
            \/ c \in DemoTables /\ clubs'[c] = Alice
        BY <2>1, DemoClubAdded
      <3>2. CASE c \in DOMAIN oldClubs /\ clubs'[c] = oldClubs[c]
        BY <2>1, <2>3, <2>4, <3>2 DEF WithName
      <3>3. CASE c \in DemoTables /\ clubs'[c] = Alice
        <4>1. DemoMembers = DemoTables \X {Alice, Bob}
              /\ DemoTables = IF app_env = "production" THEN {} ELSE {DemoClub}
          BY DEF DemoMembers, DemoTables
        <4>2. <<c, Alice>> \in DemoMembers /\ c = DemoClub /\ app_env # "production"
          BY <3>3, <4>1
        <4> QED
          BY <2>1, <3>3, <4>2
      <3> QED
        BY <3>1, <3>2, <3>3
    <2> QED
      BY <2>1, <2>2, <2>4, <2>5
      DEF OwnerInv, Ids, AdminStays, AdminCreates, AliceStays, WithName, Idle
  <1>9. CASE UNCHANGED vars
    BY <1>9 DEF vars, OwnerInv, Ids, AdminStays, AdminCreates, AliceStays, OwnersAreUsers, WithName
  <1>10. ASSUME NEW s \in Slots, Serve(s) PROVE OwnerInv'
    <2>1. CASE \E n \in Names \cup {Admin} : Register(s, n)
      BY <1>4, <2>1
    <2>2. CASE \E u \in UserIds, op \in {"create", "join"} : Authenticate(s, u, op)
      BY <1>6, <2>2
    <2> QED
      BY <1>1, <1>2, <1>3, <1>5, <1>7, <1>10, <2>1, <2>2 DEF Serve
  <1> QED
    BY <1>8, <1>9, <1>10 DEF Next

\* Clubs belong to the account one logs in to as Admin, and the demo club to
\* Alice, whatever was restarted, seeded or registered since
\* (dev_seed.seed_admin_user, seed_demo_data, create_club).
THEOREM AdminOwnsClubs == Spec => []OwnerIsAdmin
  <1>1. Init => MemberInv /\ OwnerInv
    BY InitMemberInv, InitOwnerInv
  <1>2. MemberInv /\ OwnerInv /\ [Next]_vars => (MemberInv /\ OwnerInv)'
    BY StepMemberInv, StepOwnerInv
  <1>3. OwnerInv => OwnerIsAdmin
    BY DEF OwnerInv, OwnersAreUsers, AliceStays, OwnerIsAdmin, ClubsOf, WithPhone
  <1> QED
    BY <1>1, <1>2, <1>3, PTL DEF Spec
-----------------------------------------------------------------------------
(* Types *)

\* The parts of the type invariant, each of which some of the steps touch.
RowsTyped ==
    /\ app_env \in {"production", "development"} /\ adapter \in {"sqlite", "memory"}
    /\ DOMAIN users \subseteq 1 .. lastId /\ \A u \in DOMAIN users : users[u] \in UserRow
    /\ DOMAIN clubs \subseteq ClubIds     /\ \A c \in DOMAIN clubs : clubs[c] \in UserIds
    /\ members \subseteq (DOMAIN clubs) \X UserIds
    /\ tables \subseteq ClubIds /\ created \subseteq ClubIds
    /\ lastId \in UserIds /\ tokens \subseteq UserIds
    /\ restarts \in 0 .. MaxRestarts
CodesTyped ==
    /\ otps \in [Phones -> 0 .. MaxCodes]
    /\ sent \in [Phones -> 0 .. MaxCodes] /\ accepted \in [Phones -> Nat]
RequestsTyped == req \in [Slots -> Request]

\* What the other invariants of this module give to the types.
TypeInv == TypeOK /\ MemberInv /\ OwnerInv

\* TypeOK is the types of the rows, the codes and the requests.
LEMMA TypeParts == TypeOK <=> RowsTyped /\ CodesTyped /\ RequestsTyped
  BY DEF TypeOK, RowsTyped, CodesTyped, RequestsTyped

\* The same of the next state
LEMMA NextTypeParts ==
    ASSUME RowsTyped', CodesTyped', RequestsTyped'
    PROVE  TypeOK'
  BY DEF TypeOK, RowsTyped, CodesTyped, RequestsTyped

\* A start writes rows of Admin, of Alice and of Bob.
LEMMA StartTypes ==
    ASSUME NEW found, NEW u \in Nat, u >= 3, DOMAIN found \subseteq 1 .. u,
           \A x \in DOMAIN found : found[x] \in UserRow
    PROVE  LET new == WithDemoUsers(Seeded(found, u))
           IN  DOMAIN new \subseteq 1 .. u /\ \A x \in DOMAIN new : new[x] \in UserRow
  <1> DEFINE one == Seeded(found, u)
             two == SaveUser(one, Alice, [name |-> NoName, phone |-> AlicePhone])
             three == SaveUser(two, Bob, [name |-> NoName, phone |-> BobPhone])
             Typed(a) == DOMAIN a \subseteq 1 .. u /\ \A x \in DOMAIN a : a[x] \in UserRow
  <1>1. /\ [name |-> Admin, phone |-> NoName] \in UserRow
        /\ [name |-> NoName, phone |-> AlicePhone] \in UserRow
        /\ [name |-> NoName, phone |-> BobPhone] \in UserRow
        /\ Alice \in 1 .. u /\ Bob \in 1 .. u
    BY DEF UserRow, Alice, Bob
  <1>2. Typed(one)
    BY <1>1 DEF Seeded
  <1> HIDE DEF one
  <1>3. Typed(two)
    BY <1>1, <1>2 DEF SaveUser
  <1> HIDE DEF two
  <1>4. Typed(three)
    BY <1>1, <1>3 DEF SaveUser
  <1> QED
    BY <1>2, <1>4 DEF WithDemoUsers, one, two

\* The first start writes rows of users and clubs that are within the bounds.
LEMMA InitTypeInv == Init => TypeInv
  <1> SUFFICES ASSUME Init PROVE TypeInv
    OBVIOUS
  <1>1. /\ users = WithDemoUsers(Seeded(NoRows, 3)) /\ clubs = WithDemoClub(NoRows)
        /\ DOMAIN NoRows = {} /\ lastId = 3
    BY DEF Init, NoRows
  <1>2. {1, 2, 3} \subseteq UserIds /\ 0 \in ClubIds /\ 0 \in 0 .. MaxCodes
        /\ 0 \in 0 .. MaxRestarts
    BY ConstantsAssumption DEF UserIds, ClubIds
  <1>3. DOMAIN users \subseteq 1 .. 3 /\ \A x \in DOMAIN users : users[x] \in UserRow
    BY <1>1, StartTypes
  <1>4. DOMAIN clubs \subseteq ClubIds /\ \A c \in DOMAIN clubs : clubs[c] \in UserIds
    BY <1>1, <1>2, DemoClubAdded DEF Alice, DemoClub
  <1>5. MemberInv /\ OwnerInv
    BY InitMemberInv, InitOwnerInv
  <1>6. RowsTyped
    BY <1>1, <1>2, <1>3, <1>4, <1>5
    DEF Init, RowsTyped, MemberInv, MembersKnown, DemoTables, DemoClub, Alice, Bob
  <1>7. CodesTyped /\ RequestsTyped
    BY <1>2 DEF Init, CodesTyped, RequestsTyped, Request
  <1> QED
    BY <1>5, <1>6, <1>7, TypeParts DEF TypeInv

\* A request that goes on to something a request may wait for.
LEMMA MovedRequest ==
    ASSUME RequestsTyped, NEW s \in Slots, NEW r \in Request, Goto(s, r)
    PROVE  RequestsTyped'
  BY DEF RequestsTyped, Goto

\* What a request carries is read off where it stands.
LEMMA RequestFields ==
    ASSUME RequestsTyped, NEW s \in Slots
    PROVE  /\ req[s].at = "save_user" =>
                  req[s].name \in Names \cup {NoName} /\ req[s].phone \in Phones \cup {NoName}
           /\ req[s].at = "find_phone" => req[s].phone \in Phones
           /\ req[s].at \in {"create", "join", "save_table", "save_club", "save_member"} =>
                  req[s].user \in UserIds
           /\ req[s].at \in {"save_table", "save_club", "save_member"} =>
                  req[s].club \in ClubIds
           /\ req[s].at = "save_club" => req[s].copy \in SUBSET UserIds
  <1>1. req[s] \in Request
    BY DEF RequestsTyped
  <1> QED
    BY <1>1 DEF Request, Idle

\* No step of a request writes a row, sends a code or moves a request on to
\* anything but what the database and the routes know.
LEMMA ServeTypes ==
    ASSUME TypeInv, MembersKnown', NEW s \in Slots, Serve(s)
    PROVE  TypeOK'
  <1>0. /\ RowsTyped /\ CodesTyped /\ RequestsTyped
        /\ MaxUsers \in Nat /\ MaxCodes \in Nat /\ MaxClubs \in Nat
    BY TypeParts, ConstantsAssumption DEF TypeInv
  <1>a. /\ req[s].at = "save_user" =>
               req[s].name \in Names \cup {NoName} /\ req[s].phone \in Phones \cup {NoName}
        /\ req[s].at = "find_phone" => req[s].phone \in Phones
        /\ req[s].at \in {"create", "join", "save_table", "save_club", "save_member"} =>
               req[s].user \in UserIds
        /\ req[s].at \in {"save_table", "save_club", "save_member"} =>
               req[s].club \in ClubIds
        /\ req[s].at = "save_club" => req[s].copy \in SUBSET UserIds
    BY <1>0, RequestFields
  <1>b. Idle \in Request
    BY DEF Request
  <1>1. ASSUME NEW n \in Names \cup {Admin}, Register(s, n) PROVE TypeOK'
    <2>1. n # Admin
      BY <1>1 DEF Register, TypeInv, OwnerInv, AdminStays
    <2>2. [at |-> "save_user", name |-> n, phone |-> NoName] \in Request
      BY <2>1 DEF Request
    <2>3. RequestsTyped'
      BY <1>0, <1>1, <2>2, MovedRequest DEF Register
    <2> QED
      BY <1>0, <1>1, <2>3, NextTypeParts DEF Register, rows, history, RowsTyped, CodesTyped
  <1>2. ASSUME NEW u \in DOMAIN users, Login(s, u) PROVE TypeOK'
    <2>1. RequestsTyped'
      BY <1>0, <1>2, <1>b, MovedRequest DEF Login
    <2>2. u \in UserIds
      BY <1>0 DEF RowsTyped, UserIds
    <2> QED
      BY <1>0, <1>2, <2>1, <2>2, NextTypeParts DEF Login, rows, RowsTyped, CodesTyped
  <1>3. ASSUME NEW p \in Phones, RequestOtp(s, p) PROVE TypeOK'
    <2>1. RequestsTyped'
      BY <1>0, <1>3, <1>b, MovedRequest DEF RequestOtp
    <2>2. CodesTyped'
      BY <1>0, <1>3 DEF RequestOtp, CodesTyped
    <2> QED
      BY <1>0, <1>3, <2>1, <2>2, NextTypeParts DEF RequestOtp, rows, RowsTyped
  <1>4. ASSUME NEW p \in Phones, NEW code \in 1 .. MaxCodes, NEW named \in BOOLEAN,
               CheckOtp(s, p, code, named)
        PROVE  TypeOK'
    <2>1. [at |-> "find_phone", phone |-> p, named |-> named] \in Request
      BY DEF Request
    <2>2. RequestsTyped'
      BY <1>0, <1>4, <2>1, MovedRequest DEF CheckOtp
    <2>3. CodesTyped'
      BY <1>0, <1>4 DEF CheckOtp, CodesTyped
    <2> QED
      BY <1>0, <1>4, <2>2, <2>3, NextTypeParts DEF CheckOtp, rows, RowsTyped
  <1>5. CASE FindPhone(s)
    <2> DEFINE found == WithPhone(req[s].phone)
    <2>1. [at |-> "save_user", name |-> NoName, phone |-> req[s].phone] \in Request
      BY <1>5, <1>a DEF FindPhone, Request
    <2>2. RequestsTyped'
      BY <1>0, <1>5, <1>b, <2>1, MovedRequest DEF FindPhone
    <2>3. found \subseteq UserIds
      BY <1>0 DEF WithPhone, RowsTyped, UserIds
    <2> QED
      BY <1>0, <1>5, <2>2, <2>3, NextTypeParts DEF FindPhone, rows, RowsTyped, CodesTyped
  <1>6. CASE SaveNewUser(s)
    <2> DEFINE u == lastId + 1
               row == [name |-> req[s].name, phone |-> req[s].phone]
    <2>1. row \in UserRow /\ u \in UserIds /\ lastId' = u /\ lastId \in Nat
      BY <1>0, <1>6, <1>a DEF SaveNewUser, UserRow, RowsTyped, UserIds
    <2>2. /\ DOMAIN users' = (DOMAIN users \ Displaced(users, row)) \cup {u}
          /\ \A x \in DOMAIN users' : users'[x] = IF x = u THEN row ELSE users[x]
      BY <1>6 DEF SaveNewUser, SaveUser
    <2>3. RequestsTyped'
      BY <1>0, <1>6, <1>b, MovedRequest DEF SaveNewUser
    <2>4. DOMAIN users' \subseteq 1 .. u
      BY <1>0, <2>1, <2>2 DEF RowsTyped
    <2> HIDE DEF row, u
    <2>5. \A x \in DOMAIN users' : users'[x] \in UserRow
      BY <1>0, <2>1, <2>2 DEF RowsTyped
    <2>6. tokens' \subseteq UserIds
      BY <1>0, <1>6, <2>1 DEF SaveNewUser, RowsTyped, u
    <2>7. RowsTyped'
      BY <1>0, <1>6, <2>1, <2>4, <2>5, <2>6 DEF SaveNewUser, RowsTyped
    <2> QED
      BY <1>0, <1>6, <2>3, <2>7, NextTypeParts DEF SaveNewUser, CodesTyped
  <1>7. ASSUME NEW u \in UserIds, NEW op \in {"create", "join"}, Authenticate(s, u, op)
        PROVE  TypeOK'
    <2>1. [at |-> op, user |-> u] \in Request
      BY DEF Request
    <2>2. RequestsTyped'
      BY <1>0, <1>7, <2>1, MovedRequest DEF Authenticate
    <2> QED
      BY <1>0, <1>7, <2>2, NextTypeParts DEF Authenticate, rows, history, RowsTyped, CodesTyped
  <1>8. CASE CreateClub(s)
    <2> DEFINE u == req[s].user
               c == NextClub
    <2>1. c \in Nat
      BY NextClubIsFree DEF TypeInv, MemberInv
    <2>2. c \in ClubIds /\ u \in UserIds
      BY <1>0, <1>8, <1>a, <2>1 DEF CreateClub, ClubIds
    <2>3. [at |-> "save_table", user |-> u, club |-> c] \in Request
      BY <2>2 DEF Request
    <2>4. RequestsTyped'
      BY <1>0, <1>8, <2>3, MovedRequest DEF CreateClub
    <2>5. /\ DOMAIN clubs' = DOMAIN clubs \cup {c}
          /\ \A x \in DOMAIN clubs' : clubs'[x] = IF x = c THEN u ELSE clubs[x]
      BY <1>8 DEF CreateClub
    <2> HIDE DEF u, c
    <2>6. DOMAIN clubs' \subseteq ClubIds /\ \A x \in DOMAIN clubs' : clubs'[x] \in UserIds
      BY <1>0, <2>2, <2>5 DEF RowsTyped
    <2>7. RowsTyped'
      BY <1>0, <1>8, <2>6 DEF CreateClub, history, RowsTyped, MembersKnown
    <2> QED
      BY <1>0, <1>8, <2>4, <2>7, NextTypeParts DEF CreateClub, history, CodesTyped
  <1>9. CASE SaveTable(s)
    <2>1. RequestsTyped'
      BY <1>0, <1>9, <1>b, MovedRequest DEF SaveTable
    <2>2. RowsTyped'
      BY <1>0, <1>9, <1>a DEF SaveTable, RowsTyped
    <2> QED
      BY <1>0, <1>9, <2>1, <2>2, NextTypeParts DEF SaveTable, CodesTyped
  <1>10. ASSUME NEW c \in DOMAIN clubs, FindClub(s, c) PROVE TypeOK'
    <2> DEFINE r == [at |-> "save_club", user |-> req[s].user, club |-> c,
                     copy |-> MembersOf(c) \cup {req[s].user}]
    <2>1. r \in Request
      BY <1>0, <1>10, <1>a DEF FindClub, RowsTyped, Request, MembersOf
    <2>2. Goto(s, r)
      BY <1>10 DEF FindClub
    <2> HIDE DEF r
    <2>3. RequestsTyped'
      BY <1>0, <2>1, <2>2, MovedRequest
    <2> QED
      BY <1>0, <1>10, <2>3, NextTypeParts DEF FindClub, rows, history, RowsTyped, CodesTyped
  <1>11. CASE RefuseJoin(s)
    <2>1. RequestsTyped'
      BY <1>0, <1>11, <1>b, MovedRequest DEF RefuseJoin
    <2> QED
      BY <1>0, <1>11, <2>1, NextTypeParts DEF RefuseJoin, rows, history, RowsTyped, CodesTyped
  <1>12. CASE SaveCopy(s)
    <2>1. [at |-> "save_member", user |-> req[s].user, club |-> req[s].club] \in Request
      BY <1>12, <1>a DEF SaveCopy, Request
    <2>2. RequestsTyped'
      BY <1>0, <1>12, <2>1, MovedRequest DEF SaveCopy
    <2> QED
      BY <1>0, <1>12, <2>2, NextTypeParts DEF SaveCopy, history, RowsTyped, CodesTyped, MembersKnown
  <1>13. CASE SaveMembership(s)
    <2>1. RequestsTyped'
      BY <1>0, <1>13, <1>b, MovedRequest DEF SaveMembership
    <2> QED
      BY <1>0, <1>13, <2>1, NextTypeParts
      DEF SaveMembership, history, RowsTyped, CodesTyped, MembersKnown
  <1> QED
    BY <1>1, <1>2, <1>3, <1>4, <1>5, <1>6, <1>7, <1>8, <1>9, <1>10, <1>11, <1>12, <1>13
    DEF Serve

\* Nor does a restart, which draws an id for the Admin it may have to write.
LEMMA RestartTypes ==
    ASSUME TypeInv, MembersKnown', Restart
    PROVE  TypeOK'
  <1> DEFINE found == IF adapter = "sqlite" THEN users ELSE NoRows
             oldClubs == IF adapter = "sqlite" THEN clubs ELSE NoRows
             u == lastId + 1
  <1>0. /\ RowsTyped /\ CodesTyped /\ RequestsTyped
        /\ MaxUsers \in Nat /\ MaxUsers >= 3 /\ MaxCodes \in Nat /\ MaxClubs \in Nat
        /\ MaxRestarts \in Nat
    BY TypeParts, ConstantsAssumption DEF TypeInv
  <1>1. /\ u \in Nat /\ u >= 3 /\ u \in UserIds /\ lastId' = u
        /\ users' = WithDemoUsers(Seeded(found, u)) /\ clubs' = WithDemoClub(oldClubs)
        /\ restarts' \in 0 .. MaxRestarts
    BY <1>0 DEF Restart, Start, RowsTyped, UserIds, TypeInv, OwnerInv, Ids
  <1>2. /\ DOMAIN found \subseteq 1 .. u /\ \A x \in DOMAIN found : found[x] \in UserRow
        /\ DOMAIN oldClubs \subseteq ClubIds /\ \A c \in DOMAIN oldClubs : oldClubs[c] \in UserIds
    BY <1>0 DEF RowsTyped, NoRows, TypeInv, OwnerInv, Ids
  <1> HIDE DEF found, oldClubs, u
  <1>3. DOMAIN users' \subseteq 1 .. u /\ \A x \in DOMAIN users' : users'[x] \in UserRow
    BY <1>1, <1>2, StartTypes
  <1>4. 0 \in ClubIds /\ 1 \in UserIds
    BY <1>0 DEF ClubIds, UserIds
  <1>5. DOMAIN clubs' \subseteq ClubIds /\ \A c \in DOMAIN clubs' : clubs'[c] \in UserIds
    BY <1>1, <1>2, <1>4, DemoClubAdded DEF Alice, DemoClub
  <1>6. /\ tables' \subseteq ClubIds /\ created' \subseteq ClubIds
        /\ app_env' = app_env /\ adapter' = adapter /\ tokens' = tokens
    BY <1>0, <1>4 DEF Restart, Start, RowsTyped, DemoTables, DemoClub
  <1>7. RowsTyped'
    BY <1>0, <1>1, <1>3, <1>5, <1>6 DEF RowsTyped, MembersKnown
  <1>8. CodesTyped' /\ RequestsTyped'
    BY <1>0 DEF Restart, CodesTyped, RequestsTyped, Request
  <1> QED
    BY <1>7, <1>8, NextTypeParts

\* The tables, the codes, the requests under way and the histories keep their
\* types, for any number of requests, users, codes, clubs and restarts: every
\* row that is written is of a user and of a club that the bounds allow.
THEOREM TypesAreKept == Spec => []TypeOK
  <1>1. Init => TypeInv
    BY InitTypeInv
  <1>2. TypeInv /\ [Next]_vars => TypeInv'
    <2> SUFFICES ASSUME TypeInv, [Next]_vars PROVE TypeInv'
      OBVIOUS
    <2>1. MemberInv' /\ OwnerInv'
      BY StepMemberInv, StepOwnerInv DEF TypeInv
    <2>2. TypeOK'
      <3>1. ASSUME NEW s \in Slots, Serve(s) PROVE TypeOK'
        BY <2>1, <3>1, ServeTypes DEF MemberInv
      <3>2. CASE Restart
        BY <2>1, <3>2, RestartTypes DEF MemberInv
      <3>3. CASE UNCHANGED vars
        BY <3>3 DEF TypeInv, TypeOK, vars
      <3> QED
        BY <3>1, <3>2, <3>3 DEF Next
    <2> QED
      BY <2>1, <2>2 DEF TypeInv
  <1>3. TypeInv => TypeOK
    BY DEF TypeInv
  <1> QED
    BY <1>1, <1>2, <1>3, PTL DEF Spec
=============================================================================
