--------------------------- MODULE Accounts_proofs ---------------------------
(***************************************************************************)
(* Proofs about users and their locks, for any names, limit, processes and *)
(* bounds: type correctness, what the count of failed logins means, that a *)
(* reset opens the account, and that an administrator remains.             *)
(***************************************************************************)
EXTENDS Accounts, FiniteSetTheorems, TLAPS

LEMMA BoundsType == /\ Limit \in Nat /\ Limit > 1 /\ MaxUsers \in Nat /\ MaxRuns \in Nat
                    /\ 0 \in 0..MaxUsers /\ 0 \in 0..MaxRuns /\ 0 \in 0..(Limit - 1)
BY BoundsAssumption

(* The parts of a request and of a command.                                *)
OnOne == {"promote", "delete", "right", "wrong"}
WebParts ==
  /\ web.op \in OnOne => web.user \in Ids /\ web.seen \in Row
  /\ web.op = "create" => web.name \in Names /\ web.role \in Roles
CliParts(c) ==
  /\ cli[c].op \in {"remove", "counted", "reset"} =>
       cli[c].user \in Ids /\ cli[c].seen \in Row
  /\ cli[c].op = "create" => cli[c].name \in Names /\ cli[c].role \in Roles

LEMMA Parts ==
  ASSUME TypeOK
  PROVE  WebParts /\ \A c \in Commands : CliParts(c)
<1>1. WebParts
  BY DEF TypeOK, WebParts, OnOne, Idle, Create, OnUser
<1>2. ASSUME NEW c \in Commands PROVE CliParts(c)
  <2>1. cli[c] \in {Idle} \cup Create \cup OnUser({"remove", "counted", "reset"})
    BY DEF TypeOK
  <2> QED
    BY <2>1 DEF CliParts, Idle, Create, OnUser
<1> QED
  BY <1>1, <1>2

-----------------------------------------------------------------------------
(* What the writes of a commit do to the table.                            *)
LEMMA BlankType ==
  ASSUME NEW n \in Names
  PROVE  Blank \in Row /\ Blank.role = "readonly"
<1>1. (CHOOSE m \in Names : TRUE) \in Names
  OBVIOUS
<1> QED
  BY <1>1, BoundsType DEF Blank, NewRow, Row, Roles

LEMMA UpdateDoes ==
  ASSUME users \in [Ids -> Row], NEW u \in Ids, NEW seen \in Row, NEW new \in Row,
         Update(u, seen, new)
  PROVE  /\ present' = present /\ inserted' = inserted /\ users' \in [Ids -> Row]
         /\ \A v \in Ids : v # u \/ u \notin present => users'[v] = users[v]
         /\ u \in present => users'[u] = Flush(users[u], seen, new)
<1>1. Flush(users[u], seen, new) \in Row
  BY DEF Flush, Row
<1> QED
  BY <1>1 DEF Update

LEMMA InsertDoes ==
  ASSUME users \in [Ids -> Row], present \subseteq 1..inserted, inserted \in 0..MaxUsers,
         NEW new, new.name \in Names, new.role \in Roles, Insert(new)
  PROVE  /\ users' \in [Ids -> Row]
         /\ \/ UNCHANGED table
            \/ /\ inserted' = inserted + 1 /\ inserted' \in Ids
               /\ present' = present \cup {inserted'}
               /\ users'[inserted'] = NewRow(new.name, new.role)
               /\ \A v \in Ids : v # inserted' => users'[v] = users[v]
<1>1. NewRow(new.name, new.role) \in Row
  BY BoundsType DEF NewRow, Row
<1> QED
  BY <1>1 DEF Insert, table

LEMMA DeleteDoes ==
  ASSUME TypeOK, NEW u \in Ids, Delete(u)
  PROVE  /\ inserted' = inserted /\ disturbed' = disturbed
         /\ present' = present \ {u} /\ users' \in [Ids -> Row]
         /\ users'[u].role = "readonly"
         /\ guesses' \in [Ids -> 0..Limit] /\ guesses'[u] = 0
         /\ streak' \in [Ids -> 0..Limit] /\ streak'[u] = 0
         /\ \A v \in Ids : v # u => /\ users'[v] = users[v]
                                    /\ guesses'[v] = guesses[v] /\ streak'[v] = streak[v]
<1>1. users[u].name \in Names
  BY DEF TypeOK, Row
<1>2. Blank \in Row /\ Blank.role = "readonly"
  BY <1>1, BlankType
<1> QED
  BY <1>2, BoundsType DEF Delete, TypeOK

-----------------------------------------------------------------------------
(* What a login or a reset that is under way knows of the row it loaded.   *)
(* Nobody locks an account during a login or a reset but a login, and a    *)
(* reset that comes between only lowers the count; the wrong passwords     *)
(* since the last login are at least what was loaded.  Users that are gone *)
(* or not there yet have no count.                                         *)
LoginKnows ==
  web.op \in {"right", "wrong"} =>
    /\ web.user <= inserted /\ ~web.seen.locked
    /\ web.user \in present =>
         /\ ~users[web.user].locked /\ users[web.user].fails <= web.seen.fails
         /\ web.seen.fails <= streak[web.user]
ResetKnows(c) ==
  cli[c].op = "reset" =>
    /\ cli[c].user <= inserted
    /\ cli[c].user \in present /\ c \notin disturbed =>
         /\ users[cli[c].user].locked => cli[c].seen.locked
         /\ users[cli[c].user].fails # 0 => cli[c].seen.fails # 0
Uncounted == \A u \in Ids \ present : guesses[u] = 0 /\ streak[u] = 0

LockInv ==
  /\ TypeOK /\ LockoutCounts /\ Uncounted
  /\ LoginKnows /\ \A c \in Commands : ResetKnows(c)

LEMMA InitLockInv == Init => LockInv
<1> SUFFICES ASSUME Init PROVE LockInv
  OBVIOUS
<1>1. TypeOK
  <2>1. ASSUME NEW u \in Ids PROVE users[u] \in Row
    BY BlankType, BoundsAssumption DEF Init
  <2>2. users \in [Ids -> Row]
    BY <2>1 DEF Init
  <2>3. guesses \in [Ids -> 0..Limit] /\ streak \in [Ids -> 0..Limit]
    BY BoundsType DEF Init
  <2>4. cli \in [Commands -> {Idle} \cup Create
                           \cup OnUser({"remove", "counted", "reset"})]
    BY DEF Init
  <2> QED
    BY <2>2, <2>3, <2>4, BoundsType DEF Init, TypeOK
<1> QED
  BY <1>1 DEF Init, LockInv, LockoutCounts, Uncounted, LoginKnows, ResetKnows, Idle
(* Steps that write nothing.                                               *)
LEMMA ReadsKeepLock ==
  ASSUME LockInv,
         \/ \E u \in Ids : LoginRead(u) \/ Logout(u)
         \/ CreateUserRead \/ RequestFails
         \/ \E t \in Ids : OtherUserRead("promote", t) \/ OtherUserRead("delete", t)
  PROVE  LockInv'
<1> USE DEF LockInv, table, counts
<1>1. CASE \E u \in Ids : LoginRead(u)
  <2> PICK u \in Ids : LoginRead(u)
    BY <1>1
  <2> USE DEF LoginRead
  <2>1. users[u] \in Row /\ u \in 1..inserted
    BY DEF TypeOK
  <2>2. PICK answer \in {"right", "wrong"} : web' = [op |-> answer, user |-> u, seen |-> users[u]]
    OBVIOUS
  <2>3. TypeOK'
    BY <2>1, <2>2 DEF TypeOK, OnUser
  <2>4. LockoutCounts' /\ Uncounted' /\ \A c \in Commands : ResetKnows(c)'
    BY DEF LockoutCounts, Counted, Uncounted, ResetKnows
  <2>5. LoginKnows'
    <3>1. users[u].fails <= streak[u]
      BY DEF LockoutCounts, Counted
    <3> QED
      BY <2>1, <2>2, <3>1 DEF LoginKnows, Row
  <2> QED
    BY <2>3, <2>4, <2>5
<1>2. CASE \E u \in Ids : Logout(u)
  BY <1>2 DEF Logout, TypeOK, LockoutCounts, Counted, Uncounted, LoginKnows, ResetKnows
<1>3. CASE CreateUserRead
  BY <1>3 DEF CreateUserRead, TypeOK, Create, LockoutCounts, Counted, Uncounted, LoginKnows,
              ResetKnows
<1>4. CASE RequestFails
  BY <1>4 DEF RequestFails, Idle, TypeOK, LockoutCounts, Counted, Uncounted, LoginKnows,
              ResetKnows
<1>5. ASSUME NEW t \in Ids, NEW op \in {"promote", "delete"}, OtherUserRead(op, t)
      PROVE  LockInv'
  <2> USE <1>5 DEF OtherUserRead
  <2>1. users[t] \in Row
    BY DEF TypeOK
  <2>2. TypeOK'
    BY <2>1 DEF TypeOK, OnUser
  <2>3. LockoutCounts' /\ Uncounted' /\ LoginKnows' /\ \A c \in Commands : ResetKnows(c)'
    BY DEF LockoutCounts, Counted, Uncounted, LoginKnows, ResetKnows
  <2> QED
    BY <2>2, <2>3
<1> QED
  BY <1>1, <1>2, <1>3, <1>4, <1>5

(* A wrong password: the count that was loaded is raised, whatever the row *)
(* has become meanwhile.                                                   *)
LEMMA RowParts ==
  ASSUME NEW row \in Row
  PROVE  /\ row.name \in Names /\ row.role \in Roles /\ row.locked \in BOOLEAN
         /\ row.fails \in Nat /\ row.fails < Limit
BY BoundsType DEF Row

LEMMA FailedLocks ==
  ASSUME NEW seen \in Row, seen.fails + 1 >= Limit
  PROVE  /\ Failed(seen) \in Row
         /\ Failed(seen).fails = 0 /\ Failed(seen).locked = TRUE
<1>1. Failed(seen) = [name |-> seen.name, role |-> seen.role, fails |-> 0, locked |-> TRUE]
  BY DEF Failed, Row
<1> QED
  BY <1>1, RowParts, BoundsType DEF Row

LEMMA FailedCounts ==
  ASSUME NEW seen \in Row, seen.fails + 1 < Limit
  PROVE  /\ Failed(seen) \in Row
         /\ Failed(seen).fails = seen.fails + 1 /\ Failed(seen).locked = seen.locked
<1>1. seen.fails \in Nat /\ Limit \in Nat
  BY RowParts, BoundsType
<1>2. Failed(seen) = [name |-> seen.name, role |-> seen.role, fails |-> seen.fails + 1,
                      locked |-> seen.locked]
  BY <1>1 DEF Failed, Row
<1> QED
  BY <1>1, <1>2, RowParts DEF Row

LEMMA LoginWrongKeepsLock ==
  ASSUME LockInv, LoginWrong
  PROVE  LockInv'
<1>1. PICK u \in Ids, seen \in Row : u = web.user /\ seen = web.seen
  BY Parts DEF LoginWrong, LockInv, WebParts, OnOne
<1>2. Failed(seen) \in Row
  <2>1. seen.fails + 1 >= Limit \/ seen.fails + 1 < Limit
    BY <1>1, RowParts, BoundsType
  <2> QED
    BY <1>1, <2>1, FailedLocks, FailedCounts
<1>3. /\ users \in [Ids -> Row] /\ present \subseteq Ids
      /\ guesses \in [Ids -> 0..Limit] /\ streak \in [Ids -> 0..Limit]
  BY DEF LockInv, TypeOK
<1>4. /\ present' = present /\ inserted' = inserted /\ users' \in [Ids -> Row]
      /\ \A v \in Ids : v # u \/ u \notin present => users'[v] = users[v]
      /\ u \in present => users'[u] = Flush(users[u], seen, Failed(seen))
  BY <1>1, <1>2, <1>3, UpdateDoes DEF LoginWrong
<1>5. ASSUME u \in present
      PROVE  /\ guesses[u] <= seen.fails /\ seen.fails <= streak[u] /\ seen.locked = FALSE
             /\ users[u].locked = FALSE
  <2>1. /\ web.op = "wrong" /\ users[u] \in Row
        /\ ~seen.locked /\ ~users[u].locked /\ users[u].fails <= seen.fails
        /\ seen.fails <= streak[u] /\ guesses[u] <= Counted(u)
    BY <1>1, <1>3, <1>5 DEF LockInv, LoginKnows, LoginWrong, LockoutCounts
  <2>2. /\ guesses[u] <= users[u].fails /\ guesses[u] \in Nat /\ users[u].fails \in Nat
        /\ seen.fails \in Nat /\ seen.locked \in BOOLEAN /\ users[u].locked \in BOOLEAN
    BY <1>1, <1>3, <2>1, RowParts, BoundsType DEF Counted
  <2> QED
    BY <2>1, <2>2
<1>6. ASSUME u \in present, seen.fails + 1 >= Limit
      PROVE  Counted(u)' = Limit
  <2> DEFINE new == Failed(seen)
  <2>1. users'[u].locked = IF new.locked = seen.locked THEN users[u].locked ELSE new.locked
    BY <1>4, <1>6 DEF Flush
  <2>2. new.locked = TRUE /\ seen.locked = FALSE
    BY <1>1, <1>5, <1>6, FailedLocks
  <2>3. users'[u].locked
    BY <2>1, <2>2
  <2> QED
    BY <2>3 DEF Counted
<1>7. ASSUME u \in present, seen.fails + 1 < Limit
      PROVE  Counted(u)' = seen.fails + 1
  <2> DEFINE new == Failed(seen)
  <2>1. /\ users'[u].fails = IF new.fails = seen.fails THEN users[u].fails ELSE new.fails
        /\ users'[u].locked = IF new.locked = seen.locked THEN users[u].locked ELSE new.locked
    BY <1>4, <1>7 DEF Flush
  <2>2. new.fails = seen.fails + 1 /\ new.locked = seen.locked /\ seen.fails \in Nat
    BY <1>1, <1>7, FailedCounts, RowParts
  <2>3. users'[u].fails = seen.fails + 1
    BY <2>1, <2>2
  <2>4. ~users'[u].locked
    BY <1>5, <1>7, <2>1, <2>2
  <2> QED
    BY <2>3, <2>4 DEF Counted
<1>8. /\ guesses' \in [Ids -> 0..Limit] /\ streak' \in [Ids -> 0..Limit]
      /\ disturbed' \subseteq Commands
      /\ \A v \in Ids : v # u \/ u \notin present
                          => guesses'[v] = guesses[v] /\ streak'[v] = streak[v]
      /\ u \in present => /\ guesses'[u] = guesses[u] + 1
                          /\ streak'[u] = IF streak[u] < Limit THEN streak[u] + 1 ELSE streak[u]
                          /\ \A c \in Commands : cli[c].op = "reset" /\ cli[c].user = u
                                                   => c \in disturbed'
      /\ disturbed \subseteq disturbed'
  <2>1. disturbed \subseteq Commands
    BY DEF LockInv, TypeOK
  <2>2. CASE u \in present
    <3>1. guesses[u] + 1 \in 0..Limit
      <4>1. seen.fails \in Nat /\ seen.fails < Limit /\ guesses[u] \in Nat
        BY <1>1, <1>3, RowParts, BoundsType
      <4>2. guesses[u] <= seen.fails
        BY <1>5, <2>2
      <4> QED
        BY <4>1, <4>2, BoundsType
    <3>2. (IF streak[u] < Limit THEN streak[u] + 1 ELSE streak[u]) \in 0..Limit
      BY <1>1, <1>3, BoundsType
    <3> QED
      BY <1>1, <1>3, <2>1, <2>2, <3>1, <3>2 DEF LoginWrong
  <2>3. CASE u \notin present
    BY <1>1, <1>3, <2>1, <2>3 DEF LoginWrong, counts
  <2> QED
    BY <2>2, <2>3
<1>9. TypeOK'
  BY <1>4, <1>8 DEF LoginWrong, LockInv, TypeOK
<1>10. LockoutCounts'
  <2> SUFFICES ASSUME NEW v \in present
               PROVE  guesses'[v] <= Counted(v)' /\ Counted(v)' <= streak'[v]
    BY <1>4 DEF LockoutCounts
  <2>1. CASE v = u
    <3>1. /\ guesses[u] \in Nat /\ streak[u] \in Nat /\ streak[u] <= Limit
          /\ seen.fails \in Nat /\ seen.fails < Limit
      BY <1>1, <1>3, RowParts, BoundsType
    <3>2. guesses[u] <= seen.fails /\ seen.fails <= streak[u]
      BY <1>5, <2>1
    <3>3. guesses'[u] = guesses[u] + 1
      BY <1>8, <2>1
    <3>4. streak'[u] = IF streak[u] < Limit THEN streak[u] + 1 ELSE streak[u]
      BY <1>8, <2>1
    <3>5. CASE seen.fails + 1 >= Limit
      <4>1. Counted(u)' = Limit
        BY <1>6, <2>1, <3>5
      <4> QED
        BY <2>1, <3>1, <3>2, <3>3, <3>4, <3>5, <4>1, BoundsType
    <3>6. CASE seen.fails + 1 < Limit
      <4>1. Counted(u)' = seen.fails + 1
        BY <1>7, <2>1, <3>6
      <4> QED
        BY <2>1, <3>1, <3>2, <3>3, <3>4, <3>6, <4>1, BoundsType
    <3> QED
      BY <3>1, <3>5, <3>6, BoundsType
  <2>2. CASE v # u
    BY <2>2, <1>3, <1>4, <1>8 DEF Counted, LockInv, LockoutCounts
  <2> QED
    BY <2>1, <2>2
<1>11. Uncounted' /\ LoginKnows'
  BY <1>1, <1>4, <1>8 DEF Uncounted, LoginKnows, LoginWrong, Idle, LockInv
<1>12. ASSUME NEW c \in Commands PROVE ResetKnows(c)'
  <2>1. CliParts(c)
    BY Parts DEF LockInv
  <2> QED
    BY <2>1, <1>4, <1>8 DEF ResetKnows, CliParts, LoginWrong, LockInv
<1> QED
  BY <1>9, <1>10, <1>11, <1>12 DEF LockInv
(* The right password: the row is open and its count is 0 afterwards.      *)
LEMMA LoginRightKeepsLock ==
  ASSUME LockInv, LoginRight
  PROVE  LockInv'
<1>1. PICK u \in Ids, seen \in Row : u = web.user /\ seen = web.seen
  BY Parts DEF LoginRight, LockInv, WebParts, OnOne
<1> DEFINE new == [seen EXCEPT !.fails = 0, !.locked = FALSE]
<1>2. new \in Row /\ new.fails = 0 /\ new.locked = FALSE
  BY BoundsType DEF Row
<1>3. /\ users \in [Ids -> Row] /\ present \subseteq Ids /\ present \subseteq 1..inserted
      /\ guesses \in [Ids -> 0..Limit] /\ streak \in [Ids -> 0..Limit]
  BY DEF LockInv, TypeOK
<1> HIDE DEF new
<1>4. /\ present' = present /\ inserted' = inserted /\ users' \in [Ids -> Row]
      /\ \A v \in Ids : v # u \/ u \notin present => users'[v] = users[v]
      /\ u \in present => users'[u] = Flush(users[u], seen, new)
  <2>1. Update(u, seen, new)
    BY <1>1 DEF LoginRight, new
  <2> QED
    BY <1>2, <1>3, <2>1, UpdateDoes
<1>5. ASSUME u \in present PROVE users'[u].fails = 0 /\ users'[u].locked = FALSE
  <2>1. /\ seen.locked = FALSE /\ users[u].locked = FALSE /\ users[u].fails <= seen.fails
        /\ users[u].fails \in Nat /\ seen.fails \in Nat
    <3>1. ~seen.locked /\ ~users[u].locked /\ users[u].fails <= seen.fails
      BY <1>1, <1>5 DEF LockInv, LoginKnows, LoginRight
    <3> QED
      BY <1>3, <3>1, RowParts
  <2>2. /\ users'[u].fails = IF new.fails = seen.fails THEN users[u].fails ELSE new.fails
        /\ users'[u].locked = IF new.locked = seen.locked THEN users[u].locked ELSE new.locked
    BY <1>4, <1>5 DEF Flush
  <2>3. users'[u].fails = 0
    BY <1>2, <2>1, <2>2
  <2>4. users'[u].locked = FALSE
    BY <1>2, <2>1, <2>2
  <2> QED
    BY <2>3, <2>4
<1>6. /\ guesses' \in [Ids -> 0..Limit] /\ streak' \in [Ids -> 0..Limit]
      /\ \A v \in Ids : v # u \/ u \notin present
                          => guesses'[v] = guesses[v] /\ streak'[v] = streak[v]
      /\ u \in present => guesses'[u] = 0 /\ streak'[u] = 0
      /\ tokens' \subseteq 1..inserted
  <2>1. tokens \subseteq 1..inserted /\ 0 \in 0..Limit
    BY BoundsType DEF LockInv, TypeOK
  <2> QED
    BY <1>1, <1>3, <2>1 DEF LoginRight
<1>7. TypeOK'
  BY <1>4, <1>6 DEF LoginRight, LockInv, TypeOK
<1>8. LockoutCounts'
  <2> SUFFICES ASSUME NEW v \in present
               PROVE  guesses'[v] <= Counted(v)' /\ Counted(v)' <= streak'[v]
    BY <1>4 DEF LockoutCounts
  <2>1. CASE v = u
    <3>1. ~users'[u].locked
      BY <1>5, <2>1
    <3> QED
      BY <1>5, <1>6, <2>1, <3>1 DEF Counted
  <2>2. CASE v # u
    BY <2>2, <1>3, <1>4, <1>6 DEF Counted, LockInv, LockoutCounts
  <2> QED
    BY <2>1, <2>2
<1>9. Uncounted' /\ LoginKnows'
  BY <1>4, <1>6 DEF Uncounted, LoginKnows, LoginRight, Idle, LockInv
<1>10. ASSUME NEW c \in Commands PROVE ResetKnows(c)'
  <2>1. CliParts(c)
    BY Parts DEF LockInv
  <2>2. u \in present => ~users'[u].locked /\ users'[u].fails = 0
    BY <1>5
  <2> QED
    BY <2>1, <2>2, <1>4 DEF ResetKnows, CliParts, LoginRight, LockInv
<1> QED
  BY <1>7, <1>8, <1>9, <1>10 DEF LockInv

(* A promotion changes the role alone.                                     *)
LEMMA PromoteKeepsLock ==
  ASSUME LockInv, UpdateRoleCommit
  PROVE  LockInv'
<1>1. PICK u \in Ids, seen \in Row : u = web.user /\ seen = web.seen
  BY Parts DEF UpdateRoleCommit, LockInv, WebParts, OnOne
<1> DEFINE new == [seen EXCEPT !.role = "admin"]
<1>2. new \in Row /\ new.fails = seen.fails /\ new.locked = seen.locked
  BY DEF Row, Roles
<1>3. /\ users \in [Ids -> Row] /\ present \subseteq Ids
  BY DEF LockInv, TypeOK
<1> HIDE DEF new
<1>4. /\ present' = present /\ inserted' = inserted /\ users' \in [Ids -> Row]
      /\ \A v \in Ids : users'[v].fails = users[v].fails /\ users'[v].locked = users[v].locked
  <2>1. Update(u, seen, new)
    BY <1>1 DEF UpdateRoleCommit, new
  <2>2. /\ present' = present /\ inserted' = inserted /\ users' \in [Ids -> Row]
        /\ \A v \in Ids : v # u \/ u \notin present => users'[v] = users[v]
        /\ u \in present => users'[u] = Flush(users[u], seen, new)
    BY <1>2, <1>3, <2>1, UpdateDoes
  <2> QED
    BY <1>2, <2>2 DEF Flush
<1>5. TypeOK'
  BY <1>4 DEF UpdateRoleCommit, LockInv, TypeOK, counts
<1>6. LockoutCounts' /\ Uncounted' /\ LoginKnows'
  BY <1>3, <1>4 DEF UpdateRoleCommit, LockInv, LockoutCounts, Counted, Uncounted, LoginKnows,
                    Idle, counts
<1>7. ASSUME NEW c \in Commands PROVE ResetKnows(c)'
  <2>1. CliParts(c)
    BY Parts DEF LockInv
  <2> QED
    BY <2>1, <1>4 DEF ResetKnows, CliParts, UpdateRoleCommit, LockInv, counts
<1> QED
  BY <1>5, <1>6, <1>7 DEF LockInv

(* A new user has a new key: what counts or what is under way for another  *)
(* key stays, and the row starts open.                                     *)
LEMMA InsertKeepsCounts ==
  ASSUME LockInv, NEW new, new.name \in Names, new.role \in Roles, Insert(new),
         UNCHANGED counts
  PROVE  /\ present' \subseteq Ids /\ users' \in [Ids -> Row] /\ inserted' \in 0..MaxUsers
         /\ present' \subseteq 1..inserted' /\ 1..inserted \subseteq 1..inserted'
         /\ inserted <= inserted'
         /\ LockoutCounts' /\ Uncounted'
         /\ \A v \in 1..inserted : /\ v \in present' <=> v \in present
                                   /\ v \in present => users'[v] = users[v]
<1>1. TypeOK /\ LockoutCounts /\ Uncounted /\ inserted \in Nat
  BY BoundsType DEF LockInv, TypeOK
<1>2. /\ users' \in [Ids -> Row]
      /\ \/ UNCHANGED table
         \/ /\ inserted' = inserted + 1 /\ inserted' \in Ids
            /\ present' = present \cup {inserted'}
            /\ users'[inserted'] = NewRow(new.name, new.role)
            /\ \A v \in Ids : v # inserted' => users'[v] = users[v]
  BY <1>1, InsertDoes DEF TypeOK
<1>3. CASE UNCHANGED table
  BY <1>1, <1>2, <1>3 DEF table, counts, TypeOK, LockoutCounts, Counted, Uncounted
<1>4. CASE /\ inserted' = inserted + 1 /\ inserted' \in Ids
           /\ present' = present \cup {inserted'}
           /\ users'[inserted'] = NewRow(new.name, new.role)
           /\ \A v \in Ids : v # inserted' => users'[v] = users[v]
  <2>1. inserted' \notin present /\ inserted' \notin 1..inserted /\ present \subseteq Ids
    BY <1>1, <1>4 DEF TypeOK
  <2>2. guesses[inserted'] = 0 /\ streak[inserted'] = 0
    BY <1>1, <1>4, <2>1 DEF Uncounted
  <2>3. LockoutCounts'
    <3> SUFFICES ASSUME NEW v \in present'
                 PROVE  guesses'[v] <= Counted(v)' /\ Counted(v)' <= streak'[v]
      BY DEF LockoutCounts
    <3>1. CASE v = inserted'
      <4>1. Counted(v)' = 0
        BY <1>4, <3>1 DEF Counted, NewRow
      <4> QED
        BY <2>2, <3>1, <4>1 DEF counts
    <3>2. CASE v # inserted'
      BY <1>1, <1>4, <2>1, <3>2 DEF Counted, LockoutCounts, counts
    <3> QED
      BY <3>1, <3>2
  <2>4. Uncounted'
    BY <1>1, <1>4 DEF Uncounted, counts
  <2>5. 1..inserted \subseteq Ids
    BY <1>1, BoundsType DEF Ids, TypeOK
  <2>6. /\ present' \subseteq Ids /\ inserted' \in 0..MaxUsers
        /\ present' \subseteq 1..inserted' /\ 1..inserted \subseteq 1..inserted'
        /\ inserted <= inserted'
    BY <1>1, <1>4, <2>1, BoundsType DEF TypeOK, Ids
  <2> QED
    BY <1>2, <1>4, <2>1, <2>3, <2>4, <2>5, <2>6
<1> QED
  BY <1>2, <1>3, <1>4

LEMMA CreatesKeepLock ==
  ASSUME LockInv, CreateUserCommit \/ \E c \in Commands : CreateAdminCommit(c)
  PROVE  LockInv'
<1>1. TypeOK /\ LoginKnows /\ WebParts /\ \A d \in Commands : ResetKnows(d) /\ CliParts(d)
  BY Parts DEF LockInv
<1>2. ASSUME NEW d \in Commands, cli'[d] = cli[d], disturbed' = disturbed,
             NEW new, new.name \in Names, new.role \in Roles, Insert(new), UNCHANGED counts
      PROVE  ResetKnows(d)'
  <2>1. cli[d].op = "reset" => cli[d].user \in 1..inserted
    BY <1>1 DEF ResetKnows, CliParts, Ids, TypeOK
  <2> QED
    BY <1>1, <1>2, <2>1, InsertKeepsCounts DEF ResetKnows
<1>3. CASE CreateUserCommit
  <2>1. web.name \in Names /\ web.role \in Roles /\ Insert(web) /\ UNCHANGED counts
    BY <1>1, <1>3 DEF CreateUserCommit, WebParts
  <2>2. TypeOK' /\ LockoutCounts' /\ Uncounted'
    BY <1>1, <1>3, <2>1, InsertKeepsCounts DEF CreateUserCommit, TypeOK, counts
  <2>3. LoginKnows'
    BY <1>3 DEF LoginKnows, CreateUserCommit, Idle
  <2>4. \A d \in Commands : ResetKnows(d)'
    BY <1>2, <1>3, <2>1 DEF CreateUserCommit, counts
  <2> QED
    BY <2>2, <2>3, <2>4 DEF LockInv
<1>4. ASSUME NEW c \in Commands, CreateAdminCommit(c) PROVE LockInv'
  <2>1. /\ cli[c].name \in Names /\ cli[c].role \in Roles /\ Insert(cli[c])
        /\ UNCHANGED counts
    BY <1>1, <1>4 DEF CreateAdminCommit, CliParts
  <2>2. cli' \in [Commands -> {Idle} \cup Create \cup OnUser({"remove", "counted", "reset"})]
    BY <1>1, <1>4 DEF CreateAdminCommit, Done, TypeOK
  <2>3. TypeOK' /\ LockoutCounts' /\ Uncounted'
    BY <1>1, <1>4, <2>1, <2>2, InsertKeepsCounts DEF CreateAdminCommit, Done, TypeOK, counts
  <2>4. LoginKnows'
    <3>1. web.op \in {"right", "wrong"} => web.user \in 1..inserted
      BY <1>1 DEF LoginKnows, WebParts, OnOne, Ids, TypeOK
    <3> QED
      BY <1>1, <1>4, <2>1, <3>1, InsertKeepsCounts
      DEF LoginKnows, CreateAdminCommit, counts, TypeOK
  <2>5. ASSUME NEW d \in Commands PROVE ResetKnows(d)'
    <3>1. CASE d = c
      BY <1>1, <1>4, <3>1 DEF CreateAdminCommit, Done, ResetKnows, Idle, TypeOK
    <3>2. CASE d # c
      BY <1>1, <1>2, <1>4, <2>1, <3>2 DEF CreateAdminCommit, Done, TypeOK, counts
    <3> QED
      BY <3>1, <3>2
  <2> QED
    BY <2>3, <2>4, <2>5 DEF LockInv
<1> QED
  BY <1>3, <1>4

(* The counts of a user who is gone go with the row.                       *)
LEMMA DeleteKeepsCounts ==
  ASSUME LockInv, NEW u \in Ids, Delete(u)
  PROVE  LockoutCounts' /\ Uncounted'
<1>1. TypeOK /\ LockoutCounts /\ Uncounted
  BY DEF LockInv
<1> QED
  BY <1>1, DeleteDoes DEF LockoutCounts, Counted, Uncounted, TypeOK

LEMMA DeletesKeepLock ==
  ASSUME LockInv, DeleteUserCommit \/ \E c \in Commands : RemoveCommit(c)
  PROVE  LockInv'
<1>1. TypeOK /\ LoginKnows /\ WebParts /\ \A d \in Commands : ResetKnows(d) /\ CliParts(d)
  BY Parts DEF LockInv
<1>2. CASE DeleteUserCommit
  <2>1. web.user \in Ids /\ Delete(web.user)
    BY <1>1, <1>2 DEF DeleteUserCommit, WebParts, OnOne
  <2>2. TypeOK'
    BY <1>1, <1>2, <2>1, DeleteDoes DEF DeleteUserCommit, TypeOK
  <2>3. LoginKnows'
    BY <1>2 DEF LoginKnows, DeleteUserCommit, Idle
  <2>4. \A d \in Commands : ResetKnows(d)'
    BY <1>1, <1>2, <2>1, DeleteDoes DEF DeleteUserCommit, ResetKnows, CliParts
  <2> QED
    BY <2>1, <2>2, <2>3, <2>4, DeleteKeepsCounts DEF LockInv
<1>3. ASSUME NEW c \in Commands, RemoveCommit(c) PROVE LockInv'
  <2>1. PICK u \in Ids : u = cli[c].user /\ Delete(u)
    BY <1>1, <1>3 DEF RemoveCommit, CliParts
  <2>2. cli' \in [Commands -> {Idle} \cup Create \cup OnUser({"remove", "counted", "reset"})]
    BY <1>1, <1>3 DEF RemoveCommit, Done, TypeOK
  <2>3. /\ overlapped' \in BOOLEAN /\ UNCHANGED <<tokens, web, runs>>
        /\ cli' = [cli EXCEPT ![c] = Idle]
    BY <1>3 DEF RemoveCommit, Done
  <2>4. TypeOK'
    <3>1. /\ inserted' = inserted /\ disturbed' = disturbed /\ present' \subseteq present
          /\ users' \in [Ids -> Row]
          /\ guesses' \in [Ids -> 0..Limit] /\ streak' \in [Ids -> 0..Limit]
      BY <1>1, <2>1, DeleteDoes
    <3> QED
      BY <1>1, <2>2, <2>3, <3>1 DEF TypeOK
  <2>5. LoginKnows'
    BY <1>1, <1>3, <2>1, DeleteDoes DEF LoginKnows, RemoveCommit, WebParts, OnOne
  <2>6. ASSUME NEW d \in Commands PROVE ResetKnows(d)'
    <3>1. CASE d = c
      BY <1>1, <1>3, <3>1 DEF RemoveCommit, Done, ResetKnows, Idle, TypeOK
    <3>2. CASE d # c
      <4>1. cli'[d] = cli[d]
        BY <1>1, <2>3, <3>2 DEF TypeOK
      <4>2. /\ inserted' = inserted /\ disturbed' = disturbed /\ present' = present \ {u}
            /\ \A v \in Ids : v # u => users'[v] = users[v]
        BY <1>1, <2>1, DeleteDoes
      <4> QED
        BY <1>1, <4>1, <4>2 DEF ResetKnows, CliParts
    <3> QED
      BY <3>1, <3>2
  <2> QED
    BY <2>1, <2>4, <2>5, <2>6, DeleteKeepsCounts DEF LockInv
<1> QED
  BY <1>2, <1>3

(* A reset may open the account and lower the count, and sets no lock.     *)
LEMMA ResetKeepsLock ==
  ASSUME LockInv, NEW c \in Commands, ResetCommit(c)
  PROVE  /\ LockInv'
         /\ \A u \in present : cli[c].user = u /\ c \notin disturbed => Counted(u)' = 0
<1>1. TypeOK /\ LoginKnows /\ WebParts /\ \A d \in Commands : ResetKnows(d) /\ CliParts(d)
  BY Parts DEF LockInv
<1>2. PICK u \in Ids, seen \in Row : u = cli[c].user /\ seen = cli[c].seen
  BY <1>1 DEF ResetCommit, CliParts
<1> DEFINE new == Unlocked(seen)
<1>3. new \in Row /\ new.fails = 0 /\ new.locked = FALSE
  BY BoundsType DEF Unlocked, Row
<1> HIDE DEF new
<1>4. /\ present' = present /\ inserted' = inserted /\ users' \in [Ids -> Row]
      /\ \A v \in Ids : v # u \/ u \notin present => users'[v] = users[v]
      /\ u \in present => users'[u] = Flush(users[u], seen, new)
  <2>1. Update(u, seen, new)
    BY <1>2 DEF ResetCommit, new
  <2> QED
    BY <1>1, <1>3, <2>1, UpdateDoes DEF TypeOK
<1>5. ASSUME u \in present
      PROVE  /\ users'[u].fails = IF seen.fails = 0 THEN users[u].fails ELSE 0
             /\ users'[u].locked = IF seen.locked = FALSE THEN users[u].locked ELSE FALSE
  <2>1. /\ users'[u].fails = IF new.fails = seen.fails THEN users[u].fails ELSE new.fails
        /\ users'[u].locked = IF new.locked = seen.locked THEN users[u].locked ELSE new.locked
    BY <1>4, <1>5 DEF Flush
  <2>2. users'[u].fails = IF seen.fails = 0 THEN users[u].fails ELSE 0
    BY <1>3, <2>1
  <2>3. users'[u].locked = IF seen.locked = FALSE THEN users[u].locked ELSE FALSE
    BY <1>3, <2>1
  <2> QED
    BY <2>2, <2>3
<1>6. ASSUME NEW v \in Ids
      PROVE  /\ users'[v].fails \in Nat /\ users[v].fails \in Nat /\ users[v].fails < Limit
             /\ users'[v].fails <= users[v].fails
             /\ users'[v].fails # 0 => users[v].fails # 0
             /\ users'[v].locked => users[v].locked
  <2>1. users[v] \in Row /\ users'[v] \in Row
    BY <1>1, <1>4 DEF TypeOK
  <2>2. /\ users'[v].fails \in Nat /\ users[v].fails \in Nat /\ users[v].fails < Limit
        /\ seen.locked \in BOOLEAN /\ users[v].locked \in BOOLEAN
    BY <2>1, RowParts
  <2>3. CASE v = u /\ u \in present
    <3>1. users'[v].locked => users[v].locked
      BY <1>5, <2>3
    <3> QED
      BY <1>5, <2>2, <2>3, <3>1
  <2>4. CASE v # u \/ u \notin present
    BY <1>4, <2>2, <2>4
  <2> QED
    BY <2>3, <2>4
<1>7. /\ guesses' \in [Ids -> 0..Limit] /\ streak' = streak /\ disturbed' = disturbed
      /\ \A v \in Ids : guesses'[v] = guesses[v] \/ guesses'[v] = 0
      /\ \A v \in Ids : v # u \/ u \notin present => guesses'[v] = guesses[v]
      /\ u \in present => guesses'[u] = 0
  BY <1>1, <1>2, BoundsType DEF ResetCommit, TypeOK
<1>8. cli' \in [Commands -> {Idle} \cup Create \cup OnUser({"remove", "counted", "reset"})]
  BY <1>1 DEF ResetCommit, Done, TypeOK
<1>9. TypeOK'
  BY <1>1, <1>4, <1>7, <1>8 DEF ResetCommit, Done, TypeOK
<1>10. LockoutCounts'
  <2> SUFFICES ASSUME NEW v \in present
               PROVE  guesses'[v] <= Counted(v)' /\ Counted(v)' <= streak'[v]
    BY <1>4 DEF LockoutCounts
  <2>1. v \in Ids /\ streak[v] \in Nat /\ guesses[v] \in Nat
    BY <1>1, BoundsType DEF TypeOK
  <2>2. Counted(v) <= streak[v] /\ guesses[v] <= Counted(v)
    BY DEF LockInv, LockoutCounts
  <2>3. Counted(v) \in Nat /\ Counted(v)' \in Nat /\ Counted(v)' <= Counted(v)
    BY <1>6, <2>1, BoundsType DEF Counted
  <2>4. CASE v = u
    BY <1>7, <2>1, <2>2, <2>3, <2>4
  <2>5. CASE v # u
    BY <1>4, <1>7, <2>1, <2>2, <2>3, <2>5 DEF Counted
  <2> QED
    BY <2>4, <2>5
<1>11. Uncounted'
  BY <1>1, <1>4, <1>7 DEF Uncounted, LockInv
<1>12. LoginKnows'
  <2> SUFFICES ASSUME web.op \in {"right", "wrong"}
               PROVE  LoginKnows'
    BY DEF LoginKnows, ResetCommit
  <2>1. /\ web.user \in Ids /\ web.seen \in Row /\ web.seen.fails \in Nat
    BY <1>1, RowParts DEF WebParts, OnOne
  <2>2. web' = web
    BY DEF ResetCommit
  <2> QED
    BY <1>1, <1>4, <1>6, <1>7, <2>1, <2>2 DEF LoginKnows
<1>13. ASSUME NEW d \in Commands PROVE ResetKnows(d)'
  <2>1. CASE d = c
    BY <1>1, <2>1 DEF ResetCommit, Done, ResetKnows, Idle, TypeOK
  <2>2. CASE d # c
    <3>1. cli'[d] = cli[d]
      BY <1>1, <2>2 DEF ResetCommit, Done, TypeOK
    <3> QED
      BY <1>1, <1>4, <1>6, <1>7, <3>1 DEF ResetKnows, CliParts
  <2> QED
    BY <2>1, <2>2
<1>14. ASSUME u \in present, c \notin disturbed PROVE Counted(u)' = 0
  <2>1. /\ users[u].locked => seen.locked
        /\ users[u].fails # 0 => seen.fails # 0
    BY <1>1, <1>2, <1>14 DEF ResetKnows, ResetCommit
  <2>2. ~users'[u].locked /\ users'[u].fails = 0
    BY <1>5, <1>14, <2>1
  <2> QED
    BY <2>2 DEF Counted
<1> QED
  BY <1>2, <1>9, <1>10, <1>11, <1>12, <1>13, <1>14 DEF LockInv

(* The other steps of a command write nothing to the table.                *)
LEMMA CommandsKeepLock ==
  ASSUME LockInv, NEW c \in Commands,
         \/ CreateAdminRead(c) \/ RemoveCount(c) \/ CommandFails(c)
         \/ \E u \in Ids : RemoveRead(c, u) \/ ResetRead(c, u)
  PROVE  LockInv'
<1>1. TypeOK /\ LoginKnows /\ \A d \in Commands : ResetKnows(d) /\ CliParts(d)
  BY Parts DEF LockInv
<1>2. ASSUME cli' \in [Commands -> {Idle} \cup Create \cup OnUser({"remove", "counted", "reset"})],
             UNCHANGED <<table, tokens, web, guesses, streak, overlapped>>,
             runs' \in 0..MaxRuns, disturbed' \subseteq Commands,
             \A d \in Commands \ {c} : cli'[d] = cli[d] /\ (d \in disturbed' <=> d \in disturbed),
             ResetKnows(c)'
      PROVE  LockInv'
  <2>1. TypeOK' /\ LockoutCounts' /\ Uncounted' /\ LoginKnows'
    BY <1>1, <1>2 DEF TypeOK, LockInv, LockoutCounts, Counted, Uncounted, LoginKnows, table
  <2>2. \A d \in Commands : ResetKnows(d)'
    BY <1>1, <1>2 DEF ResetKnows, table
  <2> QED
    BY <2>1, <2>2 DEF LockInv
<1>3. CASE CreateAdminRead(c)
  <2>1. PICK name \in Names :
          Start(c, [op |-> "create", name |-> name, role |-> "admin"])
    BY <1>3 DEF CreateAdminRead
  <2>2. [op |-> "create", name |-> name, role |-> "admin"] \in Create
    BY DEF Create, Roles
  <2>3. /\ cli' \in [Commands -> {Idle} \cup Create \cup OnUser({"remove", "counted", "reset"})]
        /\ runs' \in 0..MaxRuns /\ ResetKnows(c)'
        /\ \A d \in Commands \ {c} : cli'[d] = cli[d]
    BY <1>1, <2>1, <2>2, BoundsType DEF Start, TypeOK, ResetKnows
  <2> QED
    BY <1>1, <1>2, <1>3, <2>3 DEF CreateAdminRead, counts, TypeOK
<1>4. ASSUME NEW u \in Ids, NEW op \in {"remove", "reset"}, Begin(c, op, u),
             disturbed' \subseteq disturbed, c \notin disturbed' \/ op = "remove",
             \A d \in Commands \ {c} : d \in disturbed' <=> d \in disturbed
      PROVE  LockInv'
  <2>1. users[u] \in Row /\ u \in 1..inserted /\ u \in Ids
    BY <1>1, <1>4 DEF Begin, TypeOK
  <2>2. [op |-> op, user |-> u, seen |-> users[u]]
          \in OnUser({"remove", "counted", "reset"})
    BY <2>1 DEF OnUser
  <2>3. /\ cli' \in [Commands -> {Idle} \cup Create \cup OnUser({"remove", "counted", "reset"})]
        /\ runs' \in 0..MaxRuns
        /\ \A d \in Commands \ {c} : cli'[d] = cli[d]
    BY <1>1, <1>4, <2>2, BoundsType DEF Begin, Start, TypeOK
  <2>4. cli'[c] = [op |-> op, user |-> u, seen |-> users[u]]
    BY <1>1, <1>4 DEF Begin, Start, TypeOK
  <2>5. ResetKnows(c)'
    BY <1>4, <2>1, <2>4 DEF ResetKnows, Begin, table
  <2>6. disturbed' \subseteq Commands
    BY <1>1, <1>4 DEF TypeOK
  <2> QED
    BY <1>2, <1>4, <2>3, <2>5, <2>6 DEF Begin
<1>5. CASE \E u \in Ids : RemoveRead(c, u) \/ ResetRead(c, u)
  BY <1>4, <1>5 DEF RemoveRead, ResetRead
<1>6. CASE RemoveCount(c)
  <2>1. cli[c].user \in Ids /\ cli[c].seen \in Row
    BY <1>1, <1>6 DEF RemoveCount, CliParts
  <2>2. [cli[c] EXCEPT !.op = "counted"] \in OnUser({"remove", "counted", "reset"})
    <3>1. cli[c] \in OnUser({"remove", "counted", "reset"})
      BY <1>1, <1>6 DEF RemoveCount, TypeOK, Idle, Create, OnUser
    <3> QED
      BY <3>1 DEF OnUser
  <2>3. /\ cli' \in [Commands -> {Idle} \cup Create \cup OnUser({"remove", "counted", "reset"})]
        /\ \A d \in Commands \ {c} : cli'[d] = cli[d]
    BY <1>1, <1>6, <2>2 DEF RemoveCount, Done, TypeOK
  <2>4. cli'[c].op \in {"counted", "idle"}
    BY <1>1, <1>6, <2>2 DEF RemoveCount, Done, TypeOK, Idle, OnUser
  <2> QED
    BY <1>1, <1>2, <1>6, <2>3, <2>4 DEF RemoveCount, Done, TypeOK, ResetKnows, counts
<1>7. CASE CommandFails(c)
  <2>1. /\ cli' \in [Commands -> {Idle} \cup Create \cup OnUser({"remove", "counted", "reset"})]
        /\ \A d \in Commands \ {c} : cli'[d] = cli[d]
        /\ ResetKnows(c)'
    BY <1>1, <1>7 DEF CommandFails, Done, TypeOK, ResetKnows, Idle
  <2> QED
    BY <1>1, <1>2, <1>7, <2>1 DEF CommandFails, Done, TypeOK, counts
<1> QED
  BY <1>3, <1>5, <1>6, <1>7

LEMMA NextLockInv == LockInv /\ [Next]_vars => LockInv'
<1> SUFFICES ASSUME LockInv, [Next]_vars PROVE LockInv'
  OBVIOUS
<1>1. CASE Request
  BY <1>1, ReadsKeepLock, LoginWrongKeepsLock, LoginRightKeepsLock, PromoteKeepsLock,
     CreatesKeepLock, DeletesKeepLock DEF Request
<1>2. ASSUME NEW c \in Commands, Command(c) PROVE LockInv'
  BY <1>2, CommandsKeepLock, CreatesKeepLock, DeletesKeepLock, ResetKeepsLock DEF Command
<1>3. CASE UNCHANGED vars
  BY <1>3 DEF vars, table, counts, LockInv, TypeOK, LockoutCounts, Counted, Uncounted,
              LoginKnows, ResetKnows
<1> QED
  BY <1>1, <1>2, <1>3 DEF Next

LEMMA LockHolds == Spec => []LockInv
BY InitLockInv, NextLockInv, PTL DEF Spec

(* Every reachable state of the table, the requests and the commands is    *)
(* typed: no count passes the limit.                                       *)
THEOREM TypeCorrect == Spec => []TypeOK
<1>1. LockInv => TypeOK
  BY DEF LockInv
<1> QED
  BY <1>1, LockHolds, PTL

(* An account is locked by exactly the limit of wrong passwords in a row,  *)
(* and no more can be tried between two successes.                         *)
THEOREM LockCounts == Spec => []LockoutCounts
<1>1. LockInv => LockoutCounts
  BY DEF LockInv
<1> QED
  BY <1>1, LockHolds, PTL

(* A reset during which no wrong password was counted opens the account.   *)
THEOREM ResetOpens == Spec => ResetUnlocks
<1>1. LockInv /\ [Next]_vars
        => [\A c \in Commands \ disturbed, u \in present :
              ResetCommit(c) /\ cli[c].user = u => Counted(u)' = 0]_vars
  BY ResetKeepsLock
<1> QED
  BY <1>1, LockHolds, PTL DEF Spec, ResetUnlocks

-----------------------------------------------------------------------------
(* Why an administrator remains: a deletion through the web is of a user   *)
(* who was not an administrator and whom nobody can promote meanwhile; a   *)
(* removal that passed the count, or loaded a user who was none, leaves    *)
(* another administrator unless a removal was committed while it ran.      *)
Sure(c) == \/ cli[c].op = "counted"
           \/ cli[c].op = "remove" /\ cli[c].seen.role = "readonly"

AdminInv ==
  /\ web.op = "create" => inserted > 0
  /\ \A c \in Commands : cli[c].op = "create" => cli[c].role = "admin"
  /\ web.op = "delete" => web.user <= inserted /\ users[web.user].role = "readonly"
  /\ ~overlapped =>
       /\ inserted > 0 => Admins # {}
       /\ \A c \in Commands : Sure(c) => Admins \ {cli[c].user} # {}

(* The steps under which administrators only gain.                         *)
LEMMA GainKeeps ==
  ASSUME TypeOK, AdminInv,
         Admins \subseteq Admins', inserted' = inserted,
         overlapped' = overlapped,
         (web' = web /\ web.op # "delete") \/ web' = Idle \/ UNCHANGED <<web, users>>,
         \A c \in Commands : cli'[c] = cli[c] \/ cli'[c] = Idle
  PROVE  AdminInv'
<1>1. ~overlapped => /\ inserted > 0 => Admins' # {}
                     /\ \A c \in Commands : Sure(c) => Admins' \ {cli[c].user} # {}
  BY DEF AdminInv
<1>2. ~overlapped' => /\ inserted' > 0 => Admins' # {}
                      /\ \A c \in Commands : Sure(c)' => Admins' \ {cli'[c].user} # {}
  BY <1>1 DEF Sure, Idle
<1> QED
  BY <1>2 DEF AdminInv, Idle

LEMMA UpdateGains ==
  ASSUME TypeOK, NEW u \in Ids, NEW seen \in Row, NEW new \in Row, Update(u, seen, new),
         new.role = seen.role \/ new.role = "admin"
  PROVE  /\ inserted' = inserted /\ Admins \subseteq Admins'
         /\ \A v \in Ids : users'[v].role = users[v].role \/ users'[v].role = "admin"
         /\ new.role = seen.role => \A v \in Ids : users'[v].role = users[v].role
<1>1. /\ present' = present /\ inserted' = inserted /\ users' \in [Ids -> Row]
      /\ \A v \in Ids : v # u \/ u \notin present => users'[v] = users[v]
      /\ u \in present => users'[u] = Flush(users[u], seen, new)
  BY UpdateDoes DEF TypeOK
<1>2. u \in present =>
        users'[u].role = IF new.role = seen.role THEN users[u].role ELSE new.role
  BY <1>1 DEF Flush
<1>3. \A v \in Ids : users'[v].role = users[v].role \/ users'[v].role = "admin"
  BY <1>1, <1>2
<1>4. new.role = seen.role => \A v \in Ids : users'[v].role = users[v].role
  BY <1>1, <1>2
<1> QED
  BY <1>1, <1>3, <1>4 DEF Admins, TypeOK

LEMMA InsertGains ==
  ASSUME TypeOK, NEW new, new.name \in Names, new.role \in Roles, Insert(new)
  PROVE  /\ Admins \subseteq Admins' /\ inserted' >= inserted
         /\ inserted' > 0 /\ inserted = 0 /\ new.role = "admin" => Admins' # {}
         /\ \A v \in 1..inserted : users'[v] = users[v]
<1>1. /\ users' \in [Ids -> Row]
      /\ \/ UNCHANGED table
         \/ /\ inserted' = inserted + 1 /\ inserted' \in Ids
            /\ present' = present \cup {inserted'}
            /\ users'[inserted'] = NewRow(new.name, new.role)
            /\ \A v \in Ids : v # inserted' => users'[v] = users[v]
  BY InsertDoes DEF TypeOK
<1>2. inserted \in Nat /\ 1..inserted \subseteq Ids /\ present \subseteq 1..inserted
  BY BoundsType DEF TypeOK, Ids
<1>3. CASE UNCHANGED table
  BY <1>2, <1>3 DEF table, Admins
<1>4. CASE /\ inserted' = inserted + 1 /\ inserted' \in Ids
           /\ present' = present \cup {inserted'}
           /\ users'[inserted'] = NewRow(new.name, new.role)
           /\ \A v \in Ids : v # inserted' => users'[v] = users[v]
  <2>1. inserted' \notin 1..inserted
    BY <1>2, <1>4
  <2>2. \A v \in 1..inserted : users'[v] = users[v]
    BY <1>2, <1>4, <2>1
  <2>3. new.role = "admin" => inserted' \in Admins'
    BY <1>4 DEF Admins, NewRow
  <2>4. Admins \subseteq Admins'
    <3> SUFFICES ASSUME NEW v \in present, users[v].role = "admin"
                 PROVE  v \in present' /\ users'[v].role = "admin"
      BY DEF Admins
    <3> QED
      BY <1>2, <1>4, <2>2
  <2>5. inserted' >= inserted
    BY <1>2, <1>4
  <2> QED
    BY <2>2, <2>3, <2>4, <2>5
<1> QED
  BY <1>1, <1>3, <1>4

(* The count of a removal is of a finite set.                              *)
LEMMA AnotherAdmin ==
  ASSUME TypeOK, NEW u, ~(Cardinality(Admins) <= 1)
  PROVE  Admins \ {u} # {}
<1> SUFFICES ASSUME Admins \ {u} = {} PROVE FALSE
  OBVIOUS
<1>1. Admins = {} \/ Admins = {u}
  OBVIOUS
<1>2. Cardinality(Admins) \in {0, 1}
  BY <1>1, FS_EmptySet, FS_Singleton
<1> QED
  BY <1>2

LEMMA RequestKeepsAdmin ==
  ASSUME TypeOK, AdminInv, Request
  PROVE  AdminInv'
<1> USE DEF table, counts
<1>1. WebParts
  BY Parts
<1>2. inserted \in Nat /\ 1..inserted \subseteq Ids /\ present \subseteq 1..inserted
  BY BoundsType DEF TypeOK, Ids
<1>3. ASSUME NEW u \in Ids, LoginRead(u) \/ Logout(u) PROVE AdminInv'
  BY <1>3 DEF LoginRead, Logout, AdminInv, Admins, Sure
<1>4. CASE CreateUserRead
  <2>1. inserted > 0
    BY <1>2, <1>4 DEF CreateUserRead, AdminRequest, Admins
  <2> QED
    BY <1>4, <2>1 DEF CreateUserRead, AdminInv, Admins, Sure
<1>5. ASSUME NEW t \in Ids, NEW op \in {"promote", "delete"}, OtherUserRead(op, t)
      PROVE  AdminInv'
  <2>1. t \in present /\ users[t].role = "readonly"
    BY <1>5 DEF OtherUserRead
  <2>2. t <= inserted
    <3>1. t \in 1..inserted
      BY <1>2, <2>1
    <3> QED
      BY <1>2, <3>1
  <2>3. /\ web' = [op |-> op, user |-> t, seen |-> users[t]]
        /\ UNCHANGED <<table, cli, overlapped>>
    BY <1>5 DEF OtherUserRead
  <2> QED
    BY <2>1, <2>2, <2>3 DEF AdminInv, Admins, Sure
<1>6. CASE RequestFails
  BY <1>6 DEF RequestFails, Idle, AdminInv, Admins, Sure
<1>7. CASE LoginWrong \/ LoginRight \/ UpdateRoleCommit
  <2>1. PICK u \in Ids, seen \in Row : u = web.user /\ seen = web.seen
    BY <1>1, <1>7 DEF LoginWrong, LoginRight, UpdateRoleCommit, WebParts, OnOne
  <2>2. \E new \in Row : /\ new.role = seen.role \/ new.role = "admin"
                         /\ Update(u, seen, new)
    <3>1. CASE LoginWrong
      <4>1. seen.fails + 1 >= Limit \/ seen.fails + 1 < Limit
        BY RowParts, BoundsType
      <4>2. Failed(seen) \in Row
        BY <4>1, FailedLocks, FailedCounts
      <4>3. Failed(seen).role = seen.role
        BY DEF Failed, Row
      <4> QED
        BY <2>1, <3>1, <4>2, <4>3 DEF LoginWrong
    <3>2. CASE LoginRight
      <4>1. /\ [seen EXCEPT !.fails = 0, !.locked = FALSE] \in Row
            /\ [seen EXCEPT !.fails = 0, !.locked = FALSE].role = seen.role
        BY BoundsType DEF Row
      <4> QED
        BY <2>1, <3>2, <4>1 DEF LoginRight
    <3>3. CASE UpdateRoleCommit
      <4>1. /\ [seen EXCEPT !.role = "admin"] \in Row
            /\ [seen EXCEPT !.role = "admin"].role = "admin"
        BY DEF Row, Roles
      <4> QED
        BY <2>1, <3>3, <4>1 DEF UpdateRoleCommit
    <3> QED
      BY <1>7, <3>1, <3>2, <3>3
  <2>3. Admins \subseteq Admins' /\ inserted' = inserted
    BY <2>2, UpdateGains
  <2>4. overlapped' = overlapped /\ cli' = cli /\ web' = Idle
    BY <1>7 DEF LoginWrong, LoginRight, UpdateRoleCommit
  <2> QED
    BY <2>3, <2>4, GainKeeps
<1>8. CASE CreateUserCommit
  <2>1. web.name \in Names /\ web.role \in Roles /\ Insert(web) /\ inserted > 0
    BY <1>1, <1>8 DEF CreateUserCommit, WebParts, AdminInv
  <2>2. Admins \subseteq Admins' /\ inserted' >= inserted
    BY <2>1, InsertGains
  <2>3. overlapped' = overlapped /\ cli' = cli /\ web' = Idle
    BY <1>8 DEF CreateUserCommit
  <2> QED
    BY <2>1, <2>2, <2>3 DEF AdminInv, Sure, Idle
<1>9. CASE DeleteUserCommit
  <2>1. PICK u \in Ids : u = web.user /\ Delete(u) /\ users[u].role = "readonly"
    BY <1>1, <1>9 DEF DeleteUserCommit, WebParts, OnOne, AdminInv
  <2>2. Admins' = Admins /\ inserted' = inserted
    <3>1. /\ inserted' = inserted /\ present' = present \ {u}
          /\ users'[u].role = "readonly" /\ \A v \in Ids : v # u => users'[v] = users[v]
      BY <2>1, DeleteDoes
    <3> QED
      BY <1>2, <2>1, <3>1 DEF Admins
  <2>3. overlapped' = overlapped /\ cli' = cli /\ web' = Idle
    BY <1>9 DEF DeleteUserCommit
  <2> QED
    BY <2>2, <2>3, GainKeeps
<1> QED
  BY <1>3, <1>4, <1>5, <1>6, <1>7, <1>8, <1>9 DEF Request

LEMMA CommandKeepsAdmin ==
  ASSUME TypeOK, AdminInv, NEW c \in Commands, Command(c)
  PROVE  AdminInv'
<1> USE DEF table, counts
<1>1. CliParts(c) /\ WebParts
  BY Parts
<1>2. inserted \in Nat /\ 1..inserted \subseteq Ids /\ present \subseteq 1..inserted
  BY BoundsType DEF TypeOK, Ids
<1>3. CASE CreateAdminRead(c)
  <2>1. PICK name \in Names :
          Start(c, [op |-> "create", name |-> name, role |-> "admin"])
    BY <1>3 DEF CreateAdminRead
  <2>2. /\ UNCHANGED <<table, web, overlapped>>
        /\ cli'[c] = [op |-> "create", name |-> name, role |-> "admin"]
        /\ \A d \in Commands \ {c} : cli'[d] = cli[d]
    BY <1>3, <2>1 DEF CreateAdminRead, Start, TypeOK
  <2> QED
    BY <2>2 DEF AdminInv, Admins, Sure
<1>4. CASE CreateAdminCommit(c)
  <2>1. /\ cli[c].name \in Names /\ cli[c].role \in Roles /\ Insert(cli[c])
        /\ cli[c].role = "admin"
    BY <1>1, <1>4 DEF CreateAdminCommit, CliParts, AdminInv
  <2>2. /\ Admins \subseteq Admins' /\ inserted' >= inserted
        /\ inserted' > 0 /\ inserted = 0 => Admins' # {}
        /\ \A v \in 1..inserted : users'[v] = users[v]
    BY <2>1, InsertGains
  <2>3. /\ UNCHANGED <<web, overlapped>>
        /\ \A d \in Commands : cli'[d] = cli[d] \/ cli'[d] = Idle
    BY <1>4 DEF CreateAdminCommit, Done, TypeOK
  <2>4. inserted' \in Nat
    BY <1>2, <2>1, InsertDoes, BoundsType DEF TypeOK, Ids
  <2>5. /\ web'.op = "create" => inserted' > 0
        /\ web'.op = "delete" => web'.user <= inserted' /\ users'[web'.user].role = "readonly"
    <3>1. web.op = "delete" => web.user \in 1..inserted
      BY <1>1, <1>2 DEF WebParts, OnOne, AdminInv, Ids
    <3> QED
      BY <1>2, <2>2, <2>3, <2>4, <3>1 DEF AdminInv
  <2>6. ~overlapped' => /\ inserted' > 0 => Admins' # {}
                        /\ \A d \in Commands : Sure(d)' => Admins' \ {cli'[d].user} # {}
    <3>1. inserted = 0 \/ inserted > 0
      BY <1>2
    <3>2. ~overlapped => /\ inserted > 0 => Admins' # {}
                         /\ \A d \in Commands : Sure(d) => Admins' \ {cli[d].user} # {}
      BY <2>2 DEF AdminInv
    <3> QED
      BY <2>2, <2>3, <3>1, <3>2 DEF Sure, Idle
  <2>7. \A d \in Commands : cli'[d].op = "create" => cli'[d].role = "admin"
    BY <2>3 DEF AdminInv, Idle
  <2> QED
    BY <2>5, <2>6, <2>7 DEF AdminInv
<1>5. ASSUME NEW u \in Ids, NEW op \in {"remove", "reset"}, Begin(c, op, u)
      PROVE  AdminInv'
  <2>1. /\ u \in present /\ UNCHANGED <<table, web, overlapped>>
        /\ cli'[c] = [op |-> op, user |-> u, seen |-> users[u]]
        /\ \A d \in Commands \ {c} : cli'[d] = cli[d]
    BY <1>5 DEF Begin, Start, TypeOK
  <2>2. inserted > 0
    BY <1>2, <2>1
  <2>3. ~overlapped => (Sure(c)' => Admins \ {u} # {})
    <3>1. ~overlapped => Admins # {}
      BY <2>2 DEF AdminInv
    <3>2. Sure(c)' => users[u].role = "readonly"
      BY <2>1 DEF Sure
    <3> QED
      BY <3>1, <3>2 DEF Admins
  <2> QED
    BY <2>1, <2>3 DEF AdminInv, Admins, Sure
<1>6. CASE RemoveCount(c)
  <2>1. cli[c].user \in Ids /\ cli[c].seen \in Row /\ cli[c].seen.role \in Roles
    BY <1>1, <1>6, RowParts DEF RemoveCount, CliParts
  <2>2. /\ UNCHANGED <<table, web, overlapped>>
        /\ \A d \in Commands \ {c} : cli'[d] = cli[d]
        /\ \/ Allowed(cli[c].seen) /\ cli'[c] = [cli[c] EXCEPT !.op = "counted"]
           \/ cli'[c] = Idle
    BY <1>6 DEF RemoveCount, Done, TypeOK
  <2>3. CASE cli'[c] = Idle
    BY <2>2, <2>3 DEF AdminInv, Admins, Sure, Idle
  <2>4. CASE Allowed(cli[c].seen) /\ cli'[c] = [cli[c] EXCEPT !.op = "counted"]
    <3>1. cli'[c].user = cli[c].user /\ cli'[c].op = "counted"
      <4>1. cli[c] \in OnUser({"remove", "counted", "reset"})
        BY <1>6 DEF RemoveCount, TypeOK, Idle, Create, OnUser
      <4> QED
        BY <2>4, <4>1 DEF OnUser
    <3>2. cli[c].seen.role = "readonly" \/ ~(Cardinality(Admins) <= 1)
      BY <2>1, <2>4 DEF Allowed, Roles
    <3>3. ~overlapped => Admins \ {cli[c].user} # {}
      BY <1>6, <3>2, AnotherAdmin DEF AdminInv, Sure, RemoveCount
    <3> QED
      BY <2>2, <3>1, <3>3 DEF AdminInv, Admins, Sure
  <2> QED
    BY <2>2, <2>3, <2>4
<1>7. CASE RemoveCommit(c)
  <2>1. PICK u \in Ids : u = cli[c].user /\ Delete(u)
    BY <1>1, <1>7 DEF RemoveCommit, CliParts
  <2>2. /\ inserted' = inserted /\ present' = present \ {u}
        /\ users'[u].role = "readonly" /\ \A v \in Ids : v # u => users'[v] = users[v]
    BY <2>1, DeleteDoes
  <2>3. /\ web' = web /\ cli'[c] = Idle /\ \A d \in Commands \ {c} : cli'[d] = cli[d]
        /\ ~overlapped' =>
             ~overlapped /\ \A d \in Commands \ {c} : cli[d].op \notin {"remove", "counted"}
    BY <1>7 DEF RemoveCommit, Done, TypeOK
  <2>4. Admins' = Admins \ {u}
    BY <1>2, <2>2 DEF Admins
  <2>5. ~overlapped => Admins \ {u} # {}
    BY <1>7, <2>1 DEF AdminInv, Sure, RemoveCommit
  <2>6. ~overlapped' => \A d \in Commands : ~Sure(d)'
    BY <2>3 DEF Sure, Idle
  <2>7. web'.op = "delete" => users'[web'.user].role = "readonly"
    BY <1>1, <2>2, <2>3 DEF AdminInv, WebParts, OnOne
  <2> QED
    BY <2>2, <2>3, <2>4, <2>5, <2>6, <2>7 DEF AdminInv, Idle
<1>8. CASE ResetCommit(c)
  <2>1. PICK u \in Ids, seen \in Row : u = cli[c].user /\ seen = cli[c].seen
    BY <1>1, <1>8 DEF ResetCommit, CliParts
  <2>2. Unlocked(seen) \in Row /\ Unlocked(seen).role = seen.role
    BY BoundsType DEF Unlocked, Row
  <2>3. Update(u, seen, Unlocked(seen))
    BY <1>8, <2>1 DEF ResetCommit
  <2>4. /\ inserted' = inserted /\ Admins \subseteq Admins'
        /\ \A v \in Ids : users'[v].role = users[v].role
    BY <2>2, <2>3, UpdateGains
  <2>5. /\ UNCHANGED <<web, overlapped>>
        /\ \A d \in Commands : cli'[d] = cli[d] \/ cli'[d] = Idle
    BY <1>8 DEF ResetCommit, Done, TypeOK
  <2>6. web.op = "delete" => web.user \in Ids
    BY <1>1 DEF WebParts, OnOne
  <2>7. ~overlapped => /\ inserted > 0 => Admins' # {}
                       /\ \A d \in Commands : Sure(d) => Admins' \ {cli[d].user} # {}
    BY <2>4 DEF AdminInv
  <2>8. ~overlapped' => /\ inserted' > 0 => Admins' # {}
                        /\ \A d \in Commands : Sure(d)' => Admins' \ {cli'[d].user} # {}
    BY <2>4, <2>5, <2>7 DEF Sure, Idle
  <2> QED
    BY <2>4, <2>5, <2>6, <2>8 DEF AdminInv, Idle
<1>9. CASE CommandFails(c)
  <2>1. /\ UNCHANGED <<table, web, overlapped>> /\ cli'[c] = Idle
        /\ \A d \in Commands \ {c} : cli'[d] = cli[d]
    BY <1>9 DEF CommandFails, Done, TypeOK
  <2> QED
    BY <2>1 DEF AdminInv, Admins, Sure, Idle
<1> QED
  BY <1>3, <1>4, <1>5, <1>6, <1>7, <1>8, <1>9 DEF Command, RemoveRead, ResetRead

LEMMA AdminHolds == Spec => [](TypeOK /\ AdminInv)
<1>1. Init => AdminInv
  BY DEF Init, AdminInv, Idle, Sure
<1>2. TypeOK /\ AdminInv /\ [Next]_vars => AdminInv'
  <2> SUFFICES ASSUME TypeOK, AdminInv, [Next]_vars PROVE AdminInv'
    OBVIOUS
  <2>1. CASE UNCHANGED vars
    BY <2>1 DEF vars, table, counts, AdminInv, Admins, Sure
  <2> QED
    BY <2>1, RequestKeepsAdmin, CommandKeepsAdmin DEF Next
<1> QED
  BY <1>1, <1>2, TypeCorrect, PTL DEF Spec

(* An administrator has a key, and keys are not used again.                *)
LEMMA AdminHasKey ==
  ASSUME TypeOK, Admins # {}
  PROVE  inserted > 0
<1>1. PICK u \in present : TRUE
  BY DEF Admins
<1>2. u \in 1..inserted /\ inserted \in Nat
  BY BoundsType DEF TypeOK
<1> QED
  BY <1>2

LEMMA KeysGrow ==
  ASSUME TypeOK, Next
  PROVE  inserted' >= inserted
<1> USE DEF table
<1>1. inserted \in Nat
  BY BoundsType DEF TypeOK
<1>2. ASSUME NEW new, Insert(new) PROVE inserted' >= inserted
  BY <1>1, <1>2 DEF Insert
<1>3. CASE Request
  BY <1>1, <1>2, <1>3
  DEF Request, LoginRead, Logout, LoginWrong, LoginRight, CreateUserRead, CreateUserCommit,
      OtherUserRead, UpdateRoleCommit, DeleteUserCommit, RequestFails, Update, Delete
<1>4. ASSUME NEW c \in Commands, Command(c) PROVE inserted' >= inserted
  <2>1. ASSUME NEW u \in Ids, RemoveRead(c, u) \/ ResetRead(c, u)
        PROVE  inserted' >= inserted
    BY <1>1, <2>1 DEF RemoveRead, ResetRead, Begin
  <2>2. CASE CreateAdminCommit(c)
    BY <1>2, <2>2 DEF CreateAdminCommit
  <2>3. CASE RemoveCommit(c)
    BY <1>1, <2>3 DEF RemoveCommit, Delete
  <2>4. CASE ResetCommit(c)
    BY <1>1, <2>4 DEF ResetCommit, Update
  <2>5. CASE CreateAdminRead(c) \/ RemoveCount(c) \/ CommandFails(c)
    BY <1>1, <2>5 DEF CreateAdminRead, RemoveCount, CommandFails
  <2> QED
    BY <1>4, <2>1, <2>2, <2>3, <2>4, <2>5 DEF Command
<1> QED
  BY <1>3, <1>4 DEF Next

(* Once there was an administrator there is one, unless two removals       *)
(* overlapped.                                                             *)
THEOREM AdministratorRemains == Spec => AdminRemains
<1>1. TypeOK /\ AdminInv /\ (TypeOK /\ AdminInv)' /\ [Next]_vars
        => [Admins # {} => Admins' # {} \/ overlapped']_vars
  <2> SUFFICES ASSUME TypeOK, AdminInv, (TypeOK /\ AdminInv)', Next,
                      Admins # {}, ~overlapped'
               PROVE  Admins' # {}
    OBVIOUS
  <2>1. inserted > 0
    BY AdminHasKey
  <2>2. inserted' >= inserted
    BY KeysGrow
  <2>3. inserted \in Nat /\ inserted' \in Nat
    BY BoundsType DEF TypeOK
  <2> QED
    BY <2>1, <2>2, <2>3 DEF AdminInv
<1> QED
  BY <1>1, AdminHolds, PTL DEF Spec, AdminRemains

=============================================================================
