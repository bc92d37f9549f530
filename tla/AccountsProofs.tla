--------------------------- MODULE AccountsProofs ---------------------------
(***************************************************************************)
(* Theorems about Accounts, for every set of connections, spellings,       *)
(* passwords and profile values, and every life of the two tokens.         *)
(***************************************************************************)
EXTENDS Accounts, SequenceTheorems, TLAPS

(***************************************************************************)
(* Rows, requests and tokens                                               *)
(***************************************************************************)

(* A new account is well formed, and its profile is the column defaults.   *)
LEMMA NewUserFacts ==
  ASSUME NEW e \in Spellings, NEW p \in Passwords
  PROVE  /\ NewUser(e, p) \in Users
         /\ NewUser(e, p).email = e /\ NewUser(e, p).password = p
<1>1. "" \in Values
  BY AccountsAssumption
<1> QED BY <1>1 DEF NewUser, Users, Profiles

(* What Canonical does.                                                    *)
LEMMA CanonicalFacts ==
  ASSUME NEW s \in Spellings
  PROVE  Canonical(s) \in Spellings /\ Lower[Canonical(s)] = Canonical(s)
  BY AccountsAssumption DEF Canonical

(* A request is in the one stage its record says.                          *)
LEMMA HandledFacts ==
  ASSUME NEW q \in Handled
  PROVE  /\ q.stage = "idle" => q = Idle
         /\ q.stage = "insert" => q.email \in Spellings /\ q.password \in Passwords
                                  /\ Lower[q.email] = q.email
         /\ q.stage \in {"refresh", "profile", "commit"}
              => q.bearer \in Tokens /\ q.since \in Nat
         /\ q.stage \in {"profile", "commit"}
              => q.changes \in Changes /\ q.since < q.bearer.issued + AccessLife
         /\ q.stage = "commit" => q.loaded \in Profiles
         /\ q.stage \in {"idle", "insert", "refresh", "profile", "commit"}
  BY DEF Handled, Idle, Registering, Refreshing, Editing

(* A token's account stays when the table grows.                           *)
LEMMA TokensGrow ==
  ASSUME NEW m \in Nat, NEW n \in Nat, m <= n
  PROVE  [user : 1 .. m, type : {"access", "refresh"}, issued : Nat]
           \subseteq [user : 1 .. n, type : {"access", "refresh"}, issued : Nat]
<1>1. 1 .. m \subseteq 1 .. n
  OBVIOUS
<1> QED BY <1>1

LEMMA HandledGrows ==
  ASSUME Len(users) \in Nat, Len(users') \in Nat, Len(users) <= Len(users')
  PROVE  Tokens \subseteq Tokens' /\ Handled \subseteq Handled'
<1>1. Tokens \subseteq Tokens'
  BY TokensGrow DEF Tokens
<1>2. Refreshing \subseteq Refreshing' /\ Registering \subseteq Registering'
  BY <1>1 DEF Refreshing, Registering
<1>3. Editing \subseteq Editing'
  BY <1>1 DEF Editing
<1> QED BY <1>1, <1>2, <1>3 DEF Handled

(* The pair issued for an account that is there.                           *)
LEMMA PairFacts ==
  ASSUME TypeOK, NEW i \in 1 .. Len(users)
  PROVE  Pair(i) \subseteq Tokens
  BY DEF TypeOK, Pair, Token, Tokens

(* The columns an UPDATE leaves: those of the profile, changed where the   *)
(* request changed the object it had loaded.                               *)
LEMMA WrittenFacts ==
  ASSUME TypeOK, NEW q, q.bearer \in Tokens, q.changes \in Changes, q.loaded \in Profiles,
         NEW col \in Columns
  PROVE  /\ Written(q).full_name # Null => Written(q) \in Profiles
         /\ Written(q)[col] # users[q.bearer.user].profile[col]
              => col \in DOMAIN q.changes /\ Written(q)[col] = q.changes[col]
         /\ col \in DOMAIN q.changes /\ users[q.bearer.user].profile[col] = q.loaded[col]
              => Written(q)[col] = q.changes[col]
<1>1. PICK cs \in SUBSET Columns : q.changes \in [cs -> Values \cup {Null}]
  BY DEF Changes
<1>2. users[q.bearer.user] \in Users /\ users[q.bearer.user].profile \in Profiles
  <2>1. q.bearer.user \in 1 .. Len(users) /\ users \in Seq(Users)
    BY DEF TypeOK, Tokens
  <2>2. users[q.bearer.user] \in Users
    BY <2>1, ElementOfSeq
  <2> QED BY <2>2 DEF Users
<1>3. \A k \in Columns : q.changes \in [cs -> Values \cup {Null}]
                         /\ (k \in cs => q.changes[k] \in Values \cup {Null})
  BY <1>1
<1>4. Written(q).full_name # Null => Written(q) \in Profiles
  BY <1>1, <1>2, <1>3 DEF Written, Applied, Profiles, Columns
<1> QED BY <1>1, <1>2, <1>4 DEF Written, Applied

-----------------------------------------------------------------------------
(***************************************************************************)
(* The kinds of step                                                       *)
(***************************************************************************)

(* Request c goes on to q, the others stay where they are.                 *)
LEMMA Becomes ==
  ASSUME RequestsInv, Handled \subseteq Handled',
         NEW c \in Conns, NEW q, q \in Handled', conn' = [conn EXCEPT ![c] = q],
         DOMAIN status' = DOMAIN status
  PROVE  RequestsInv'
  BY DEF RequestsInv

(* The parts of the type invariant.                                        *)
LEMMA Typed ==
  ASSUME RequestsInv', now' \in Nat, users' \in Seq(Users), tokens' \subseteq Tokens',
         arrived' \in 0 .. MaxRequests, created' \subseteq [email : Spellings, password : Passwords]
  PROVE  TypeOK'
<1>1. ASSUME NEW x \in Conns
      PROVE  conn'[x].stage \in {"idle", "insert", "refresh", "profile", "commit"}
  <2>1. conn'[x] \in Handled'
    BY DEF RequestsInv
  <2> QED BY <2>1 DEF Handled, Idle, Registering, Refreshing, Editing
<1> QED BY <1>1 DEF TypeOK

(* A step that leaves the table as it is.                                  *)
LEMMA TableKept ==
  ASSUME AccountsInv, UNCHANGED <<users, created>>
  PROVE  /\ users' \in Seq(Users) /\ TableInv'
         /\ Tokens' = Tokens /\ Handled' = Handled
         /\ created' \subseteq [email : Spellings, password : Passwords]
<1>1. Tokens' = Tokens
  BY DEF Tokens
<1>2. Handled' = Handled
  BY <1>1 DEF Handled, Idle, Registering, Refreshing, Editing, Profiles, Changes
<1>3. TableInv'
  BY DEF AccountsInv, TableInv
<1> QED BY <1>1, <1>2, <1>3 DEF AccountsInv, TypeOK

LEMMA Arrived ==
  ASSUME AccountsInv, arrived < MaxRequests, arrived' = arrived + 1
  PROVE  arrived' \in 0 .. MaxRequests
<1>1. arrived \in 0 .. MaxRequests /\ MaxRequests \in Nat
  BY AccountsAssumption DEF AccountsInv, TypeOK
<1> QED BY <1>1

LEMMA IdleHandled == Idle \in Handled /\ Idle \in Handled'
  BY DEF Handled

(* Arrivals: what was decided at the door.                                 *)
LEMMA RegisterStep ==
  ASSUME AccountsInv, NEW c \in Conns, NEW s \in Spellings, NEW p \in Passwords, Register(c, s, p)
  PROVE  AccountsInv'
<1>1. /\ arrived < MaxRequests /\ arrived' = arrived + 1
      /\ UNCHANGED <<now, users, tokens, created>>
  BY DEF Register, Arrive
<1>2. Handled' = Handled /\ Tokens' = Tokens
  BY <1>1, TableKept
<1> DEFINE q == [stage |-> "insert", email |-> Canonical(s), password |-> p]
<1>3. q \in Handled'
  BY CanonicalFacts DEF Handled, Registering
<1>4. \E x \in {Idle, q} : conn' = [conn EXCEPT ![c] = x] /\ x \in Handled'
  BY <1>3, IdleHandled DEF Register, Finish, Become
<1>5. DOMAIN status' = DOMAIN status
  BY DEF Register, Finish
<1>6. RequestsInv'
  BY <1>2, <1>4, <1>5, Becomes DEF AccountsInv
<1>7. now' \in Nat /\ tokens' \subseteq Tokens'
  BY <1>1, <1>2 DEF AccountsInv, TypeOK
<1> QED BY <1>1, <1>6, <1>7, Arrived, TableKept, Typed DEF AccountsInv

LEMMA LoginStep ==
  ASSUME AccountsInv, NEW c \in Conns, NEW s \in Spellings, NEW p \in Passwords, Login(c, s, p)
  PROVE  AccountsInv'
<1>1. /\ arrived < MaxRequests /\ arrived' = arrived + 1
      /\ UNCHANGED <<now, users, created>>
      /\ conn' = [conn EXCEPT ![c] = Idle]
      /\ DOMAIN status' = DOMAIN status
  BY DEF Login, Arrive, Finish, Become
<1>2. Handled' = Handled /\ Tokens' = Tokens
  BY <1>1, TableKept
<1>3. tokens' \subseteq Tokens
  <2>1. \A i \in Authenticated(s, p) : i \in 1 .. Len(users)
    BY DEF Authenticated, WithEmail
  <2>2. \A i \in Authenticated(s, p) : Pair(i) \subseteq Tokens
    BY <2>1, PairFacts DEF AccountsInv
  <2>3. tokens' = tokens \/ tokens' = tokens \cup UNION {Pair(i) : i \in Authenticated(s, p)}
    BY DEF Login
  <2> QED BY <2>2, <2>3 DEF AccountsInv, TypeOK
<1>4. RequestsInv'
  BY <1>1, <1>2, IdleHandled, Becomes DEF AccountsInv
<1>5. now' \in Nat /\ tokens' \subseteq Tokens'
  BY <1>1, <1>2, <1>3 DEF AccountsInv, TypeOK
<1> QED BY <1>1, <1>4, <1>5, Arrived, TableKept, Typed DEF AccountsInv

(* decode_token lets through only a live token of the type asked for.      *)
LEMMA PresentStep ==
  ASSUME AccountsInv, NEW c \in Conns, NEW k \in tokens, NEW changes,
         \/ Present(c, k, "refresh", "refresh", changes) /\ changes = << >>
         \/ Present(c, k, "access", "profile", changes) /\ changes \in Changes
  PROVE  AccountsInv'
<1>1. /\ arrived < MaxRequests /\ arrived' = arrived + 1
      /\ UNCHANGED <<now, users, tokens, created>>
      /\ DOMAIN status' = DOMAIN status
  BY DEF Present, Arrive, Finish
<1>2. k \in Tokens /\ now \in Nat /\ Tokens' = Tokens /\ Handled' = Handled
  BY <1>1, TableKept DEF AccountsInv, TypeOK
<1>3. \E x \in Handled' : conn' = [conn EXCEPT ![c] = x]
  <2>1. CASE conn' = [conn EXCEPT ![c] = Idle]
    BY <2>1, IdleHandled
  <2>2. CASE /\ Accepts(k, "refresh") /\ changes = << >>
             /\ conn' = [conn EXCEPT ![c] = [stage |-> "refresh", bearer |-> k, since |-> now,
                                             changes |-> changes]]
    <3>1. [stage |-> "refresh", bearer |-> k, since |-> now, changes |-> changes] \in Refreshing'
      BY <1>2, <2>2 DEF Refreshing
    <3> QED BY <2>2, <3>1 DEF Handled
  <2>3. CASE /\ Accepts(k, "access") /\ changes \in Changes
             /\ conn' = [conn EXCEPT ![c] = [stage |-> "profile", bearer |-> k, since |-> now,
                                             changes |-> changes]]
    <3>1. now < k.issued + AccessLife
      BY <1>2, <2>3 DEF Accepts, Live, Life
    <3>2. [stage |-> "profile", bearer |-> k, since |-> now, changes |-> changes] \in Editing'
      BY <1>2, <2>3, <3>1 DEF Editing, Changes
    <3> QED BY <2>3, <3>2 DEF Handled
  <2> QED BY <2>1, <2>2, <2>3 DEF Present, Finish, Become
<1>4. RequestsInv'
  BY <1>1, <1>2, <1>3, Becomes DEF AccountsInv
<1>5. now' \in Nat /\ tokens' \subseteq Tokens'
  BY <1>1, <1>2 DEF AccountsInv, TypeOK
<1> QED BY <1>1, <1>4, <1>5, Arrived, TableKept, Typed DEF AccountsInv

(* The unique column: the account is only added when the address is free.  *)
LEMMA InsertStep ==
  ASSUME AccountsInv, NEW c \in Conns, Insert(c)
  PROVE  AccountsInv'
<1> DEFINE q == conn[c]
           n == Len(users)
<1>1. /\ q.email \in Spellings /\ q.password \in Passwords /\ Lower[q.email] = q.email
      /\ UNCHANGED <<now, tokens, arrived>>
      /\ conn' = [conn EXCEPT ![c] = Idle] /\ DOMAIN status' = DOMAIN status
  <2>1. q \in Handled /\ q.stage = "insert"
    BY DEF Insert, At, AccountsInv, RequestsInv
  <2>2. UNCHANGED <<now, tokens, arrived>>
        /\ conn' = [conn EXCEPT ![c] = Idle] /\ DOMAIN status' = DOMAIN status
    BY DEF Insert, Finish, Become
  <2> QED BY <2>1, <2>2, HandledFacts
<1>2. users \in Seq(Users) /\ n \in Nat /\ \A i \in 1 .. n : users[i] \in Users
  BY LenProperties, ElementOfSeq DEF AccountsInv, TypeOK
<1>3. CASE UNCHANGED <<users, created>>
  <2>1. RequestsInv'
    BY <1>1, <1>3, TableKept, IdleHandled, Becomes DEF AccountsInv
  <2>2. now' \in Nat /\ tokens' \subseteq Tokens' /\ arrived' \in 0 .. MaxRequests
    BY <1>1, <1>3, TableKept DEF AccountsInv, TypeOK
  <2> QED BY <1>3, <2>1, <2>2, TableKept, Typed DEF AccountsInv
<1>4. CASE /\ WithEmail(q.email) = {} /\ users' = Append(users, NewUser(q.email, q.password))
           /\ created' = created \cup {[email |-> q.email, password |-> q.password]}
  <2> DEFINE u == NewUser(q.email, q.password)
             x == [email |-> q.email, password |-> q.password]
  <2>1. u \in Users /\ u.email = q.email /\ u.password = q.password
    BY <1>1, NewUserFacts
  <2>2. x \in [email : Spellings, password : Passwords]
        /\ x.email = q.email /\ x.password = q.password
    BY <1>1
  <2>3. \A i \in 1 .. n : users[i].email # q.email
    BY <1>4 DEF WithEmail
  <2> HIDE DEF u, x, n, q
  <2>4. /\ users' \in Seq(Users) /\ Len(users') = n + 1
        /\ \A i \in 1 .. n : users'[i] = users[i]
        /\ users'[n + 1] = u
    BY <1>2, <1>4, <2>1, AppendProperties DEF u, n
  <2>5. Len(users) \in Nat /\ Len(users') \in Nat /\ Len(users) <= Len(users')
    BY <1>2, <2>4 DEF n
  <2>6. RequestsInv'
    BY <1>1, <2>5, HandledGrows, IdleHandled, Becomes DEF AccountsInv
  <2>7. TypeOK'
    <3>1. created' \subseteq [email : Spellings, password : Passwords]
      BY <1>4, <2>2 DEF AccountsInv, TypeOK, x
    <3>2. tokens' \subseteq Tokens' /\ now' \in Nat /\ arrived' \in 0 .. MaxRequests
      BY <1>1, <2>5, HandledGrows DEF AccountsInv, TypeOK
    <3> QED BY <2>4, <2>6, <3>1, <3>2, Typed
  <2>8. TableInv'
    <3>1. /\ \A i \in 1 .. n : Lower[users[i].email] = users[i].email
          /\ \A i, j \in 1 .. n : users[i].email = users[j].email => i = j
      BY DEF AccountsInv, TableInv, n
    <3>2. 1 .. Len(users') = (1 .. n) \cup {n + 1}
      BY <1>2, <2>4
    <3>3. \A i \in 1 .. Len(users') : Lower[users'[i].email] = users'[i].email
      BY <1>1, <2>1, <2>4, <3>1, <3>2
    <3>4. \A i, j \in 1 .. Len(users') : users'[i].email = users'[j].email => i = j
      BY <2>1, <2>3, <2>4, <3>1, <3>2
    <3>5. ASSUME NEW y \in created'
          PROVE  \E i \in 1 .. Len(users') : users'[i].email = Lower[y.email]
                                             /\ users'[i].password = y.password
      <4>1. CASE y \in created
        <5>1. PICK i \in 1 .. n : users[i].email = Lower[y.email] /\ users[i].password = y.password
          BY <4>1 DEF AccountsInv, TableInv, n
        <5> QED BY <2>4, <3>2, <5>1
      <4>2. CASE y = x
        BY <1>1, <2>1, <2>2, <2>4, <3>2, <4>2
      <4> QED BY <1>4, <4>1, <4>2 DEF x
    <3> QED BY <3>3, <3>4, <3>5 DEF TableInv
  <2> QED BY <2>6, <2>7, <2>8 DEF AccountsInv
<1> QED BY <1>3, <1>4 DEF Insert

LEMMA RenewStep ==
  ASSUME AccountsInv, NEW c \in Conns, Renew(c)
  PROVE  AccountsInv'
<1>1. /\ UNCHANGED <<now, users, arrived, created>>
      /\ conn' = [conn EXCEPT ![c] = Idle] /\ DOMAIN status' = DOMAIN status
      /\ tokens' = tokens \cup Pair(conn[c].bearer.user)
  BY DEF Renew, Finish, Become
<1>2. conn[c].bearer \in Tokens
  <2>1. conn[c] \in Handled /\ conn[c].stage = "refresh"
    BY DEF Renew, At, AccountsInv, RequestsInv
  <2> QED BY <2>1, HandledFacts
<1>3. tokens' \subseteq Tokens
  <2>1. conn[c].bearer.user \in 1 .. Len(users)
    BY <1>2 DEF Tokens
  <2> QED BY <1>1, <2>1, PairFacts DEF AccountsInv, TypeOK
<1>4. RequestsInv'
  BY <1>1, TableKept, IdleHandled, Becomes DEF AccountsInv
<1>5. now' \in Nat /\ tokens' \subseteq Tokens' /\ arrived' \in 0 .. MaxRequests
  BY <1>1, <1>3, TableKept DEF AccountsInv, TypeOK
<1> QED BY <1>1, <1>4, <1>5, TableKept, Typed DEF AccountsInv

LEMMA LoadStep ==
  ASSUME AccountsInv, NEW c \in Conns, Load(c)
  PROVE  AccountsInv'
<1> DEFINE q == conn[c]
           p == users[q.bearer.user].profile
           new == [stage |-> "commit", bearer |-> q.bearer, since |-> q.since,
                   changes |-> q.changes, loaded |-> p]
<1>1. /\ UNCHANGED <<now, users, tokens, arrived, created, status>>
      /\ conn' = [conn EXCEPT ![c] = new]
  BY DEF Load, Become
<1>2. /\ q.bearer \in Tokens /\ q.since \in Nat /\ q.changes \in Changes
      /\ q.since < q.bearer.issued + AccessLife
  <2>1. q \in Handled /\ q.stage = "profile"
    BY DEF Load, At, AccountsInv, RequestsInv
  <2> QED BY <2>1, HandledFacts
<1>3. p \in Profiles
  <2>1. q.bearer.user \in 1 .. Len(users) /\ users \in Seq(Users)
    BY <1>2 DEF Tokens, AccountsInv, TypeOK
  <2>2. users[q.bearer.user] \in Users
    BY <2>1, ElementOfSeq
  <2> QED BY <2>2 DEF Users
<1>4. new \in Handled
  <2> HIDE DEF q, p
  <2>1. new \in Editing
    BY <1>2, <1>3 DEF Editing
  <2> QED BY <2>1 DEF Handled
<1> HIDE DEF new
<1>5. RequestsInv'
  BY <1>1, <1>4, TableKept, Becomes DEF AccountsInv
<1>6. now' \in Nat /\ tokens' \subseteq Tokens' /\ arrived' \in 0 .. MaxRequests
  BY <1>1, TableKept DEF AccountsInv, TypeOK
<1> QED BY <1>1, <1>5, <1>6, TableKept, Typed DEF AccountsInv

(* What a commit does, with the facts it rests on.                         *)
LEMMA CommitFacts ==
  ASSUME AccountsInv, NEW c \in Conns, Commit(c)
  PROVE  LET q == conn[c]
             u == q.bearer.user
             new == Written(q)
         IN  /\ q.bearer \in Tokens /\ q.changes \in Changes /\ q.loaded \in Profiles
             /\ u \in 1 .. Len(users) /\ users[u] \in Users
             /\ UNCHANGED <<now, tokens, arrived, created>>
             /\ conn' = [conn EXCEPT ![c] = Idle] /\ DOMAIN status' = DOMAIN status
             /\ \/ new.full_name = Null /\ UNCHANGED users /\ status'[c].code = 500
                \/ /\ new.full_name # Null /\ new \in Profiles
                   /\ users' = [users EXCEPT ![u].profile = new]
<1> DEFINE q == conn[c]
           u == q.bearer.user
           new == Written(q)
<1>1. q.bearer \in Tokens /\ q.changes \in Changes /\ q.loaded \in Profiles
  <2>1. q \in Handled /\ q.stage = "commit"
    BY DEF Commit, At, AccountsInv, RequestsInv
  <2> QED BY <2>1, HandledFacts
<1>2. u \in 1 .. Len(users)
  BY <1>1 DEF Tokens
<1>3. users[u] \in Users
  BY <1>2, ElementOfSeq DEF AccountsInv, TypeOK
<1>4. new.full_name # Null => new \in Profiles
  BY <1>1, WrittenFacts DEF AccountsInv, Columns
<1>5. /\ UNCHANGED <<now, tokens, arrived, created>>
      /\ conn' = [conn EXCEPT ![c] = Idle] /\ DOMAIN status' = DOMAIN status
  BY DEF Commit, Finish, Become
<1>6. \/ new.full_name = Null /\ UNCHANGED users /\ status'[c].code = 500
      \/ new.full_name # Null /\ users' = [users EXCEPT ![u].profile = new]
  <2>1. DOMAIN status = Conns
    BY DEF AccountsInv, RequestsInv
  <2> QED BY <2>1 DEF Commit, Finish, Status
<1> QED BY <1>1, <1>2, <1>3, <1>4, <1>5, <1>6

(* An edit leaves addresses and passwords alone.                           *)
LEMMA CommitStep ==
  ASSUME AccountsInv, NEW c \in Conns, Commit(c)
  PROVE  AccountsInv'
<1> DEFINE u == conn[c].bearer.user
           new == Written(conn[c])
<1>1. /\ u \in 1 .. Len(users) /\ users[u] \in Users
      /\ UNCHANGED <<now, tokens, arrived, created>>
      /\ conn' = [conn EXCEPT ![c] = Idle] /\ DOMAIN status' = DOMAIN status
      /\ \/ UNCHANGED users
         \/ new \in Profiles /\ users' = [users EXCEPT ![u].profile = new]
  BY CommitFacts
<1>2. users \in Seq(Users) /\ now \in Nat /\ arrived \in 0 .. MaxRequests
      /\ tokens \subseteq Tokens /\ created \subseteq [email : Spellings, password : Passwords]
  BY DEF AccountsInv, TypeOK
<1> HIDE DEF u, new
<1>3. CASE UNCHANGED users
  <2>1. RequestsInv'
    BY <1>1, <1>3, TableKept, IdleHandled, Becomes DEF AccountsInv
  <2>2. now' \in Nat /\ tokens' \subseteq Tokens' /\ arrived' \in 0 .. MaxRequests
    BY <1>1, <1>2, <1>3, TableKept
  <2> QED BY <1>1, <1>3, <2>1, <2>2, TableKept, Typed DEF AccountsInv
<1>4. CASE new \in Profiles /\ users' = [users EXCEPT ![u].profile = new]
  <2> DEFINE row == [users[u] EXCEPT !.profile = new]
  <2>1. row \in Users /\ row.email = users[u].email /\ row.password = users[u].password
    BY <1>1, <1>4 DEF Users
  <2>2. users' = [users EXCEPT ![u] = row]
    BY <1>4
  <2> HIDE DEF row
  <2>3. users' \in Seq(Users) /\ Len(users') = Len(users) /\ Len(users) \in Nat
    <3>1. u \in 1 .. Len(users) /\ row \in Users /\ users \in Seq(Users)
      BY <1>1, <1>2, <2>1
    <3>2. users' \in Seq(Users) /\ Len(users') = Len(users)
      BY <2>2, <3>1, ExceptSeq
    <3> QED BY <3>1, <3>2, LenProperties
  <2>4. \A i \in 1 .. Len(users) : /\ users'[i].email = users[i].email
                                   /\ users'[i].password = users[i].password
    BY <1>1, <1>2, <2>1, <2>2, ExceptSeq
  <2>5. Tokens \subseteq Tokens' /\ Handled \subseteq Handled'
    BY <2>3, HandledGrows
  <2>6. RequestsInv'
    BY <1>1, <2>5, IdleHandled, Becomes DEF AccountsInv
  <2>7. TypeOK'
    <3>1. now' \in Nat /\ tokens' \subseteq Tokens' /\ arrived' \in 0 .. MaxRequests
          /\ created' \subseteq [email : Spellings, password : Passwords]
      BY <1>1, <1>2, <2>5
    <3> QED BY <2>3, <2>6, <3>1, Typed
  <2>8. TableInv'
    <3>1. TableInv /\ created' = created
      BY <1>1 DEF AccountsInv
    <3> QED BY <2>3, <2>4, <3>1 DEF TableInv
  <2> QED BY <2>6, <2>7, <2>8 DEF AccountsInv
<1> QED BY <1>1, <1>3, <1>4

LEMMA TickStep ==
  ASSUME AccountsInv, Tick
  PROVE  AccountsInv'
<1>1. now' \in Nat /\ UNCHANGED <<users, tokens, conn, arrived, created, status>>
  BY DEF Tick, AccountsInv, TypeOK
<1>2. RequestsInv'
  BY <1>1, TableKept DEF AccountsInv, RequestsInv
<1>3. tokens' \subseteq Tokens' /\ arrived' \in 0 .. MaxRequests
  BY <1>1, TableKept DEF AccountsInv, TypeOK
<1> QED BY <1>1, <1>2, <1>3, TableKept, Typed DEF AccountsInv

-----------------------------------------------------------------------------
(***************************************************************************)
(* The inductive invariant                                                 *)
(***************************************************************************)

LEMMA AccountsInit ==
  ASSUME Init
  PROVE  AccountsInv
<1>1. /\ now = 0 /\ arrived = 0 /\ created = {} /\ MaxRequests \in Nat
      /\ conn = [c \in Conns |-> Idle] /\ DOMAIN status = Conns
  BY AccountsAssumption DEF Init
<1>2. RequestsInv
  BY <1>1, IdleHandled DEF RequestsInv
<1>3. \A c \in Conns : conn[c].stage \in {"idle", "insert", "refresh", "profile", "commit"}
  BY <1>1 DEF Idle
<1>4. users \in Seq(Users) /\ tokens \subseteq Tokens /\ TableInv
  <2>1. CASE users = << >> /\ tokens = {}
    BY <1>1, <2>1 DEF TableInv
  <2>2. CASE \E s \in Spellings, p \in Passwords :
               users = <<NewUser(Canonical(s), p)>> /\ tokens = Pair(1)
    <3>1. PICK s \in Spellings, p \in Passwords :
                 users = <<NewUser(Canonical(s), p)>> /\ tokens = Pair(1)
      BY <2>2
    <3> DEFINE row == NewUser(Canonical(s), p)
    <3>2. row \in Users /\ Lower[row.email] = row.email
      BY CanonicalFacts, NewUserFacts
    <3> HIDE DEF row
    <3>3. users = <<row>>
      BY <3>1 DEF row
    <3>4. users \in Seq(Users) /\ Len(users) = 1 /\ users[1] = row
      BY <3>2, <3>3
    <3>5. TableInv
      BY <1>1, <3>2, <3>4 DEF TableInv
    <3>6. tokens \subseteq Tokens
      BY <1>1, <3>1, <3>4 DEF Pair, Token, Tokens
    <3> QED BY <3>4, <3>5, <3>6
  <2> QED BY <2>1, <2>2 DEF Init
<1> QED BY <1>1, <1>2, <1>3, <1>4 DEF AccountsInv, TypeOK

LEMMA AccountsStep ==
  ASSUME AccountsInv, [Next]_accounts_vars
  PROVE  AccountsInv'
<1>1. ASSUME NEW c \in Conns, NEW s \in Spellings, NEW p \in Passwords,
             Register(c, s, p) \/ Login(c, s, p)
      PROVE  AccountsInv'
  BY <1>1, RegisterStep, LoginStep
<1>2. ASSUME NEW c \in Conns, NEW k \in tokens, Refresh(c, k)
      PROVE  AccountsInv'
  BY <1>2, PresentStep DEF Refresh
<1>3. ASSUME NEW c \in Conns, NEW k \in tokens, NEW changes \in Changes,
             UpdateProfile(c, k, changes)
      PROVE  AccountsInv'
  BY <1>3, PresentStep DEF UpdateProfile
<1>4. ASSUME NEW c \in Conns, Insert(c) \/ Renew(c) \/ Load(c) \/ Commit(c)
      PROVE  AccountsInv'
  BY <1>4, InsertStep, RenewStep, LoadStep, CommitStep
<1>5. CASE UNCHANGED accounts_vars
  <2>1. UNCHANGED <<now, users, tokens, conn, arrived, created, status>>
    BY <1>5 DEF accounts_vars
  <2>2. RequestsInv' /\ now' \in Nat /\ tokens' \subseteq Tokens' /\ arrived' \in 0 .. MaxRequests
    BY <2>1, TableKept DEF AccountsInv, RequestsInv, TypeOK
  <2> QED BY <2>1, <2>2, TableKept, Typed DEF AccountsInv
<1> QED BY <1>1, <1>2, <1>3, <1>4, <1>5, TickStep DEF Next

LEMMA AccountsInvariant == Spec => []AccountsInv
  BY AccountsInit, AccountsStep, PTL DEF Spec

-----------------------------------------------------------------------------
(***************************************************************************)
(* Theorems                                                                *)
(***************************************************************************)

(* Every row, token and request is well formed: in particular no profile   *)
(* has a null full_name, and the account of every token is in the table.   *)
THEOREM AccountsTyped == Spec => []TypeOK
<1>1. AccountsInv => TypeOK
  BY DEF AccountsInv
<1> QED BY <1>1, AccountsInvariant, PTL

(* Two rows never hold the same address, however it was written when they  *)
(* were registered (register_user, the unique column of User.email).       *)
THEOREM AddressesUnique == Spec => []OneAccountPerAddress
<1>1. AccountsInv => OneAccountPerAddress
  BY DEF AccountsInv, TableInv, OneAccountPerAddress
<1> QED BY <1>1, AccountsInvariant, PTL

(* Every registration answered 201 left an account that its password       *)
(* opens, and no later step takes it away (register_user,                  *)
(* authenticate_user, apply_profile_update).                               *)
THEOREM RegistrationsLast == Spec => []RegisteredCanSignIn
<1>1. ASSUME AccountsInv, NEW x \in created
      PROVE  \E i \in WithEmail(Lower[x.email]) : users[i].password = x.password
  <2>1. PICK i \in 1 .. Len(users) : users[i].email = Lower[x.email]
                                     /\ users[i].password = x.password
    BY <1>1 DEF AccountsInv, TableInv
  <2>2. i \in WithEmail(Lower[x.email])
    BY <2>1 DEF WithEmail
  <2> QED BY <2>1, <2>2
<1>2. AccountsInv => RegisteredCanSignIn
  BY <1>1 DEF RegisteredCanSignIn
<1> QED BY <1>2, AccountsInvariant, PTL

(* An account is only edited for a bearer whose token was younger than     *)
(* access_token_expire_minutes when the request arrived, whichever of the  *)
(* two lives is the longer (decode_token, get_current_user).               *)
THEOREM BearersFresh == Spec => []BearerFresh
<1>1. ASSUME AccountsInv, NEW c \in Conns, At(c, "profile") \/ At(c, "commit")
      PROVE  conn[c].since < conn[c].bearer.issued + AccessLife
  <2>1. conn[c] \in Handled /\ conn[c].stage \in {"profile", "commit"}
    BY <1>1 DEF AccountsInv, RequestsInv, At
  <2> QED BY <2>1, HandledFacts
<1>2. AccountsInv => BearerFresh
  BY <1>1 DEF BearerFresh
<1> QED BY <1>2, AccountsInvariant, PTL

(* The only step that ends an edit of c is its commit.                     *)
LEMMA OnlyCommitEnds ==
  ASSUME AccountsInv, Next, NEW c \in Conns, At(c, "commit"), conn'[c] = Idle
  PROVE  Commit(c)
<1>1. conn \in [Conns -> Handled] /\ conn[c].stage = "commit" /\ conn[c] # conn'[c]
  BY DEF AccountsInv, RequestsInv, At, Idle
<1>2. ASSUME NEW d \in Conns, NEW q, conn' = [conn EXCEPT ![d] = q]
      PROVE  d = c
  BY <1>1, <1>2
<1>3. ASSUME NEW d \in Conns, Arrive(d)
      PROVE  d # c
  BY <1>1, <1>3 DEF Arrive, Busy
<1>4. ASSUME NEW d \in Conns, NEW s \in Spellings, NEW p \in Passwords,
             Register(d, s, p) \/ Login(d, s, p)
      PROVE  FALSE
  <2>1. Arrive(d) /\ \E q : conn' = [conn EXCEPT ![d] = q]
    BY <1>4 DEF Register, Login, Become, Finish
  <2> QED BY <2>1, <1>2, <1>3
<1>5. ASSUME NEW d \in Conns, NEW k, NEW type, NEW kind, NEW changes,
             Present(d, k, type, kind, changes)
      PROVE  FALSE
  <2>1. Arrive(d) /\ \E q : conn' = [conn EXCEPT ![d] = q]
    BY <1>5 DEF Present, Become, Finish
  <2> QED BY <2>1, <1>2, <1>3
<1>6. ASSUME NEW d \in Conns, Insert(d) \/ Renew(d) \/ Load(d)
      PROVE  FALSE
  <2>1. conn[d].stage # "commit" /\ \E q : conn' = [conn EXCEPT ![d] = q]
    BY <1>6 DEF Insert, Renew, Load, At, Become, Finish
  <2> QED BY <2>1, <1>1, <1>2
<1>7. ASSUME NEW d \in Conns, Commit(d)
      PROVE  d = c
  BY <1>2, <1>7 DEF Commit, Finish, Become
<1>8. CASE Tick
  BY <1>1, <1>8 DEF Tick
<1> QED BY <1>4, <1>5, <1>6, <1>7, <1>8 DEF Next, Refresh, UpdateProfile

(* A commit of c writes the columns that were named and changed, only.     *)
LEMMA CommitExact ==
  ASSUME AccountsInv, NEW c \in Conns, Commit(c), NEW col \in Columns
  PROVE  LET q == conn[c]
             was == users[q.bearer.user].profile[col]
             is == users'[q.bearer.user].profile[col]
             named == col \in DOMAIN q.changes
         IN  /\ is # was => named /\ is = q.changes[col]
             /\ status'[c].code = 200 /\ named /\ was = q.loaded[col]
                  => is = q.changes[col]
<1> DEFINE q == conn[c]
           u == q.bearer.user
           new == Written(q)
<1>1. /\ q.bearer \in Tokens /\ q.changes \in Changes /\ q.loaded \in Profiles
      /\ u \in 1 .. Len(users) /\ users[u] \in Users
      /\ \/ new.full_name = Null /\ UNCHANGED users /\ status'[c].code = 500
         \/ new \in Profiles /\ users' = [users EXCEPT ![u].profile = new]
  BY CommitFacts
<1>2. /\ new[col] # users[u].profile[col] => col \in DOMAIN q.changes /\ new[col] = q.changes[col]
      /\ col \in DOMAIN q.changes /\ users[u].profile[col] = q.loaded[col]
           => new[col] = q.changes[col]
  BY <1>1, WrittenFacts DEF AccountsInv
<1> HIDE DEF q, new
<1>3. CASE UNCHANGED users /\ status'[c].code = 500
  BY <1>3 DEF q
<1>4. CASE new \in Profiles /\ users' = [users EXCEPT ![u].profile = new]
  <2>1. users \in Seq(Users)
    BY DEF AccountsInv, TypeOK
  <2>2. users'[u] = [users[u] EXCEPT !.profile = new]
    BY <1>1, <1>4, <2>1
  <2>3. users'[u].profile = new
    BY <1>1, <2>2 DEF Users
  <2> QED BY <1>2, <2>3 DEF q
<1> QED BY <1>1, <1>3, <1>4

(* A commit changes no column but those its request names, and to what it  *)
(* asks; an edit answered 200 is in the row, unless another edit of the    *)
(* same column was committed since it was loaded (apply_profile_update).   *)
THEOREM ProfileEditsExact == Spec => EditsExact
<1> DEFINE Exact(c) ==
      At(c, "commit") /\ conn'[c] = Idle =>
         \A col \in Columns :
           LET q == conn[c]
               was == users[q.bearer.user].profile[col]
               is == users'[q.bearer.user].profile[col]
               named == col \in DOMAIN q.changes
           IN  /\ is # was => named /\ is = q.changes[col]
               /\ status'[c].code = 200 /\ named /\ was = q.loaded[col]
                    => is = q.changes[col]
<1>1. AccountsInv /\ [Next]_accounts_vars => [\A c \in Conns : Exact(c)]_accounts_vars
  <2>1. ASSUME AccountsInv, Next, NEW c \in Conns, At(c, "commit"), conn'[c] = Idle
        PROVE  Exact(c)
    BY <2>1, OnlyCommitEnds, CommitExact
  <2> QED BY <2>1
<1> QED BY <1>1, AccountsInvariant, PTL DEF Spec, EditsExact
=============================================================================
