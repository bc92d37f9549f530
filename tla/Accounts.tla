------------------------------ MODULE Accounts ------------------------------
(***************************************************************************)
(* Accounts and tokens: register_user, authenticate_user and               *)
(* apply_profile_update of app/services.py, the JWTs of app/security.py,   *)
(* the look-up of the bearer in app/deps.py and the routes of              *)
(* app/routers/auth.py and users.py.                                       *)
(*                                                                         *)
(* A handler suspends at its look-up and at its commit, and others run in  *)
(* between.  Signatures, issuer and audience are the JWT library's: the    *)
(* tokens here are those this server signed with the present secret.       *)
(* Hashing keeps the password and is not otherwise modelled.  No operation *)
(* removes an account.                                                     *)
(***************************************************************************)
EXTENDS Integers, Sequences

CONSTANTS
  Conns,          \* connections, each with one request at a time
  Spellings,      \* how an address may be written
  Lower,          \* Lower[s]: the address in lower case
  Passwords,
  Values, Null,   \* what a column of the profile may hold
  AccessLife,     \* access_token_expire_minutes
  RefreshLife,    \* refresh_token_expire_minutes
  MaxTime,        \* bound: the clock stops here
  MaxRequests     \* bound: how many requests arrive

Columns == {"full_name", "target_role"}   \* experience_level is as target_role

ASSUME AccountsAssumption ==
  /\ Lower \in [Spellings -> Spellings]
  /\ \A s \in Spellings : Lower[Lower[s]] = Lower[s]
  /\ Null \notin Values /\ "" \in Values
  /\ AccessLife \in Nat \ {0} /\ RefreshLife \in Nat \ {0}
  /\ MaxTime \in Nat /\ MaxRequests \in Nat

VARIABLES
  now,
  users,     \* the table: users[i] is the account with id i
  tokens,    \* the tokens issued
  conn,      \* conn[c]: the request being handled, with its local variables
  arrived,   \* how many requests have arrived
  created,   \* history: [email, password] of each registration answered 201
  status     \* history: status[c], what the latest request of c was, and
             \*          what it was answered

accounts_vars == <<now, users, tokens, conn, arrived, created, status>>

(***************************************************************************)
(* Tokens                                                                  *)
(***************************************************************************)

Life == [access |-> AccessLife, refresh |-> RefreshLife]
Token(i, type, t) == [user |-> i, type |-> type, issued |-> t]

(* _token_pair                                                             *)
Pair(i) == {Token(i, "access", now), Token(i, "refresh", now)}

Live(k) == now < k.issued + Life[k.type]

(* Wrong on purpose: the type of the token is not compared.                *)
AcceptsAnyType(k, type) == Live(k)

(* decode_token: expired, or of the other type, is 401.                    *)
Accepts(k, type) == Live(k) /\ k.type = type

(***************************************************************************)
(* Requests                                                                *)
(***************************************************************************)

Idle == [stage |-> "idle"]
Busy(c) == conn[c].stage # "idle"
At(c, s) == conn[c].stage = s
Become(c, q) == conn' = [conn EXCEPT ![c] = q]
Status(kind, code) == [kind |-> kind, code |-> code]
Finish(c, x) == /\ Become(c, Idle)
                /\ status' = [status EXCEPT ![c] = x]

Arrive(c) == ~Busy(c) /\ arrived < MaxRequests /\ arrived' = arrived + 1

(* Wrong on purpose: the address is stored as it was written.              *)
CanonicalAsWritten(s) == s

Canonical(s) == Lower[s]

WithEmail(e) == {i \in 1 .. Len(users) : users[i].email = e}

Register(c, s, p) ==
  /\ Arrive(c)
  /\ IF WithEmail(Lower[s]) # {}
       THEN Finish(c, Status("register", 409))
       ELSE Become(c, [stage |-> "insert", email |-> Canonical(s), password |-> p])
            /\ UNCHANGED status
  /\ UNCHANGED <<now, users, tokens, created>>

NewUser(e, p) == [email |-> e, password |-> p,
                  profile |-> [full_name |-> "", target_role |-> Null]]

(* Wrong on purpose: the loser is given the winner's account, as the       *)
(* market report's loser is given the winner's row.                        *)
InsertOrServe(c) ==
  LET q == conn[c]
  IN  /\ At(c, "insert")
      /\ IF WithEmail(q.email) = {}
           THEN users' = Append(users, NewUser(q.email, q.password))
           ELSE UNCHANGED users
      /\ created' = created \cup {[email |-> q.email, password |-> q.password]}
      /\ Finish(c, Status("register", 201))
      /\ UNCHANGED <<now, tokens, arrived>>

(* Wrong on purpose: the column is not unique.                             *)
InsertTwice(c) ==
  LET q == conn[c]
  IN  /\ At(c, "insert")
      /\ users' = Append(users, NewUser(q.email, q.password))
      /\ created' = created \cup {[email |-> q.email, password |-> q.password]}
      /\ Finish(c, Status("register", 201))
      /\ UNCHANGED <<now, tokens, arrived>>

(* The unique column refuses a second account; nothing catches the         *)
(* IntegrityError.                                                         *)
Insert(c) ==
  LET q == conn[c]
  IN  /\ At(c, "insert")
      /\ IF WithEmail(q.email) = {}
           THEN /\ users' = Append(users, NewUser(q.email, q.password))
                /\ created' = created \cup {[email |-> q.email, password |-> q.password]}
                /\ Finish(c, Status("register", 201))
           ELSE Finish(c, Status("register", 500)) /\ UNCHANGED <<users, created>>
      /\ UNCHANGED <<now, tokens, arrived>>

(* authenticate_user: the accounts the credentials open.                   *)
Authenticated(s, p) == {i \in WithEmail(Lower[s]) : users[i].password = p}

(* One look-up, and no suspension after it.                                *)
Login(c, s, p) ==
  /\ Arrive(c)
  /\ IF Authenticated(s, p) = {}
       THEN Finish(c, Status("login", 401)) /\ UNCHANGED tokens
       ELSE /\ Finish(c, Status("login", 200))
            /\ tokens' = tokens \cup UNION {Pair(i) : i \in Authenticated(s, p)}
  /\ UNCHANGED <<now, users, created>>

(* A request with token k for a handler that wants the given type: the     *)
(* token is judged now, its account looked up in the next step.            *)
Present(c, k, type, kind, changes) ==
  /\ Arrive(c)
  /\ IF Accepts(k, type)
       THEN /\ Become(c, [stage |-> kind, bearer |-> k, since |-> now,
                          changes |-> changes])
            /\ UNCHANGED status
       ELSE Finish(c, Status(kind, 401))
  /\ UNCHANGED <<now, users, tokens, created>>

Refresh(c, k) == Present(c, k, "refresh", "refresh", << >>)

(* The account is there: nothing removes one.                              *)
Renew(c) ==
  /\ At(c, "refresh")
  /\ tokens' = tokens \cup Pair(conn[c].bearer.user)
  /\ Finish(c, Status("refresh", 200))
  /\ UNCHANGED <<now, users, arrived, created>>

(* PATCH /users/me; changes has the columns the body names, null or not.   *)
Changes == UNION {[cs -> Values \cup {Null}] : cs \in SUBSET Columns}

UpdateProfile(c, k, changes) == Present(c, k, "access", "profile", changes)

(* get_current_user loads the row.                                         *)
Load(c) ==
  /\ At(c, "profile")
  /\ Become(c, [stage |-> "commit", bearer |-> conn[c].bearer,
                since |-> conn[c].since, changes |-> conn[c].changes,
                loaded |-> users[conn[c].bearer.user].profile])
  /\ UNCHANGED <<now, users, tokens, arrived, created, status>>

(* The object in the session after apply_profile_update.                   *)
Applied(q) == [col \in Columns |-> IF col \in DOMAIN q.changes
                                     THEN q.changes[col] ELSE q.loaded[col]]

(* Wrong on purpose: every column of the object is written.                *)
WrittenWhole(q) == Applied(q)

(* The UPDATE names the columns whose value is no longer the loaded one.   *)
Written(q) ==
  [col \in Columns |-> IF Applied(q)[col] # q.loaded[col]
                         THEN Applied(q)[col]
                         ELSE users[q.bearer.user].profile[col]]

(* Wrong on purpose: the column takes a null.                              *)
CommitNullable(c) ==
  /\ At(c, "commit")
  /\ users' = [users EXCEPT ![conn[c].bearer.user].profile = Written(conn[c])]
  /\ Finish(c, Status("profile", 200))
  /\ UNCHANGED <<now, tokens, arrived, created>>

(* full_name may not be null: the UPDATE fails as a whole.                 *)
Commit(c) ==
  LET q == conn[c]
      new == Written(q)
  IN  /\ At(c, "commit")
      /\ IF new.full_name = Null
           THEN Finish(c, Status("profile", 500)) /\ UNCHANGED users
           ELSE /\ users' = [users EXCEPT ![q.bearer.user].profile = new]
                /\ Finish(c, Status("profile", 200))
      /\ UNCHANGED <<now, tokens, arrived, created>>

Tick == /\ now < MaxTime
        /\ now' = now + 1
        /\ UNCHANGED <<users, tokens, conn, arrived, created, status>>

(* A start with an empty table, or with an account from earlier whose      *)
(* tokens were issued just before: tokens outlive the process.             *)
Init ==
  /\ now = 0
  /\ \/ users = << >> /\ tokens = {}
     \/ \E s \in Spellings, p \in Passwords :
          users = <<NewUser(Canonical(s), p)>> /\ tokens = Pair(1)
  /\ conn = [c \in Conns |-> Idle]
  /\ arrived = 0
  /\ created = {}
  /\ status = [c \in Conns |-> Status("none", 0)]

Next ==
  \/ \E c \in Conns, s \in Spellings, p \in Passwords : Register(c, s, p) \/ Login(c, s, p)
  \/ \E c \in Conns, k \in tokens :
       Refresh(c, k) \/ \E changes \in Changes : UpdateProfile(c, k, changes)
  \/ \E c \in Conns : Insert(c) \/ Renew(c) \/ Load(c) \/ Commit(c)
  \/ Tick

Spec == Init /\ [][Next]_accounts_vars

-----------------------------------------------------------------------------
(***************************************************************************)
(* Properties                                                              *)
(***************************************************************************)

Profiles == [full_name : Values, target_role : Values \cup {Null}]
Users == [email : Spellings, password : Passwords, profile : Profiles]
Tokens == [user : 1 .. Len(users), type : {"access", "refresh"}, issued : Nat]

(* Type invariant: among others, full_name is never null, and a token's    *)
(* account exists.                                                         *)
TypeOK ==
  /\ now \in Nat
  /\ users \in Seq(Users)
  /\ tokens \subseteq Tokens
  /\ \A c \in Conns : conn[c].stage \in {"idle", "insert", "refresh", "profile", "commit"}
  /\ arrived \in 0 .. MaxRequests
  /\ created \subseteq [email : Spellings, password : Passwords]

(* An address has one account however it is written and whatever           *)
(* registrations race for it (register_user, the unique column).           *)
OneAccountPerAddress ==
  \A i, j \in 1 .. Len(users) :
    Lower[users[i].email] = Lower[users[j].email] => i = j

(* Whoever was told 201 has the account, and signs in to it with the       *)
(* password of that registration: no race hands it to somebody else.       *)
RegisteredCanSignIn ==
  \A x \in created : \E i \in WithEmail(Lower[x.email]) : users[i].password = x.password

(* No request that edits an account runs on a token older than an access   *)
(* token's life when it arrived: a refresh token, which lives longer, only *)
(* buys a new pair (decode_token, get_current_user, refresh).              *)
BearerFresh ==
  \A c \in Conns :
    At(c, "profile") \/ At(c, "commit") =>
      conn[c].since < conn[c].bearer.issued + AccessLife

(* A commit changes no column but those its request names, and to what it  *)
(* asks: an overlapping edit of another column survives.  An edit that is  *)
(* answered 200 is in the row, unless another edit of the same column came *)
(* in between.                                                             *)
EditsExact ==
  [][\A c \in Conns :
       At(c, "commit") /\ conn'[c] = Idle =>
         \A col \in Columns :
           LET q == conn[c]
               was == users[q.bearer.user].profile[col]
               is == users'[q.bearer.user].profile[col]
               named == col \in DOMAIN q.changes
           IN  /\ is # was => named /\ is = q.changes[col]
               /\ status'[c].code = 200 /\ named /\ was = q.loaded[col]
                    => is = q.changes[col]
    ]_accounts_vars

(* register_user's docstring: it "raises AlreadyRegisteredError on         *)
(* duplicates", which the route answers with 409.                          *)
DuplicateIsConflict ==
  \A c \in Conns : status[c].kind = "register" => status[c].code \in {201, 409}

(* The requests being handled: registrations with their canonical address; *)
(* bearers of a token that was accepted when they arrived.                 *)
Registering == {q \in [stage : {"insert"}, email : Spellings, password : Passwords] :
                  Lower[q.email] = q.email}
Refreshing == [stage : {"refresh"}, bearer : Tokens, since : Nat, changes : {<< >>}]
Editing == {q \in [stage : {"profile"}, bearer : Tokens, since : Nat, changes : Changes]
                    \cup [stage : {"commit"}, bearer : Tokens, since : Nat,
                          changes : Changes, loaded : Profiles] :
              q.since < q.bearer.issued + AccessLife}

Handled == {Idle} \cup Registering \cup Refreshing \cup Editing
RequestsInv == conn \in [Conns -> Handled] /\ DOMAIN status = Conns

(* Addresses are stored canonically, once each, and no registration that   *)
(* was answered 201 lost its account.                                      *)
TableInv ==
  /\ \A i \in 1 .. Len(users) : Lower[users[i].email] = users[i].email
  /\ \A i, j \in 1 .. Len(users) : users[i].email = users[j].email => i = j
  /\ \A x \in created :
       \E i \in 1 .. Len(users) :
         users[i].email = Lower[x.email] /\ users[i].password = x.password

(* The inductive invariant behind the properties.                          *)
AccountsInv == TypeOK /\ RequestsInv /\ TableInv
=============================================================================
