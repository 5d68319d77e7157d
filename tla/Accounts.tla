------------------------------ MODULE Accounts ------------------------------
(***************************************************************************)
(* Accounts, roles, sessions, API tokens and second factors                *)
(* (src/src/auth.js and the account routes of src/src/handlers/api.js).    *)
(*                                                                         *)
(* Every route is a handler that awaits one SQL statement after the other  *)
(* with no transaction around them, in any number of processes.  A slot    *)
(* runs one handler: it resolves the token, then the account, then runs    *)
(* the statements of its Plan, one step each.  Reads of one handler with   *)
(* no write of its own between them are one step.  The second limit of the *)
(* login throttle, on the client's address, is left out.                   *)
(***************************************************************************)
EXTENDS Naturals, FiniteSets, Sequences

CONSTANTS
  User,           \* accounts, past and future; an id is never given twice
  Admins, Members,  \* the accounts of an installation in use, see Init
  Slot,           \* the handlers that may run at a time
  AllowRegistration, MaxFailures,     \* allowRegistration and loginMaxFailures
  None,
  MaxCalls, MaxFaults   \* bounds: requests and failed statements

ASSUME AccountsAssumption ==
  /\ Admins \subseteq User /\ Members \subseteq User /\ Admins \cap Members = {}
  /\ AllowRegistration \in BOOLEAN /\ MaxFailures \in Nat \ {0}
  /\ MaxCalls \in Nat /\ MaxFaults \in Nat
  /\ None \notin User \cup Nat \cup {"admin", "editor"}

Role == {"admin", "editor"}
Era == 0 .. MaxCalls
Number == 1 .. MaxCalls + 1

VARIABLES
  account,   \* account[u]: the row's status and second factor
  roles,     \* roles[u]: user_roles
  tokens,    \* sessions and api_tokens
  minted,    \* minted[u]: how many tokens u has been given
  fresh, used,   \* fresh[u], used[u]: the recovery codes of u, by used_at
  sets,      \* how many sets of recovery codes have been issued
  fails,     \* fails[u]: failed logins inside the window
  call,      \* call[s]: the request slot s serves
  calls, faults,
  era,       \* era[u]: how many changes of u had to end u's sessions
  redeemed,  \* redeemed[u][c]: how often code c of u was accepted
  raced,     \* did two handlers get past the last-admin check together?
  late       \* users with a login under way, or a failed statement, during such a change

tables == <<account, roles, tokens, minted, fresh, used, sets, fails>>
history == <<era, redeemed, raced, late>>
vars == <<tables, call, calls, faults, history>>

Account == [status: {"none", "active", "disabled", "deleted"}, mfa: {"off", "pending", "on"}]
\* n tells the tokens of a user apart; `era` is what era[user] was when the password was checked.
Token == [kind: {"session", "api"}, user: User, n: Number, era: Era]

\* Mutant: the sessions go before the change they must not outlive.
Revoking_First(write) == <<"revoke", write>>
\* A change to an account that ends its sessions.
Revoking(write) == <<write, "revoke">>

\* What each route does once its guards have passed, statement by statement: to sign in, to one's own
\* account, and to another's as admin.  A code of a set stands for the ten the set has.  "lastAdmin" is
\* the reads of assertNotLastAdmin, a step of their own before the write they allow.
SignInPlan ==
  [login          |-> <<"session", "clearFailures">>,
   register       |-> <<"count", "insert", "assign", "session">>]
SelfPlan ==
  [changePassword |-> <<"password", "revokeOthers">>,
   mfaSetup       |-> <<"secret">>,
   mfaEnable      |-> <<"enableMfa", "dropCodes", "addCodes">>,
   mfaDisable     |-> <<"disableMfa", "dropCodes">>,
   regenerate     |-> <<"dropCodes", "addCodes">>,
   createToken    |-> <<"mint">>,
   deleteToken    |-> <<"unmint">>]
AdminPlan ==
  [createUser     |-> <<"count", "insert", "assign">>,
   resetPassword  |-> Revoking("password"),
   disable        |-> <<"lastAdmin">> \o Revoking("disable"),
   enable         |-> <<"enable">>,
   addRole        |-> <<"assign">>,
   removeRole     |-> <<"lastAdmin">> \o Revoking("unassign"),
   deleteUser     |-> <<"lastAdmin", "delete">>,
   resetMfa       |-> <<"disableMfa", "dropCodes">>]

SelfOps == DOMAIN SelfPlan
AdminOps == DOMAIN AdminPlan

Plan == [op \in DOMAIN SignInPlan \cup SelfOps \cup AdminOps |->
           CASE op \in AdminOps -> AdminPlan[op]
             [] op \in SelfOps  -> SelfPlan[op]
             [] OTHER           -> SignInPlan[op]]

Idle == [op |-> None, st |-> "idle", user |-> None, n |-> 0, on |-> None, role |-> None,
         era |-> 0, mfa |-> None, todo |-> <<>>]
NewAccount(status, mfa) == [status |-> status, mfa |-> mfa]

\* A database nobody has registered with, or one where admins and members are signed in and the
\* members have a second factor.
Init ==
  /\ \E installed \in {{}, Admins \cup Members} :
       /\ account = [u \in User |-> IF u \notin installed THEN NewAccount("none", "off")
                                    ELSE NewAccount("active", IF u \in Members THEN "on" ELSE "off")]
       /\ roles = [u \in User |-> IF u \notin installed THEN {}
                                  ELSE IF u \in Admins THEN {"admin"} ELSE {"editor"}]
       /\ tokens = {[kind |-> "session", user |-> u, n |-> 1, era |-> 0] : u \in installed}
       /\ minted = [u \in User |-> IF u \in installed THEN 1 ELSE 0]
       /\ fresh = [u \in User |-> IF u \in installed \cap Members THEN {1} ELSE {}]
       /\ sets = IF installed = {} THEN 0 ELSE 1
  /\ used = [u \in User |-> {}]
  /\ fails = [u \in User |-> 0]
  /\ call = [s \in Slot |-> Idle]
  /\ calls = 0 /\ faults = 0
  /\ era = [u \in User |-> 0]
  /\ redeemed = [u \in User |-> [c \in Number |-> 0]]
  /\ raced = FALSE /\ late = {}

Exists(u) == account[u].status \in {"active", "disabled"}
ActiveAdmins == {u \in User : account[u].status = "active" /\ "admin" \in roles[u]}

-----------------------------------------------------------------------------
(* How a handler goes on.                                                  *)

Start(s, c) ==
  /\ call[s] = Idle /\ calls < MaxCalls
  /\ calls' = calls + 1
  /\ call' = [call EXCEPT ![s] = c]

Answer(s) == call' = [call EXCEPT ![s] = Idle]

\* On to the statement after this one, or the answer.
Proceed(s) ==
  IF Len(call[s].todo) = 1 THEN Answer(s) ELSE call' = [call EXCEPT ![s].todo = Tail(@)]

Runs(s, statement) == call[s].st = "doing" /\ Head(call[s].todo) = statement

-----------------------------------------------------------------------------
(* Requests that carry a token.                                            *)

\* resolveToken finds the row of the token.
Present(s, op, t, u, r) ==
  /\ op \in AdminOps => account[u].status \in IF op = "createUser" THEN {"none"} ELSE {"active", "disabled"}
  /\ Start(s, [Idle EXCEPT !.op = op, !.st = "resolved", !.user = t.user, !.n = t.n,
                           !.on = IF op \in AdminOps THEN u ELSE t.user,
                           !.role = IF op \in {"addRole", "removeRole", "createUser"} THEN r ELSE None])
  /\ UNCHANGED <<tables, faults, history>>

\* A session ends: its holder logs out, or it has run out and its row goes with the refusal.
EndSession(t) ==
  /\ calls < MaxCalls /\ calls' = calls + 1
  /\ t \in tokens /\ t.kind = "session"
  /\ tokens' = tokens \ {t}
  /\ UNCHANGED <<account, roles, minted, fresh, used, sets, fails, call, faults, history>>

Allowed(op, u, on) ==
  /\ account[u].status = "active"
  /\ op \in AdminOps => "admin" \in roles[u]
  /\ op \in {"disable", "deleteUser"} => on # u
  /\ op = "createUser" => account[on].status = "none"
  /\ op \in AdminOps \ {"createUser", "addRole"} => Exists(on)
  /\ op = "mfaEnable" => account[u].mfa # "off"
  /\ op = "regenerate" => account[u].mfa = "on"

\* Then the account and its roles as they are now, the guards, and the passwords and codes the body
\* carries, which may be wrong.
Authenticate(s) ==
  /\ call[s].st = "resolved"
  /\ LET c == call[s]
         pass == Allowed(c.op, c.user, c.on)
     IN \/ /\ pass
           /\ call' = [call EXCEPT ![s] =
                [c EXCEPT !.st = "doing", !.todo = Plan[c.op], !.user = None,
                          !.n = IF c.op = "changePassword" THEN c.n ELSE 0,
                          !.role = IF c.op = "deleteToken" /\ "admin" \in roles[c.user] THEN "admin" ELSE c.role]]
        \/ /\ ~ pass \/ c.op \in SelfOps
           /\ Answer(s)
  /\ UNCHANGED <<tables, calls, faults, history>>

-----------------------------------------------------------------------------
(* Sign in and registration.                                               *)

\* The lockout has let this login pass and its row is read; the password is hashed meanwhile.
ReadRow(s, u) ==
  /\ fails[u] < MaxFailures
  /\ Start(s, [Idle EXCEPT !.op = "login", !.on = u, !.era = era[u], !.mfa = account[u].mfa,
                           !.st = IF account[u].status = "active" THEN "password" ELSE "unknown"])
  /\ UNCHANGED <<tables, faults, history>>

\* A wrong password, or an account that is not active.
BadCredentials(s) ==
  /\ call[s].st \in {"password", "unknown"}
  /\ fails' = [fails EXCEPT ![call[s].on] = @ + 1]
  /\ Answer(s)
  /\ UNCHANGED <<account, roles, tokens, minted, fresh, used, sets, calls, faults, history>>

\* Mutant: the UPDATE does not ask whether the code was used.
Spend_Again(u, c) ==
  /\ c \in fresh[u] \cup used[u]
  /\ fresh' = [fresh EXCEPT ![u] = @ \ {c}]
  /\ used' = [used EXCEPT ![u] = @ \cup {c}]
\* One UPDATE spends a recovery code and says whether it did.
Spend(u, c) ==
  /\ c \in fresh[u]
  /\ fresh' = [fresh EXCEPT ![u] = @ \ {c}]
  /\ used' = [used EXCEPT ![u] = @ \cup {c}]

GoodCredentials(s) ==
  /\ call[s].st = "password"
  /\ \/ call[s].mfa # "on" /\ UNCHANGED <<fresh, used, redeemed>>   \* no second factor
     \/ call[s].mfa = "on" /\ UNCHANGED <<fresh, used, redeemed>>   \* the code on the phone
     \/ \E c \in Number :
          /\ call[s].mfa = "on"
          /\ Spend(call[s].on, c)
          /\ redeemed' = [redeemed EXCEPT ![call[s].on][c] = @ + 1]
  /\ call' = [call EXCEPT ![s].st = "doing", ![s].todo = Plan.login]
  /\ UNCHANGED <<account, roles, tokens, minted, sets, fails, calls, faults, era, raced, late>>

\* The password was right, the second factor was not: no failure is recorded.
MfaRequired(s) ==
  /\ call[s].st = "password" /\ call[s].mfa = "on"
  /\ Answer(s)
  /\ UNCHANGED <<tables, calls, faults, history>>

\* The first account may always register.
Register(s, u, r) ==
  /\ account[u].status = "none"
  /\ AllowRegistration \/ \A x \in User : ~ Exists(x)
  /\ Start(s, [Idle EXCEPT !.op = "register", !.st = "doing", !.on = u, !.role = r,
                           !.todo = Plan.register])
  /\ UNCHANGED <<tables, faults, history>>

-----------------------------------------------------------------------------
(* The statements.  Each is one SQL statement on the account `on`; one that *)
(* finds nothing to change changes nothing.                                *)

LoginOf(u) == \E s \in Slot : call[s].op \in {"login", "register"} /\ call[s].on = u
RevokeDue(u) ==
  \E s \in Slot : call[s].on = u /\ call[s].st = "doing" /\ Head(call[s].todo) \in {"revoke", "revokeOthers"}

\* A change after which the sessions of u must go.
Changed(u) ==
  /\ era' = [era EXCEPT ![u] = @ + 1]
  /\ late' = IF LoginOf(u) THEN late \cup {u} ELSE late
  /\ UNCHANGED <<redeemed, raced>>

SetAccount(u, status) == account' = [account EXCEPT ![u].status = status]

SetPassword(s) ==
  /\ Runs(s, "password")
  /\ Changed(call[s].on)
  /\ Proceed(s)
  /\ UNCHANGED <<tables, calls, faults>>

SetStatus(s) ==
  /\ Runs(s, "disable") \/ Runs(s, "enable")
  /\ LET u == call[s].on IN
     /\ IF Exists(u) THEN SetAccount(u, IF call[s].op = "disable" THEN "disabled" ELSE "active")
        ELSE UNCHANGED account
     /\ IF call[s].op = "disable" THEN Changed(u) ELSE UNCHANGED history
  /\ Proceed(s)
  /\ UNCHANGED <<roles, tokens, minted, fresh, used, sets, fails, calls, faults>>

\* 404 when the account did not have the role: then the sessions stay.
RevokeRole(s) ==
  /\ Runs(s, "unassign")
  /\ LET u == call[s].on IN
     IF call[s].role \in roles[u]
     THEN roles' = [roles EXCEPT ![u] = @ \ {call[s].role}] /\ Changed(u) /\ Proceed(s)
     ELSE Answer(s) /\ UNCHANGED <<roles, history>>
  /\ UNCHANGED <<account, tokens, minted, fresh, used, sets, fails, calls, faults>>

Kept(s) == IF Runs(s, "revokeOthers") THEN {t \in tokens : t.user = call[s].on /\ t.n = call[s].n} ELSE {}

\* The session that changed the password stays, with the new password behind it.
RevokeSessions(s) ==
  /\ Runs(s, "revoke") \/ Runs(s, "revokeOthers")
  /\ LET u == call[s].on IN
     tokens' = {t \in tokens : t.user # u \/ t.kind = "api"}
                 \cup {[t EXCEPT !.era = era[u]] : t \in Kept(s)}
  /\ Proceed(s)
  /\ UNCHANGED <<account, roles, minted, fresh, used, sets, fails, calls, faults, history>>

\* Mutant: disabled admins are counted.
CountAdmins_AnyStatus(u) == Cardinality({x \in User \ {u} : "admin" \in roles[x]})
\* How many active admins there are besides u.
CountAdmins(u) == Cardinality(ActiveAdmins \ {u})

\* Past the check, before the write it allowed.
MayReduce(s) == Runs(s, "disable") \/ Runs(s, "delete") \/ (Runs(s, "unassign") /\ call[s].role = "admin")

AssertNotLastAdmin(s) ==
  /\ Runs(s, "lastAdmin")
  /\ IF \/ ~ Exists(call[s].on)
        \/ /\ call[s].op = "removeRole" => call[s].role = "admin"
           /\ "admin" \in roles[call[s].on] /\ CountAdmins(call[s].on) = 0
     THEN Answer(s) /\ UNCHANGED raced
     ELSE Proceed(s) /\ raced' = (raced \/ \E x \in Slot \ {s} : MayReduce(x))
  /\ UNCHANGED <<tables, calls, faults, era, redeemed, late>>

\* The row, and with it sessions, tokens, roles and codes.
DeleteUser(s) ==
  /\ Runs(s, "delete")
  /\ LET u == call[s].on IN
     /\ SetAccount(u, "deleted")
     /\ roles' = [roles EXCEPT ![u] = {}]
     /\ tokens' = {t \in tokens : t.user # u}
     /\ fresh' = [fresh EXCEPT ![u] = {}] /\ used' = [used EXCEPT ![u] = {}]
  /\ Proceed(s)
  /\ UNCHANGED <<minted, sets, fails, calls, faults, history>>

\* createUser: the first account of all becomes admin.
CountUsers(s) ==
  /\ Runs(s, "count")
  /\ call' = [call EXCEPT ![s].todo = Tail(@),
                          ![s].role = IF \E u \in User : Exists(u) THEN @ ELSE "admin"]
  /\ UNCHANGED <<tables, calls, faults, history>>

\* The unique keys refuse a second account with this name.
InsertUser(s) ==
  /\ Runs(s, "insert")
  /\ IF account[call[s].on].status = "none"
     THEN SetAccount(call[s].on, "active") /\ Proceed(s)
     ELSE Answer(s) /\ UNCHANGED account
  /\ UNCHANGED <<roles, tokens, minted, fresh, used, sets, fails, calls, faults, history>>

\* A row that refers to an account which is gone is refused: 500.
AssignRole(s) ==
  /\ Runs(s, "assign")
  /\ IF Exists(call[s].on)
     THEN roles' = [roles EXCEPT ![call[s].on] = @ \cup {call[s].role}] /\ Proceed(s)
     ELSE Answer(s) /\ UNCHANGED roles
  /\ UNCHANGED <<account, tokens, minted, fresh, used, sets, fails, calls, faults, history>>

IssueToken(s) ==
  /\ Runs(s, "session") \/ Runs(s, "mint")
  /\ LET u == call[s].on IN
     IF Exists(u)
     THEN /\ minted' = [minted EXCEPT ![u] = @ + 1]
          /\ tokens' = tokens \cup {[kind |-> IF Runs(s, "mint") THEN "api" ELSE "session",
                                     user |-> u, n |-> minted[u] + 1, era |-> call[s].era]}
          /\ Proceed(s)
     ELSE Answer(s) /\ UNCHANGED <<minted, tokens>>
  /\ UNCHANGED <<account, roles, fresh, used, sets, fails, calls, faults, history>>

\* DELETE /tokens/:id: an API token of one's own, for an admin anybody's.
DeleteToken(s) ==
  /\ Runs(s, "unmint")
  /\ LET mine == {t \in tokens : t.kind = "api" /\ (t.user = call[s].on \/ call[s].role = "admin")}
     IN \E gone \in {{t} : t \in mine} \cup {{}} : tokens' = tokens \ gone
  /\ Proceed(s)
  /\ UNCHANGED <<account, roles, minted, fresh, used, sets, fails, calls, faults, history>>

ClearLoginFailures(s) ==
  /\ Runs(s, "clearFailures")
  /\ fails' = [fails EXCEPT ![call[s].on] = 0]
  /\ Proceed(s)
  /\ UNCHANGED <<account, roles, tokens, minted, fresh, used, sets, calls, faults, history>>

MfaOf == [secret |-> "pending", enableMfa |-> "on", disableMfa |-> "off"]

UpdateMfa(s) ==
  /\ call[s].st = "doing" /\ Head(call[s].todo) \in DOMAIN MfaOf
  /\ IF Exists(call[s].on) THEN account' = [account EXCEPT ![call[s].on].mfa = MfaOf[Head(call[s].todo)]]
     ELSE UNCHANGED account
  /\ Proceed(s)
  /\ UNCHANGED <<roles, tokens, minted, fresh, used, sets, fails, calls, faults, history>>

DropCodes(s) ==
  /\ Runs(s, "dropCodes")
  /\ fresh' = [fresh EXCEPT ![call[s].on] = {}]
  /\ used' = [used EXCEPT ![call[s].on] = {}]
  /\ Proceed(s)
  /\ UNCHANGED <<account, roles, tokens, minted, sets, fails, calls, faults, history>>

AddCodes(s) ==
  /\ Runs(s, "addCodes")
  /\ IF Exists(call[s].on)
     THEN sets' = sets + 1 /\ fresh' = [fresh EXCEPT ![call[s].on] = @ \cup {sets + 1}]
     ELSE UNCHANGED <<sets, fresh>>
  /\ Proceed(s)
  /\ UNCHANGED <<account, roles, tokens, minted, used, fails, calls, faults, history>>

\* A statement is refused, or the process ends, half way: what was done stays, the rest is not done.
Fail(s) ==
  /\ call[s].st = "doing" /\ call[s].todo # Plan[call[s].op] /\ faults < MaxFaults
  /\ faults' = faults + 1
  /\ late' = IF Head(call[s].todo) \in {"revoke", "revokeOthers"} THEN late \cup {call[s].on} ELSE late
  /\ Answer(s)
  /\ UNCHANGED <<tables, calls, era, redeemed, raced>>

\* The window of the throttle passes.
Forget(u) ==
  /\ fails[u] >= MaxFailures
  /\ fails' = [fails EXCEPT ![u] = 0]
  /\ UNCHANGED <<account, roles, tokens, minted, fresh, used, sets, call, calls, faults, history>>

-----------------------------------------------------------------------------
Requests(s) ==
  \E u \in User, r \in Role :
    \/ \E op \in AdminOps \cup SelfOps, t \in tokens : Present(s, op, t, u, r)
    \/ ReadRow(s, u)
    \/ Register(s, u, r)

Statement(s) ==
  \/ SetPassword(s) \/ SetStatus(s) \/ RevokeRole(s) \/ RevokeSessions(s)
  \/ AssertNotLastAdmin(s) \/ DeleteUser(s)
  \/ CountUsers(s) \/ InsertUser(s) \/ AssignRole(s) \/ IssueToken(s) \/ DeleteToken(s)
  \/ ClearLoginFailures(s) \/ UpdateMfa(s) \/ DropCodes(s) \/ AddCodes(s)

Next ==
  \/ \E s \in Slot :
       \/ Requests(s) \/ Authenticate(s)
       \/ BadCredentials(s) \/ GoodCredentials(s) \/ MfaRequired(s)
       \/ Statement(s) \/ Fail(s)
  \/ \E t \in tokens : EndSession(t)
  \/ \E u \in User : Forget(u)

Spec == Init /\ [][Next]_vars

-----------------------------------------------------------------------------
TypeOK ==
  /\ account \in [User -> Account] /\ roles \in [User -> SUBSET Role]
  /\ tokens \subseteq Token /\ minted \in [User -> 0 .. MaxCalls + 1]
  /\ fresh \in [User -> SUBSET Number] /\ used \in [User -> SUBSET Number]
  /\ sets \in 0 .. MaxCalls + 1 /\ fails \in [User -> Nat]
  /\ DOMAIN call = Slot /\ calls \in 0 .. MaxCalls /\ faults \in 0 .. MaxFaults
  /\ era \in [User -> Era] /\ redeemed \in [User -> [Number -> Nat]]
  /\ raced \in BOOLEAN /\ late \subseteq User

\* "Refuse an operation that would leave the system with no active admin" (assertNotLastAdmin): no
\* step takes the last active admin away, unless two handlers passed the check before either wrote.
AdminRemains == [][ActiveAdmins # {} => ActiveAdmins' # {} \/ raced']_vars

\* The same, without the exception.
AdminAlwaysRemains == [][ActiveAdmins # {} => ActiveAdmins' # {}]_vars

\* revokeSessions ("what a password change, a disable, or a role revocation has to do to actually
\* take effect on already-signed-in clients"): no session that was opened before such a change is left
\* once the handler is past its DELETE, unless a login was under way or a statement failed.
SessionsFollowChange ==
  \A t \in tokens :
    t.kind = "session" => t.era = era[t.user] \/ RevokeDue(t.user) \/ t.user \in late

\* verifySecondFactor: "a code can never be redeemed twice even under concurrent attempts", and not
\* either when sets of codes are dropped and issued in the middle of them.
CodeSpentOnce == \A u \in User, c \in Number : redeemed[u][c] <= 1
=============================================================================
