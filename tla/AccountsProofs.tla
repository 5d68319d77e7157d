--------------------------- MODULE AccountsProofs ---------------------------
(* Accounts: a recovery code is redeemed once; the last active admin stays   *)
(* unless two handlers pass the check for that together; and no session      *)
(* opened before its account was changed outlives the handler that did it.   *)
EXTENDS Accounts, FiniteSetTheorems, SequenceTheorems, TLAPS

-----------------------------------------------------------------------------
(* Recovery codes.                                                         *)

\* A code that can still be spent was issued, and has never been redeemed;
\* neither has one that is yet to be issued.
Unspent ==
  /\ sets \in Nat
  /\ fresh \in [User -> SUBSET Nat]
  /\ redeemed \in [User -> [Number -> Nat]]
  /\ \A u \in User : \A c \in fresh[u] : c <= sets
  /\ \A u \in User, c \in Number : c > sets \/ c \in fresh[u] => redeemed[u][c] = 0

CodeInv == Unspent /\ CodeSpentOnce

codes == <<sets, fresh, redeemed>>

LEMMA CodesAtFirst == Init => CodeInv
<1>1. SUFFICES ASSUME Init PROVE CodeInv
  OBVIOUS
<1>2. MaxCalls \in Nat
  BY AccountsAssumption
<1>3. \A u \in User, c \in Number : redeemed[u][c] = 0
  BY <1>1 DEF Init
<1>4. PICK installed \in {{}, Admins \cup Members} :
        /\ fresh = [u \in User |-> IF u \in installed \cap Members THEN {1} ELSE {}]
        /\ sets = IF installed = {} THEN 0 ELSE 1
  BY <1>1 DEF Init
<1>5. redeemed \in [User -> [Number -> Nat]]
  BY <1>1 DEF Init
<1> QED
  BY <1>3, <1>4, <1>5 DEF CodeInv, Unspent, CodeSpentOnce

\* A change at one place of a function, or outside its domain.
LEMMA Changed1 ==
  ASSUME NEW D, NEW R, NEW f \in [D -> R], NEW x, NEW y, x \in D => y \in R
  PROVE  /\ [f EXCEPT ![x] = y] \in [D -> R]
         /\ \A d \in D : [f EXCEPT ![x] = y][d] = IF d = x THEN y ELSE f[d]
OBVIOUS

\* A step that leaves the codes alone.
LEMMA CodesAlone ==
  ASSUME CodeInv, UNCHANGED codes
  PROVE  CodeInv'
BY DEF CodeInv, Unspent, CodeSpentOnce, codes

\* Only four steps touch them.
LEMMA CodesTouched ==
  ASSUME Next
  PROVE  \/ UNCHANGED codes
         \/ \E s \in Slot : GoodCredentials(s) \/ DeleteUser(s) \/ DropCodes(s) \/ AddCodes(s)
<1>1. ASSUME NEW s \in Slot, Requests(s) PROVE UNCHANGED codes
  BY <1>1 DEF Requests, Present, ReadRow, Register, tables, history, codes
<1>2. ASSUME NEW s \in Slot, Statement(s) \/ Fail(s)
      PROVE  UNCHANGED codes \/ DeleteUser(s) \/ DropCodes(s) \/ AddCodes(s)
  <2>1. CASE SetPassword(s) \/ SetStatus(s) \/ RevokeRole(s)
    BY <2>1 DEF SetPassword, SetStatus, RevokeRole, Changed, tables, history, codes
  <2>2. CASE RevokeSessions(s) \/ AssertNotLastAdmin(s) \/ CountUsers(s) \/ InsertUser(s) \/ AssignRole(s)
    BY <2>2 DEF RevokeSessions, AssertNotLastAdmin, CountUsers, InsertUser, AssignRole,
                tables, history, codes
  <2>3. CASE IssueToken(s) \/ DeleteToken(s) \/ ClearLoginFailures(s) \/ UpdateMfa(s) \/ Fail(s)
    BY <2>3 DEF IssueToken, DeleteToken, ClearLoginFailures, UpdateMfa, Fail, tables, history, codes
  <2> QED
    BY <1>2, <2>1, <2>2, <2>3 DEF Statement
<1>3. ASSUME NEW s \in Slot, Authenticate(s) \/ BadCredentials(s) \/ MfaRequired(s) PROVE UNCHANGED codes
  BY <1>3 DEF Authenticate, BadCredentials, MfaRequired, tables, history, codes
<1>4. ASSUME \/ \E t \in tokens : EndSession(t)
             \/ \E u \in User : Forget(u)
      PROVE  UNCHANGED codes
  BY <1>4 DEF EndSession, Forget, history, codes
<1> QED
  BY <1>1, <1>2, <1>3, <1>4 DEF Next

LEMMA CodesKept ==
  ASSUME CodeInv, [Next]_vars
  PROVE  CodeInv'
<1> USE DEF CodeInv
<1>1. ASSUME NEW s \in Slot, GoodCredentials(s) PROVE CodeInv'
  <2>1. CASE UNCHANGED <<fresh, used, redeemed>>
    BY <1>1, <2>1, CodesAlone DEF GoodCredentials, codes
  <2>2. CASE \E c \in Number : /\ Spend(call[s].on, c)
                               /\ redeemed' = [redeemed EXCEPT ![call[s].on][c] = @ + 1]
    <3> DEFINE u == call[s].on
    <3>1. PICK c \in Number : /\ c \in fresh[u]
                              /\ fresh' = [fresh EXCEPT ![u] = @ \ {c}]
                              /\ redeemed' = [redeemed EXCEPT ![u][c] = @ + 1]
      BY <2>2 DEF Spend
    <3>2. sets' = sets
      BY <1>1 DEF GoodCredentials
    <3>3. u \in User => redeemed[u][c] = 0 /\ c <= sets /\ c \in Nat
      BY <3>1 DEF Unspent
    <3> HIDE DEF u
    <3>4. /\ fresh' \in [User -> SUBSET Nat]
          /\ \A v \in User : fresh'[v] = IF v = u THEN fresh[u] \ {c} ELSE fresh[v]
      BY <3>1, Changed1 DEF Unspent
    <3>5. /\ redeemed' \in [User -> [Number -> Nat]]
          /\ \A v \in User, d \in Number :
               redeemed'[v][d] = IF v = u /\ d = c THEN redeemed[u][c] + 1 ELSE redeemed[v][d]
      <4> DEFINE more == [redeemed[u] EXCEPT ![c] = @ + 1]
      <4>1. redeemed' = [redeemed EXCEPT ![u] = more]
        BY <3>1
      <4>2. u \in User => /\ more \in [Number -> Nat]
                          /\ \A d \in Number : more[d] = IF d = c THEN redeemed[u][c] + 1 ELSE redeemed[u][d]
        BY DEF Unspent
      <4> HIDE DEF more
      <4>3. /\ redeemed' \in [User -> [Number -> Nat]]
            /\ \A v \in User : redeemed'[v] = IF v = u THEN more ELSE redeemed[v]
        BY <4>1, <4>2, Changed1 DEF Unspent
      <4> QED
        BY <4>2, <4>3
    <3> QED
      BY <3>2, <3>3, <3>4, <3>5 DEF Unspent, CodeSpentOnce
  <2> QED
    BY <1>1, <2>1, <2>2 DEF GoodCredentials
<1>2. ASSUME NEW s \in Slot, DeleteUser(s) \/ DropCodes(s) PROVE CodeInv'
  <2>1. fresh' = [fresh EXCEPT ![call[s].on] = {}] /\ sets' = sets /\ redeemed' = redeemed
    BY <1>2 DEF DeleteUser, DropCodes, history
  <2>2. fresh' \in [User -> SUBSET Nat] /\ \A v \in User : fresh'[v] \subseteq fresh[v]
    BY <2>1 DEF Unspent
  <2> QED
    BY <2>1, <2>2 DEF Unspent, CodeSpentOnce
<1>3. ASSUME NEW s \in Slot, AddCodes(s) PROVE CodeInv'
  <2>1. redeemed' = redeemed
    BY <1>3 DEF AddCodes, history
  <2>2. CASE UNCHANGED <<sets, fresh>>
    BY <2>1, <2>2, CodesAlone DEF codes
  <2>3. CASE sets' = sets + 1 /\ fresh' = [fresh EXCEPT ![call[s].on] = @ \cup {sets + 1}]
    <3> DEFINE u == call[s].on
               more == fresh[u] \cup {sets + 1}
    <3>1. fresh' = [fresh EXCEPT ![u] = more]
      BY <2>3
    <3>3. u \in User => more \in SUBSET Nat /\ \A c \in more : c \in fresh[u] \/ c = sets + 1
      BY DEF Unspent
    <3> HIDE DEF u, more
    <3>4. /\ fresh' \in [User -> SUBSET Nat]
          /\ \A v \in User : fresh'[v] = IF v = u THEN more ELSE fresh[v]
      <4>1. CASE u \in User
        BY <3>1, <3>3, <4>1 DEF Unspent
      <4>2. CASE u \notin User
        BY <3>1, <4>2 DEF Unspent
      <4> QED
        BY <4>1, <4>2
    <3>2. \A c \in Number : c \in Nat
      BY AccountsAssumption DEF Number
    <3> QED
      BY <2>1, <2>3, <3>2, <3>3, <3>4 DEF Unspent, CodeSpentOnce
  <2> QED
    BY <1>3, <2>2, <2>3 DEF AddCodes
<1>4. CASE UNCHANGED vars
  BY <1>4, CodesAlone DEF vars, tables, history, codes
<1> QED
  BY <1>1, <1>2, <1>3, <1>4, CodesTouched, CodesAlone

\* verifySecondFactor, for any number of accounts, handlers and failures: no
\* recovery code is redeemed twice.
THEOREM CodesSpentOnce == Spec => []CodeSpentOnce
<1>1. Init => CodeInv
  BY CodesAtFirst
<1>2. CodeInv /\ [Next]_vars => CodeInv'
  BY CodesKept
<1>3. CodeInv => CodeSpentOnce
  BY DEF CodeInv
<1> QED
  BY <1>1, <1>2, <1>3, PTL DEF Spec

-----------------------------------------------------------------------------
(* The last admin: the plans.                                              *)

Reducers == {"disable", "delete", "unassign"}
\* The other statements, but for the check and the one that lets a user back in.
Harmless == {"session", "clearFailures", "count", "insert", "assign", "password", "revokeOthers",
             "secret", "enableMfa", "disableMfa", "dropCodes", "addCodes", "mint", "unmint", "revoke"}
Statements == Harmless \cup Reducers \cup {"lastAdmin", "enable"}

\* A handler whose statements take an admin away comes to them by the check, and
\* only the routes that mean it have them.  The count is not the last thing done.
Shaped(q, op) ==
  /\ q \in Seq(Statements) /\ Len(q) > 0 /\ q[Len(q)] # "count"
  /\ \A i \in 2 .. Len(q) : q[i] \in Reducers => q[i - 1] = "lastAdmin"
  /\ \A i \in 1 .. Len(q) :
       /\ q[i] \in {"disable", "delete"} => op \in {"disable", "deleteUser"}
       /\ q[i] = "enable" => op # "disable"
       /\ q[i] = "lastAdmin" => op \in AdminOps

LEMMA Heads ==
  ASSUME NEW S, NEW q \in Seq(S), Len(q) > 0
  PROVE  /\ Head(q) = q[1] /\ q[1] \in S
         /\ Len(q) # 1 => /\ Tail(q) \in Seq(S) /\ Len(Tail(q)) = Len(q) - 1 /\ Len(q) >= 2
                          /\ \A i \in 1 .. Len(q) - 1 : Tail(q)[i] = q[i + 1]
                          /\ Head(Tail(q)) = q[2]
<1>1. Len(q) \in Nat /\ q # <<>>
  BY EmptySeq
<1>2. q[1] \in S
  BY <1>1
<1>3. \A r \in Seq(S) : Head(r) = r[1]
  OBVIOUS
<1>4. CASE Len(q) # 1
  <2>1. Len(q) >= 2
    <3> DEFINE n == Len(q)
    <3>1. n \in Nat /\ n > 0 /\ n # 1
      BY <1>1, <1>4
    <3> HIDE DEF n
    <3>2. n >= 2
      BY <3>1
    <3> QED
      BY <3>2 DEF n
  <2>2. Tail(q) \in Seq(S) /\ Len(Tail(q)) = Len(q) - 1
    BY <2>1
  <2>3. \A i \in 1 .. Len(q) - 1 : Tail(q)[i] = q[i + 1]
    BY <2>1
  <2> QED
    BY <1>2, <1>3, <2>1, <2>2, <2>3
<1> QED
  BY <1>2, <1>3, <1>4

LEMMA ShapedTail ==
  ASSUME NEW q, NEW op, Shaped(q, op), Len(q) # 1
  PROVE  /\ Shaped(Tail(q), op)
         /\ Head(Tail(q)) \in Reducers => Head(q) = "lastAdmin"
<1>1. /\ Tail(q) \in Seq(Statements) /\ Len(Tail(q)) = Len(q) - 1 /\ Len(q) >= 2 /\ Len(q) \in Nat
      /\ \A i \in 1 .. Len(q) - 1 : Tail(q)[i] = q[i + 1]
      /\ Head(Tail(q)) = q[2] /\ Head(q) = q[1]
  BY Heads DEF Shaped
<1>2. \A i \in 2 .. Len(Tail(q)) : Tail(q)[i] = q[i + 1] /\ Tail(q)[i - 1] = q[i] /\ i + 1 \in 2 .. Len(q)
  BY <1>1
<1> QED
  BY <1>1, <1>2 DEF Shaped

\* The routes without a check.
Plain(q) == q \in Seq(Harmless) /\ Len(q) > 0 /\ q[Len(q)] # "count"

LEMMA Unchecked ==
  /\ \A q \in {<<"secret">>, <<"mint">>, <<"unmint">>, <<"assign">>} : Plain(q)
  /\ \A q \in {<<"session", "clearFailures">>, <<"password", "revokeOthers">>, <<"password", "revoke">>,
              <<"disableMfa", "dropCodes">>, <<"dropCodes", "addCodes">>} :
       Plain(q)
  /\ \A q \in {<<"enableMfa", "dropCodes", "addCodes">>, <<"count", "insert", "assign">>} :
       Plain(q)
  /\ LET q == <<"count", "insert", "assign", "session">> IN Plain(q)
<1>1. /\ "session" \in Harmless /\ "clearFailures" \in Harmless /\ "count" \in Harmless
      /\ "insert" \in Harmless /\ "assign" \in Harmless /\ "password" \in Harmless
      /\ "revokeOthers" \in Harmless /\ "secret" \in Harmless /\ "enableMfa" \in Harmless
      /\ "disableMfa" \in Harmless /\ "dropCodes" \in Harmless /\ "addCodes" \in Harmless
      /\ "mint" \in Harmless /\ "unmint" \in Harmless /\ "revoke" \in Harmless
  BY DEF Harmless
<1> QED
  BY <1>1 DEF Plain

LEMMA ShapedHarmless ==
  ASSUME NEW q, Plain(q), NEW op
  PROVE  Shaped(q, op) /\ Head(q) \notin Reducers
<1>1. \A i \in 1 .. Len(q) : q[i] \in Harmless
  BY DEF Plain
<1>2. q \in Seq(Statements)
  BY SeqMonotonic DEF Statements, Plain
<1>3. Head(q) \in Harmless
  BY Heads DEF Plain
<1> QED
  BY <1>1, <1>2, <1>3 DEF Shaped, Harmless, Reducers, Plain

Ops == DOMAIN Plan

LEMMA Routes ==
  /\ AdminOps = {"createUser", "resetPassword", "disable", "enable", "addRole", "removeRole",
                 "deleteUser", "resetMfa"}
  /\ SelfOps = {"changePassword", "mfaSetup", "mfaEnable", "mfaDisable", "regenerate",
                "createToken", "deleteToken"}
  /\ Ops = AdminOps \cup SelfOps \cup {"login", "register"}
<1>1. DOMAIN SignInPlan = {"login", "register"}
  BY DEF SignInPlan
<1>2. SelfOps = {"changePassword", "mfaSetup", "mfaEnable", "mfaDisable", "regenerate",
                 "createToken", "deleteToken"}
  BY DEF SelfOps, SelfPlan
<1>3. AdminOps = {"createUser", "resetPassword", "disable", "enable", "addRole", "removeRole",
                  "deleteUser", "resetMfa"}
  BY DEF AdminOps, AdminPlan
<1> QED
  BY <1>1, <1>2, <1>3 DEF Ops, Plan

\* Every route starts with a statement that takes nobody away.
LEMMA PlansShaped ==
  ASSUME NEW op \in Ops
  PROVE  Shaped(Plan[op], op) /\ Head(Plan[op]) \notin Reducers
<1>1. CASE op \in {"login", "register"}
  <2>1. Plan[op] = SignInPlan[op]
    BY <1>1, Routes DEF Plan, Ops
  <2>2. Plan[op] \in {<<"session", "clearFailures">>, <<"count", "insert", "assign", "session">>}
    BY <1>1, <2>1 DEF SignInPlan
  <2>3. Plain(Plan[op])
    BY <2>2, Unchecked
  <2> QED
    BY <2>3, ShapedHarmless
<1>2. CASE op \in SelfOps
  <2>1. Plan[op] = SelfPlan[op]
    BY <1>2, Routes DEF Plan, Ops
  <2>2. \/ Plan[op] \in {<<"secret">>, <<"mint">>, <<"unmint">>}
        \/ Plan[op] \in {<<"password", "revokeOthers">>, <<"disableMfa", "dropCodes">>,
                         <<"dropCodes", "addCodes">>}
        \/ Plan[op] = <<"enableMfa", "dropCodes", "addCodes">>
    BY <1>2, <2>1, Routes DEF SelfPlan
  <2>3. Plain(Plan[op])
    BY <2>2, Unchecked
  <2> QED
    BY <2>3, ShapedHarmless
<1>3. CASE op \in AdminOps
  <2>1. Plan[op] = AdminPlan[op]
    BY <1>3, Routes DEF Plan, Ops
  <2>2. CASE op \in {"createUser", "resetPassword", "addRole", "resetMfa"}
    <3>1. Plan[op] \in {<<"count", "insert", "assign">>, <<"password", "revoke">>, <<"assign">>,
                        <<"disableMfa", "dropCodes">>}
      BY <2>1, <2>2 DEF AdminPlan, Revoking
    <3>2. Plain(Plan[op])
      BY <3>1, Unchecked
    <3> QED
      BY <3>2, ShapedHarmless
  <2>3. CASE op = "enable"
    <3> DEFINE q == <<"enable">>
    <3>1. Plan[op] = q /\ Len(q) = 1 /\ q[1] = "enable" /\ q \in Seq(Statements)
      BY <2>1, <2>3 DEF AdminPlan, Statements
    <3> QED
      BY <2>3, <3>1, Heads DEF Shaped, Reducers
  <2>4. CASE op = "deleteUser"
    <3> DEFINE q == <<"lastAdmin", "delete">>
    <3>1. /\ Plan[op] = q /\ Len(q) = 2 /\ q[1] = "lastAdmin" /\ q[2] = "delete"
          /\ q \in Seq(Statements)
      BY <2>1, <2>4 DEF AdminPlan, Statements, Reducers
    <3> HIDE DEF q
    <3> QED
      BY <1>3, <2>4, <3>1, Heads DEF Shaped, Reducers
  <2>5. CASE op \in {"disable", "removeRole"}
    <3> DEFINE x == IF op = "disable" THEN "disable" ELSE "unassign"
               q == <<"lastAdmin">> \o <<x, "revoke">>
    <3>1. Plan[op] = q
      BY <2>1, <2>5 DEF AdminPlan, Revoking
    <3>2. /\ <<"lastAdmin">> \in Seq(Statements) /\ Len(<<"lastAdmin">>) = 1
          /\ <<x, "revoke">> \in Seq(Statements) /\ Len(<<x, "revoke">>) = 2
      BY DEF Statements, Reducers, Harmless
    <3>3. /\ q \in Seq(Statements) /\ Len(q) = 3
          /\ \A i \in 1 .. 3 : q[i] = IF i <= 1 THEN <<"lastAdmin">>[i] ELSE <<x, "revoke">>[i - 1]
      BY <3>2, ConcatProperties
    <3>4. q[1] = "lastAdmin" /\ q[2] = x /\ q[3] = "revoke"
      BY <3>3
    <3> HIDE DEF q
    <3> QED
      BY <1>3, <2>5, <3>1, <3>3, <3>4, Heads DEF Shaped, Reducers
  <2> QED
    BY <1>3, <2>2, <2>3, <2>4, <2>5, Routes
<1> QED
  BY <1>1, <1>2, <1>3, Routes

-----------------------------------------------------------------------------
(* The last admin: what handlers know.                                     *)

Calls == [op: Ops \cup {None}, st: {"idle", "resolved", "doing", "password", "unknown"},
          user: User \cup {None}, n: Nat, on: User \cup {None}, role: Role \cup {None},
          era: Nat, mfa: {"off", "pending", "on", None}, todo: Seq(Statements)]

\* A handler works off its plan, for an account.
CallOK(c) ==
  /\ c \in Calls
  /\ c.st = "resolved" => c.op \in SelfOps \cup AdminOps /\ c.user \in User /\ c.on \in User
  /\ c.st \in {"password", "unknown"} => c.op = "login" /\ c.on \in User
  /\ c.st = "doing" => c.op \in Ops /\ c.on \in User /\ Shaped(c.todo, c.op)

Handlers == call \in [Slot -> Calls] /\ \A s \in Slot : CallOK(call[s])

Tables ==
  /\ account \in [User -> Account] /\ roles \in [User -> SUBSET (Role \cup {None})]
  /\ minted \in [User -> Nat] /\ era \in [User -> Nat]
  /\ tokens \subseteq [kind: {"session", "api"}, user: User, n: Nat, era: Nat]

\* Unless two handlers are past the check: one at most is, another active admin
\* is there than the one it is about, and while an admin is served there is one.
Guarded ==
  raced \/ /\ \A s, x \in Slot : MayReduce(s) /\ MayReduce(x) => s = x
           /\ \A s \in Slot : MayReduce(s) => ActiveAdmins \ {call[s].on} # {}
           /\ \A s \in Slot : call[s].st = "doing" /\ call[s].op \in AdminOps => ActiveAdmins # {}

AdminInv == Tables /\ Handlers /\ Guarded

LEMMA IdleOK == CallOK(Idle) /\ Idle.st = "idle"
BY Routes DEF Idle, CallOK, Calls

\* A handler goes on: the others stay where they are, and this one comes to a
\* statement that takes an admin away by the check only.
Onward(s) ==
  /\ \A x \in Slot \ {s} : call'[x] = call[x]
  /\ \/ call'[s] = Idle
     \/ /\ call'[s].st = "doing" /\ call'[s].op = call[s].op /\ call'[s].on = call[s].on
        /\ call'[s].role = call[s].role
        /\ Head(call'[s].todo) \in Reducers => Head(call[s].todo) = "lastAdmin"

\* One handler's call changes.
LEMMA OneCall ==
  ASSUME Handlers, NEW s \in Slot, NEW c, CallOK(c), call' = [call EXCEPT ![s] = c]
  PROVE  Handlers' /\ call'[s] = c /\ \A x \in Slot \ {s} : call'[x] = call[x]
BY DEF Handlers, CallOK

LEMMA Onwards ==
  ASSUME Handlers, NEW s \in Slot, call[s].st = "doing", Proceed(s) \/ Answer(s)
  PROVE  Handlers' /\ Onward(s)
<1>1. CASE Answer(s) \/ (Proceed(s) /\ Len(call[s].todo) = 1)
  <2>1. call' = [call EXCEPT ![s] = Idle]
    BY <1>1 DEF Proceed, Answer
  <2> QED
    BY <2>1, IdleOK, OneCall DEF Onward
<1>2. CASE Proceed(s) /\ Len(call[s].todo) # 1
  <2> DEFINE c == [call[s] EXCEPT !.todo = Tail(@)]
  <2>1. call' = [call EXCEPT ![s] = c]
    BY <1>2 DEF Proceed
  <2>2. CallOK(call[s]) /\ Shaped(call[s].todo, call[s].op) /\ call[s] \in Calls
    BY DEF Handlers, CallOK
  <2>3. /\ Shaped(Tail(call[s].todo), call[s].op)
        /\ Head(Tail(call[s].todo)) \in Reducers => Head(call[s].todo) = "lastAdmin"
    BY <1>2, <2>2, ShapedTail
  <2>4. Tail(call[s].todo) \in Seq(Statements)
    BY <2>3 DEF Shaped
  <2>5. /\ c \in Calls /\ c.todo = Tail(call[s].todo) /\ c.st = call[s].st /\ c.op = call[s].op
        /\ c.on = call[s].on /\ c.role = call[s].role /\ c.user = call[s].user
    BY <2>2, <2>4 DEF Calls
  <2>6. CallOK(c)
    BY <2>2, <2>3, <2>5 DEF CallOK
  <2> HIDE DEF c
  <2> QED
    BY <2>1, <2>3, <2>5, <2>6, OneCall DEF Onward
<1> QED
  BY <1>1, <1>2

\* Nobody is taken away, and nobody gets past the check.
LEMMA Grows ==
  ASSUME Guarded, NEW s \in Slot, ActiveAdmins \subseteq ActiveAdmins', raced' = raced,
         \A x \in Slot \ {s} : call'[x] = call[x], ~ MayReduce(s)',
         call'[s].st = "doing" /\ call'[s].op \in AdminOps => ActiveAdmins' # {} \/ raced
  PROVE  Guarded' /\ (ActiveAdmins # {} => ActiveAdmins' # {} \/ raced')
<1>1. \A x \in Slot \ {s} : MayReduce(x)' = MayReduce(x)
  BY DEF MayReduce, Runs
<1> QED
  BY <1>1 DEF Guarded

\* The one handler past the check takes its account away, and no other.
LEMMA Reduces ==
  ASSUME Guarded, NEW s \in Slot, MayReduce(s), ActiveAdmins \ {call[s].on} \subseteq ActiveAdmins',
         raced' = raced, \A x \in Slot \ {s} : call'[x] = call[x], ~ MayReduce(s)'
  PROVE  Guarded' /\ (ActiveAdmins' # {} \/ raced')
<1>1. \A x \in Slot \ {s} : MayReduce(x)' = MayReduce(x)
  BY DEF MayReduce, Runs
<1> QED
  BY <1>1 DEF Guarded
-----------------------------------------------------------------------------
(* The last admin: every step.                                             *)

Stays == ActiveAdmins # {} => ActiveAdmins' # {} \/ raced'

\* A statement after which nobody is missing.
LEMMA Quiet ==
  ASSUME AdminInv, NEW s \in Slot, call[s].st = "doing", Head(call[s].todo) # "lastAdmin",
         Proceed(s) \/ Answer(s), ActiveAdmins \subseteq ActiveAdmins', raced' = raced
  PROVE  Handlers' /\ Guarded' /\ Stays
<1>1. Handlers' /\ Onward(s)
  BY Onwards DEF AdminInv
<1>2. ~ MayReduce(s)'
  BY <1>1 DEF Onward, MayReduce, Runs, Reducers, Idle
<1>3. call'[s].st = "doing" /\ call'[s].op \in AdminOps => ActiveAdmins' # {} \/ raced
  BY <1>1 DEF Onward, Idle, AdminInv, Guarded
<1>4. \A x \in Slot \ {s} : call'[x] = call[x]
  BY <1>1 DEF Onward
<1> QED
  BY <1>1, <1>2, <1>3, <1>4, Grows DEF AdminInv, Stays

\* One that takes the account of the handler past the check.
LEMMA Taken ==
  ASSUME AdminInv, NEW s \in Slot, MayReduce(s), Proceed(s) \/ Answer(s),
         ActiveAdmins \ {call[s].on} \subseteq ActiveAdmins', raced' = raced
  PROVE  Handlers' /\ Guarded' /\ Stays
<1>1. Handlers' /\ Onward(s)
  BY Onwards DEF AdminInv, MayReduce, Runs
<1>2. ~ MayReduce(s)'
  BY <1>1 DEF Onward, MayReduce, Runs, Reducers, Idle
<1>3. \A x \in Slot \ {s} : call'[x] = call[x]
  BY <1>1 DEF Onward
<1> QED
  BY <1>1, <1>2, <1>3, Reduces DEF AdminInv, Stays

\* A handler is given, or goes on to, a call in which it takes nobody away.
LEMMA Takes ==
  ASSUME AdminInv, NEW s \in Slot, NEW c, CallOK(c), call' = [call EXCEPT ![s] = c],
         UNCHANGED <<account, roles, raced>>,
         c.st = "doing" => Head(c.todo) \notin Reducers,
         c.st = "doing" /\ c.op \in AdminOps => ActiveAdmins # {} \/ raced
  PROVE  Handlers' /\ Guarded' /\ Stays
<1>1. Handlers' /\ call'[s] = c /\ \A x \in Slot \ {s} : call'[x] = call[x]
  BY OneCall DEF AdminInv
<1>2. ActiveAdmins' = ActiveAdmins
  BY DEF ActiveAdmins
<1>3. ~ MayReduce(s)'
  BY <1>1 DEF MayReduce, Runs, Reducers
<1> QED
  BY <1>1, <1>2, <1>3, Grows DEF AdminInv, Stays

\* The same while no handler does anything.
LEMMA Unserved ==
  ASSUME AdminInv, UNCHANGED <<account, roles, call, raced>>
  PROVE  Handlers' /\ Guarded' /\ Stays
<1>1. ActiveAdmins' = ActiveAdmins
  BY DEF ActiveAdmins
<1>2. \A s \in Slot : MayReduce(s)' = MayReduce(s)
  BY DEF MayReduce, Runs
<1>3. Handlers'
  BY DEF AdminInv, Handlers, CallOK
<1> QED
  BY <1>1, <1>2, <1>3 DEF AdminInv, Guarded, Stays

\* New requests.
LEMMA RequestsKeep ==
  ASSUME AdminInv, NEW s \in Slot, Requests(s)
  PROVE  Handlers' /\ Guarded' /\ Stays
<1>1. ASSUME NEW u \in User, NEW r \in Role, NEW op \in AdminOps \cup SelfOps, NEW t \in tokens,
             Present(s, op, t, u, r)
      PROVE  Handlers' /\ Guarded' /\ Stays
  <2> DEFINE on == IF op \in AdminOps THEN u ELSE t.user
             role == IF op \in {"addRole", "removeRole", "createUser"} THEN r ELSE None
             c == [Idle EXCEPT !.op = op, !.st = "resolved", !.user = t.user, !.n = t.n,
                               !.on = on, !.role = role]
  <2>1. call' = [call EXCEPT ![s] = c] /\ UNCHANGED <<account, roles, raced>>
    BY <1>1 DEF Present, Start, tables, history
  <2>2. t.user \in User /\ t.n \in Nat
    BY DEF AdminInv, Tables
  <2>3. on \in User /\ role \in Role \cup {None} /\ op \in Ops
    BY <2>2, Routes
  <2> HIDE DEF on, role
  <2>4. c \in Calls /\ c.st = "resolved" /\ c.op = op /\ c.user = t.user /\ c.on = on
    BY <2>2, <2>3, IdleOK DEF CallOK, Calls, Idle
  <2>5. CallOK(c)
    BY <2>2, <2>3, <2>4 DEF CallOK
  <2> HIDE DEF c
  <2> QED
    BY <2>1, <2>4, <2>5, Takes
<1>2. ASSUME NEW u \in User, ReadRow(s, u)
      PROVE  Handlers' /\ Guarded' /\ Stays
  <2> DEFINE c == [Idle EXCEPT !.op = "login", !.on = u, !.era = era[u], !.mfa = account[u].mfa,
                               !.st = IF account[u].status = "active" THEN "password" ELSE "unknown"]
  <2>1. call' = [call EXCEPT ![s] = c] /\ UNCHANGED <<account, roles, raced>>
    BY <1>2 DEF ReadRow, Start, tables, history
  <2>2. era[u] \in Nat /\ account[u].mfa \in {"off", "pending", "on"}
    BY DEF AdminInv, Tables, Account
  <2>3. c \in Calls /\ c.st \in {"password", "unknown"} /\ c.op = "login" /\ c.on = u
    BY <2>2, IdleOK, Routes DEF CallOK, Calls, Idle
  <2>4. CallOK(c)
    BY <2>3 DEF CallOK
  <2> HIDE DEF c
  <2> QED
    BY <2>1, <2>3, <2>4, Takes
<1>3. ASSUME NEW u \in User, NEW r \in Role, Register(s, u, r)
      PROVE  Handlers' /\ Guarded' /\ Stays
  <2> DEFINE q == Plan.register
             c == [Idle EXCEPT !.op = "register", !.st = "doing", !.on = u, !.role = r, !.todo = q]
  <2>1. call' = [call EXCEPT ![s] = c] /\ UNCHANGED <<account, roles, raced>>
    BY <1>3 DEF Register, Start, tables, history
  <2>2. Shaped(q, "register") /\ Head(q) \notin Reducers /\ "register" \in Ops /\ "register" \notin AdminOps
    BY PlansShaped, Routes
  <2>3. q \in Seq(Statements)
    BY <2>2 DEF Shaped
  <2> HIDE DEF q
  <2>4. c \in Calls /\ c.st = "doing" /\ c.op = "register" /\ c.on = u /\ c.todo = q
    BY <2>2, <2>3, IdleOK DEF CallOK, Calls, Idle
  <2>5. CallOK(c)
    BY <2>2, <2>4 DEF CallOK
  <2> HIDE DEF c
  <2> QED
    BY <2>1, <2>2, <2>4, <2>5, Takes
<1> QED
  BY <1>1, <1>2, <1>3 DEF Requests

LEMMA AnswersKeep ==
  ASSUME AdminInv, NEW s \in Slot, Answer(s), UNCHANGED <<account, roles, raced>>
  PROVE  Handlers' /\ Guarded' /\ Stays
<1>1. Idle.st # "doing"
  BY IdleOK
<1> QED
  BY <1>1, IdleOK, Takes DEF Answer

\* The guards have passed, or the password: on to the plan.
LEMMA AuthenticateKeeps ==
  ASSUME AdminInv, NEW s \in Slot, Authenticate(s)
  PROVE  Handlers' /\ Guarded' /\ Stays
<1>1. UNCHANGED <<account, roles, raced>>
  BY DEF Authenticate, tables, history
<1>2. CASE Answer(s)
  BY <1>1, <1>2, AnswersKeep
<1>3. CASE ~ Answer(s)
  <2> DEFINE d == call[s]
             n == IF d.op = "changePassword" THEN d.n ELSE 0
             role == IF d.op = "deleteToken" /\ "admin" \in roles[d.user] THEN "admin" ELSE d.role
             q == Plan[d.op]
             c == [d EXCEPT !.st = "doing", !.todo = q, !.user = None, !.n = n, !.role = role]
  <2>1. call' = [call EXCEPT ![s] = c] /\ Allowed(d.op, d.user, d.on) /\ d.st = "resolved"
    BY <1>3 DEF Authenticate
  <2>2. d \in Calls /\ d.op \in SelfOps \cup AdminOps /\ d.op \in Ops /\ d.user \in User /\ d.on \in User
    BY <2>1, Routes DEF AdminInv, Handlers, CallOK
  <2>3. Shaped(q, d.op) /\ Head(q) \notin Reducers
    BY <2>2, PlansShaped
  <2>4. q \in Seq(Statements)
    BY <2>3 DEF Shaped
  <2>5. n \in Nat /\ role \in Role \cup {None}
    BY <2>2 DEF Calls, Role
  <2>6. d.op \in AdminOps => ActiveAdmins # {}
    BY <2>1, <2>2 DEF Allowed, ActiveAdmins
  <2> HIDE DEF n, role, q
  <2>7. c \in Calls /\ c.st = "doing" /\ c.op = d.op /\ c.on = d.on /\ c.todo = q
    BY <2>2, <2>4, <2>5 DEF Calls
  <2>8. CallOK(c)
    BY <2>2, <2>3, <2>7 DEF CallOK
  <2> HIDE DEF c
  <2> QED
    BY <1>1, <2>1, <2>3, <2>6, <2>7, <2>8, Takes
<1> QED
  BY <1>2, <1>3

LEMMA GoodCredentialsKeep ==
  ASSUME AdminInv, NEW s \in Slot, GoodCredentials(s)
  PROVE  Handlers' /\ Guarded' /\ Stays
<1> DEFINE q == Plan.login
           c == [call[s] EXCEPT !.st = "doing", !.todo = q]
<1>1. /\ call' = [call EXCEPT ![s] = c] /\ call[s].st = "password"
      /\ UNCHANGED <<account, roles, raced>>
  BY DEF GoodCredentials, AdminInv, Handlers
<1>2. call[s] \in Calls /\ call[s].op = "login" /\ call[s].on \in User
  BY <1>1 DEF AdminInv, Handlers, CallOK
<1>3. Shaped(q, "login") /\ Head(q) \notin Reducers /\ "login" \in Ops /\ "login" \notin AdminOps
  BY PlansShaped, Routes
<1>4. q \in Seq(Statements)
  BY <1>3 DEF Shaped
<1> HIDE DEF q
<1>5. c \in Calls /\ c.st = "doing" /\ c.op = "login" /\ c.on = call[s].on /\ c.todo = q
  BY <1>2, <1>4 DEF Calls
<1>6. CallOK(c)
  BY <1>2, <1>3, <1>5 DEF CallOK
<1> HIDE DEF c
<1> QED
  BY <1>1, <1>3, <1>5, <1>6, Takes
\* assertNotLastAdmin: with nobody else past it, there is another active admin.
LEMMA CheckKeeps ==
  ASSUME AdminInv, NEW s \in Slot, AssertNotLastAdmin(s)
  PROVE  Handlers' /\ Guarded' /\ Stays
<1> DEFINE on == call[s].on
<1>1. UNCHANGED <<account, roles>> /\ ActiveAdmins' = ActiveAdmins
  BY DEF AssertNotLastAdmin, tables, ActiveAdmins
<1>2. CASE Answer(s) /\ UNCHANGED raced
  BY <1>1, <1>2, AnswersKeep
<1>3. CASE /\ Proceed(s) /\ raced' = (raced \/ \E x \in Slot \ {s} : MayReduce(x))
           /\ ~ (/\ call[s].op = "removeRole" => call[s].role = "admin"
                 /\ "admin" \in roles[on] /\ CountAdmins(on) = 0)
  <2>1. call[s].st = "doing" /\ Head(call[s].todo) = "lastAdmin"
    BY DEF AssertNotLastAdmin, Runs
  <2>2. Handlers' /\ Onward(s)
    BY <1>3, <2>1, Onwards DEF AdminInv
  <2>3. \A x \in Slot \ {s} : MayReduce(x)' = MayReduce(x) /\ call'[x] = call[x]
    BY <2>2 DEF Onward, MayReduce, Runs
  <2>4. CASE raced'
    BY <1>1, <2>2, <2>4 DEF Guarded, Stays
  <2>5. CASE ~ raced'
    <3>1. ~ raced /\ \A x \in Slot \ {s} : ~ MayReduce(x)'
      BY <1>3, <2>3, <2>5
    <3>2. Shaped(call[s].todo, call[s].op)
      BY <2>1 DEF AdminInv, Handlers, CallOK
    <3>3. call[s].todo[1] = "lastAdmin" /\ 1 \in 1 .. Len(call[s].todo)
      BY <2>1, <3>2, Heads DEF Shaped
    <3>4. ActiveAdmins # {}
      BY <2>1, <3>1, <3>2, <3>3 DEF Shaped, AdminInv, Guarded
    <3>5. ASSUME MayReduce(s)' PROVE ActiveAdmins \ {on} # {} /\ call'[s].on = on
      <4>1. /\ call'[s].st = "doing" /\ call'[s].op = call[s].op /\ call'[s].on = on
            /\ call'[s].role = call[s].role
        BY <2>2, <3>5, IdleOK DEF Onward, MayReduce, Runs
      <4>2. Shaped(call'[s].todo, call[s].op)
        BY <2>2, <4>1 DEF Handlers, CallOK
      <4>3. Head(call'[s].todo) = call'[s].todo[1] /\ 1 \in 1 .. Len(call'[s].todo)
        BY <4>2, Heads DEF Shaped
      <4>4. Head(call'[s].todo) \in {"disable", "delete"} => call[s].op # "removeRole"
        BY <4>2, <4>3 DEF Shaped
      <4>5. call[s].op = "removeRole" => call[s].role = "admin"
        BY <3>5, <4>1, <4>4 DEF MayReduce, Runs
      <4>6. "admin" \notin roles[on] \/ CountAdmins(on) # 0
        BY <1>3, <4>5
      <4>7. CASE "admin" \notin roles[on]
        BY <3>4, <4>1, <4>7 DEF ActiveAdmins
      <4>8. CASE CountAdmins(on) # 0
        BY <4>1, <4>8, FS_EmptySet DEF CountAdmins
      <4> QED
        BY <4>6, <4>7, <4>8
    <3> QED
      BY <1>1, <2>2, <3>1, <3>4, <3>5 DEF Guarded, Stays
  <2> QED
    BY <2>4, <2>5
<1> QED
  BY <1>2, <1>3 DEF AssertNotLastAdmin

LEMMA CountKeeps ==
  ASSUME AdminInv, NEW s \in Slot, CountUsers(s)
  PROVE  Handlers' /\ Guarded' /\ Stays
<1> DEFINE d == call[s]
           role == IF \E u \in User : Exists(u) THEN d.role ELSE "admin"
           q == Tail(d.todo)
           c == [d EXCEPT !.todo = q, !.role = role]
<1>1. d.st = "doing" /\ Head(d.todo) = "count" /\ UNCHANGED <<account, roles, raced>>
  BY DEF CountUsers, Runs, tables, history
<1>2. d \in Calls /\ d.op \in Ops /\ d.on \in User /\ Shaped(d.todo, d.op)
  BY <1>1 DEF AdminInv, Handlers, CallOK
<1>3. call' = [call EXCEPT ![s] = c]
  BY DEF CountUsers, AdminInv, Handlers
<1>4. d.todo[1] = "count" /\ Len(d.todo) # 1
  BY <1>1, <1>2, Heads DEF Shaped
<1>5. Shaped(q, d.op) /\ Head(q) \notin Reducers
  BY <1>1, <1>2, <1>4, ShapedTail
<1>6. q \in Seq(Statements) /\ role \in Role \cup {None}
  BY <1>2, <1>5 DEF Shaped, Calls, Role
<1>7. d.op \in AdminOps => ActiveAdmins # {} \/ raced
  BY <1>1 DEF AdminInv, Guarded
<1> HIDE DEF role, q
<1>8. c \in Calls /\ c.st = "doing" /\ c.op = d.op /\ c.on = d.on /\ c.todo = q
  BY <1>1, <1>2, <1>6 DEF Calls
<1>9. CallOK(c)
  BY <1>2, <1>5, <1>8 DEF CallOK
<1> HIDE DEF c
<1> QED
  BY <1>1, <1>3, <1>5, <1>7, <1>8, <1>9, Takes

\* The statements that write a status, a role or a second factor.
LEMMA WritesKeep ==
  ASSUME AdminInv, NEW s \in Slot,
         \/ SetStatus(s) \/ RevokeRole(s) \/ DeleteUser(s)
         \/ InsertUser(s) \/ AssignRole(s) \/ UpdateMfa(s)
  PROVE  Handlers' /\ Guarded' /\ Stays
<1> DEFINE on == call[s].on
<1>1. call[s].st = "doing" /\ Head(call[s].todo) # "lastAdmin" /\ raced' = raced
  BY DEF SetStatus, RevokeRole, DeleteUser, InsertUser, AssignRole, UpdateMfa, Runs, MfaOf, Changed, history
<1>2. Proceed(s) \/ Answer(s)
  BY DEF SetStatus, RevokeRole, DeleteUser, InsertUser, AssignRole, UpdateMfa
<1>3. on \in User /\ Shaped(call[s].todo, call[s].op)
  BY <1>1 DEF AdminInv, Handlers, CallOK
<1>4. account \in [User -> Account] /\ roles \in [User -> SUBSET (Role \cup {None})]
  BY DEF AdminInv, Tables
<1>5. \A u \in User \ {on} : u \in ActiveAdmins => u \in ActiveAdmins'
  BY <1>3, <1>4 DEF ActiveAdmins, SetStatus, RevokeRole, DeleteUser, InsertUser, AssignRole, UpdateMfa,
                    SetAccount
<1>6. ActiveAdmins \ {on} \subseteq ActiveAdmins'
  BY <1>5 DEF ActiveAdmins
<1>7. CASE MayReduce(s)
  BY <1>1, <1>2, <1>6, <1>7, Taken
<1>8. CASE ~ MayReduce(s)
  <2>1. on \in ActiveAdmins => on \in ActiveAdmins'
    <3>1. CASE SetStatus(s)
      <4>1. Runs(s, "enable")
        BY <1>8, <3>1 DEF SetStatus, MayReduce
      <4>2. call[s].todo[1] = "enable" /\ 1 \in 1 .. Len(call[s].todo)
        BY <1>3, <4>1, Heads DEF Shaped, Runs
      <4>3. call[s].op # "disable"
        BY <1>3, <4>2 DEF Shaped
      <4> QED
        BY <1>3, <1>4, <3>1, <4>3 DEF SetStatus, SetAccount, ActiveAdmins, Account
    <3>2. CASE RevokeRole(s)
      BY <1>3, <1>4, <1>8, <3>2 DEF RevokeRole, MayReduce, ActiveAdmins
    <3>3. CASE InsertUser(s) \/ AssignRole(s)
      BY <1>3, <1>4, <3>3 DEF InsertUser, AssignRole, SetAccount, ActiveAdmins, Account
    <3>4. CASE UpdateMfa(s)
      BY <1>3, <1>4, <3>4 DEF UpdateMfa, ActiveAdmins, Account
    <3> QED
      BY <1>8, <3>1, <3>2, <3>3, <3>4 DEF DeleteUser, MayReduce
  <2> QED
    BY <1>1, <1>2, <1>6, <2>1, Quiet
<1> QED
  BY <1>7, <1>8

\* The rest leave accounts and roles alone.
LEMMA OthersKeep ==
  ASSUME AdminInv, NEW s \in Slot,
         \/ SetPassword(s) \/ RevokeSessions(s) \/ IssueToken(s) \/ DeleteToken(s)
         \/ ClearLoginFailures(s) \/ DropCodes(s) \/ AddCodes(s)
  PROVE  Handlers' /\ Guarded' /\ Stays
<1>1. call[s].st = "doing" /\ Head(call[s].todo) # "lastAdmin" /\ (Proceed(s) \/ Answer(s))
  BY DEF SetPassword, RevokeSessions, IssueToken, DeleteToken, ClearLoginFailures, DropCodes, AddCodes, Runs
<1>2. UNCHANGED <<account, roles, raced>>
  BY DEF SetPassword, RevokeSessions, IssueToken, DeleteToken, ClearLoginFailures, DropCodes, AddCodes,
         Changed, tables, history
<1>3. ActiveAdmins' = ActiveAdmins
  BY <1>2 DEF ActiveAdmins
<1> QED
  BY <1>1, <1>2, <1>3, Quiet
\* The step of a statement.
LEMMA StatementsKeep ==
  ASSUME AdminInv, NEW s \in Slot, Statement(s)
  PROVE  Handlers' /\ Guarded' /\ Stays
BY CheckKeeps, CountKeeps, WritesKeep, OthersKeep DEF Statement

\* The tables keep their types.
LEMMA TablesKept ==
  ASSUME AdminInv, Next
  PROVE  Tables'
<1> USE DEF AdminInv, Tables
<1>1. ASSUME NEW s \in Slot, Requests(s) \/ Authenticate(s) \/ MfaRequired(s) \/ AssertNotLastAdmin(s)
                             \/ CountUsers(s) \/ Fail(s) \/ ClearLoginFailures(s) \/ DropCodes(s)
                             \/ AddCodes(s) \/ BadCredentials(s) \/ GoodCredentials(s)
      PROVE  Tables'
  <2>1. UNCHANGED <<account, roles, minted, era, tokens>>
    BY <1>1 DEF Requests, Present, ReadRow, Register, Authenticate, MfaRequired, AssertNotLastAdmin,
                CountUsers, Fail, ClearLoginFailures, DropCodes, AddCodes, BadCredentials,
                GoodCredentials, tables, history
  <2> QED
    BY <2>1
<1>2. ASSUME NEW s \in Slot, SetPassword(s) \/ SetStatus(s) \/ RevokeRole(s)
      PROVE  Tables'
  <2>1. UNCHANGED <<minted, tokens>>
    BY <1>2 DEF SetPassword, SetStatus, RevokeRole, tables
  <2>2. era' \in [User -> Nat]
    BY <1>2 DEF SetPassword, SetStatus, RevokeRole, Changed, history
  <2>3. account' \in [User -> Account]
    BY <1>2 DEF SetPassword, SetStatus, RevokeRole, SetAccount, tables, Account
  <2>4. roles' \in [User -> SUBSET (Role \cup {None})]
    BY <1>2 DEF SetPassword, SetStatus, RevokeRole, tables
  <2> QED
    BY <2>1, <2>2, <2>3, <2>4
<1>3. ASSUME NEW s \in Slot, RevokeSessions(s) \/ DeleteToken(s)
      PROVE  Tables'
  <2>1. UNCHANGED <<account, roles, minted, era>>
    BY <1>3 DEF RevokeSessions, DeleteToken, history
  <2>2. CASE DeleteToken(s)
    BY <2>1, <2>2 DEF DeleteToken
  <2>3. CASE RevokeSessions(s)
    <3>1. call[s].on \in User
      BY <2>3 DEF RevokeSessions, Runs, Handlers, CallOK
    <3>2. era[call[s].on] \in Nat
      BY <3>1
    <3>3. \A t \in Kept(s) : [t EXCEPT !.era = era[call[s].on]]
                               \in [kind: {"session", "api"}, user: User, n: Nat, era: Nat]
      BY <3>2 DEF Kept
    <3> QED
      BY <2>1, <2>3, <3>3 DEF RevokeSessions
  <2> QED
    BY <1>3, <2>2, <2>3
<1>4. ASSUME NEW s \in Slot, IssueToken(s)
      PROVE  Tables'
  <2> DEFINE u == call[s].on
             more == [kind |-> IF Runs(s, "mint") THEN "api" ELSE "session",
                      user |-> u, n |-> minted[u] + 1, era |-> call[s].era]
  <2>1. UNCHANGED <<account, roles, era>>
    BY <1>4 DEF IssueToken, history
  <2>2. u \in User /\ call[s].era \in Nat
    BY <1>4 DEF IssueToken, Runs, Handlers, CallOK, Calls
  <2>3. more \in [kind: {"session", "api"}, user: User, n: Nat, era: Nat]
    BY <2>2
  <2>4. minted' \in [User -> Nat]
    BY <1>4, <2>2 DEF IssueToken
  <2>5. tokens' \subseteq tokens \cup {more}
    BY <1>4 DEF IssueToken
  <2> QED
    BY <2>1, <2>3, <2>4, <2>5
<1>5. ASSUME NEW s \in Slot, DeleteUser(s) \/ InsertUser(s) \/ AssignRole(s) \/ UpdateMfa(s)
      PROVE  Tables'
  <2>1. UNCHANGED <<minted, era>> /\ tokens' \subseteq tokens
    BY <1>5 DEF DeleteUser, InsertUser, AssignRole, UpdateMfa, history
  <2>2. account' \in [User -> Account]
    BY <1>5 DEF DeleteUser, InsertUser, AssignRole, UpdateMfa, SetAccount, Account, MfaOf
  <2>3. roles' \in [User -> SUBSET (Role \cup {None})]
    <3>1. CASE AssignRole(s)
      <4> DEFINE role == call[s].role
      <4>1. role \in Role \cup {None}
        BY <3>1 DEF AssignRole, Runs, Handlers, CallOK, Calls
      <4>2. roles' = [roles EXCEPT ![call[s].on] = @ \cup {role}] \/ UNCHANGED roles
        BY <3>1 DEF AssignRole
      <4> HIDE DEF role
      <4> QED
        BY <4>1, <4>2
    <3> QED
      BY <1>5, <3>1 DEF DeleteUser, InsertUser, UpdateMfa
  <2> QED
    BY <2>1, <2>2, <2>3
<1>6. ASSUME \/ \E t \in tokens : EndSession(t)
             \/ \E u \in User : Forget(u)
      PROVE  Tables'
  BY <1>6 DEF EndSession, Forget, history
<1> QED
  BY <1>1, <1>2, <1>3, <1>4, <1>5, <1>6 DEF Next, Statement

LEMMA AdminsAtFirst == Init => AdminInv
<1>1. SUFFICES ASSUME Init PROVE AdminInv
  OBVIOUS
<1>2. PICK installed \in {{}, Admins \cup Members} :
        /\ account = [u \in User |-> IF u \notin installed THEN NewAccount("none", "off")
                                     ELSE NewAccount("active", IF u \in Members THEN "on" ELSE "off")]
        /\ roles = [u \in User |-> IF u \notin installed THEN {}
                                   ELSE IF u \in Admins THEN {"admin"} ELSE {"editor"}]
        /\ tokens = {[kind |-> "session", user |-> u, n |-> 1, era |-> 0] : u \in installed}
        /\ minted = [u \in User |-> IF u \in installed THEN 1 ELSE 0]
  BY <1>1 DEF Init
<1>3. installed \subseteq User
  BY AccountsAssumption
<1>4. account \in [User -> Account]
  BY <1>2 DEF Account, NewAccount
<1>5. roles \in [User -> SUBSET (Role \cup {None})]
  BY <1>2 DEF Role
<1>6. tokens \subseteq [kind: {"session", "api"}, user: User, n: Nat, era: Nat]
  BY <1>2, <1>3
<1>7. minted \in [User -> Nat] /\ era \in [User -> Nat]
  BY <1>1, <1>2 DEF Init
<1>8. Tables
  BY <1>4, <1>5, <1>6, <1>7 DEF Tables
<1>9. call = [s \in Slot |-> Idle]
  BY <1>1 DEF Init
<1>10. Handlers
  BY <1>9, IdleOK DEF Handlers, CallOK
<1>11. \A s \in Slot : call[s].st # "doing"
  BY <1>9, IdleOK
<1>12. Guarded
  BY <1>11 DEF Guarded, MayReduce, Runs
<1> QED
  BY <1>8, <1>10, <1>12 DEF AdminInv

LEMMA AdminsKept ==
  ASSUME AdminInv, [Next]_vars
  PROVE  AdminInv' /\ Stays
<1>1. ASSUME NEW s \in Slot, BadCredentials(s) \/ MfaRequired(s) \/ Fail(s)
      PROVE  Handlers' /\ Guarded' /\ Stays
  <2>1. Answer(s) /\ UNCHANGED <<account, roles, raced>>
    BY <1>1 DEF BadCredentials, MfaRequired, Fail, tables, history
  <2> QED
    BY <2>1, AnswersKeep
<1>2. ASSUME \/ \E t \in tokens : EndSession(t)
             \/ \E u \in User : Forget(u)
      PROVE  Handlers' /\ Guarded' /\ Stays
  <2>1. UNCHANGED <<account, roles, call, raced>>
    BY <1>2 DEF EndSession, Forget, history
  <2> QED
    BY <2>1, Unserved
<1>3. CASE Next
  <2>1. Handlers' /\ Guarded' /\ Stays
    BY <1>1, <1>2, <1>3, RequestsKeep, AuthenticateKeeps, GoodCredentialsKeep, StatementsKeep DEF Next
  <2>2. Tables'
    BY <1>3, TablesKept
  <2> QED
    BY <2>1, <2>2 DEF AdminInv
<1>4. CASE UNCHANGED vars
  <2>1. UNCHANGED <<account, roles, call, raced, minted, era, tokens>>
    BY <1>4 DEF vars, tables, history
  <2>2. Tables'
    BY <2>1 DEF AdminInv, Tables
  <2> QED
    BY <2>1, <2>2, Unserved DEF AdminInv
<1> QED
  BY <1>3, <1>4

\* assertNotLastAdmin, for any number of accounts, admins, handlers and
\* failures: the last active admin is not disabled, deleted or stripped of the
\* role, unless two handlers passed the check before either of them wrote.
THEOREM AdminsRemain == Spec => AdminRemains
<1>1. Init => AdminInv
  BY AdminsAtFirst
<1>2. AdminInv /\ [Next]_vars => AdminInv'
  BY AdminsKept
<1>3. AdminInv /\ [Next]_vars => [ActiveAdmins # {} => ActiveAdmins' # {} \/ raced']_vars
  BY AdminsKept DEF Stays
<1> QED
  BY <1>1, <1>2, <1>3, PTL DEF Spec, AdminRemains

-----------------------------------------------------------------------------
(* Sessions: what follows in a plan.                                       *)

SignIns == {"login", "register"}
Writes == {"password", "disable", "unassign"}
Revokes == {"revoke", "revokeOthers"}
Changers == {"changePassword", "resetPassword", "disable", "removeRole"}

\* A write that changes an account is followed by the DELETE of its sessions, and
\* only who signs in is given a session.
Follows(q, op) ==
  \A i \in 1 .. Len(q) :
    /\ q[i] \in Writes => op \in Changers /\ i < Len(q) /\ q[i + 1] \in Revokes
    /\ q[i] = "session" => op \in SignIns

LEMMA FollowsTail ==
  ASSUME NEW q \in Seq(Statements), NEW op, Len(q) > 0, Follows(q, op)
  PROVE  /\ Len(q) # 1 => Follows(Tail(q), op)
         /\ Head(q) \in Writes => op \in Changers /\ Len(q) # 1 /\ Head(Tail(q)) \in Revokes
         /\ Head(q) = "session" => op \in SignIns
<1>1. /\ Head(q) = q[1] /\ 1 \in 1 .. Len(q)
      /\ Len(q) # 1 => /\ Len(Tail(q)) = Len(q) - 1 /\ Head(Tail(q)) = q[2]
                       /\ \A i \in 1 .. Len(q) - 1 : Tail(q)[i] = q[i + 1]
  BY Heads
<1>2. ASSUME Len(q) # 1, NEW i \in 1 .. Len(Tail(q))
      PROVE  /\ Tail(q)[i] \in Writes => op \in Changers /\ i < Len(Tail(q)) /\ Tail(q)[i + 1] \in Revokes
             /\ Tail(q)[i] = "session" => op \in SignIns
  <2>1. Tail(q)[i] = q[i + 1] /\ i + 1 \in 1 .. Len(q)
    BY <1>1, <1>2
  <2>2. i + 1 < Len(q) => i < Len(Tail(q)) /\ Tail(q)[i + 1] = q[i + 2]
    BY <1>1, <1>2
  <2> QED
    BY <2>1, <2>2 DEF Follows
<1> QED
  BY <1>1, <1>2 DEF Follows

LEMMA PlansFollow == ASSUME NEW op \in Ops PROVE Follows(Plan[op], op)
<1> USE DEF Follows, Writes, Revokes, SignIns, Changers
<1>1. CASE op \in {"login", "register"}
  <2>1. Plan[op] = SignInPlan[op]
    BY <1>1, Routes DEF Plan, Ops
  <2> QED
    BY <1>1, <2>1 DEF SignInPlan
<1>2. CASE op \in SelfOps
  <2>1. Plan[op] = SelfPlan[op]
    BY <1>2, Routes DEF Plan, Ops
  <2>2. CASE op = "changePassword"
    BY <2>1, <2>2 DEF SelfPlan
  <2>3. CASE op = "mfaEnable"
    BY <2>1, <2>3 DEF SelfPlan
  <2>4. CASE op \in {"mfaSetup", "createToken", "deleteToken"}
    BY <2>1, <2>4 DEF SelfPlan
  <2>5. CASE op = "mfaDisable"
    BY <2>1, <2>5 DEF SelfPlan
  <2>6. CASE op = "regenerate"
    BY <2>1, <2>6 DEF SelfPlan
  <2> QED
    BY <1>2, <2>2, <2>3, <2>4, <2>5, <2>6, Routes
<1>3. CASE op \in AdminOps
  <2>1. Plan[op] = AdminPlan[op]
    BY <1>3, Routes DEF Plan, Ops
  <2>2. CASE op = "resetPassword"
    BY <2>1, <2>2 DEF AdminPlan, Revoking
  <2>3. CASE op \in {"enable", "addRole"}
    BY <2>1, <2>3 DEF AdminPlan
  <2>4. CASE op = "createUser"
    BY <2>1, <2>4 DEF AdminPlan
  <2>5. CASE op = "deleteUser"
    BY <2>1, <2>5 DEF AdminPlan
  <2>6. CASE op \in {"disable", "removeRole"}
    <3> DEFINE x == IF op = "disable" THEN "disable" ELSE "unassign"
               q == <<"lastAdmin">> \o <<x, "revoke">>
    <3>1. Plan[op] = q
      BY <2>1, <2>6 DEF AdminPlan, Revoking
    <3>2. /\ <<"lastAdmin">> \in Seq(Statements) /\ Len(<<"lastAdmin">>) = 1
          /\ <<x, "revoke">> \in Seq(Statements) /\ Len(<<x, "revoke">>) = 2
      BY DEF Statements, Reducers, Harmless
    <3>3. /\ Len(q) = 3
          /\ \A i \in 1 .. 3 : q[i] = IF i <= 1 THEN <<"lastAdmin">>[i] ELSE <<x, "revoke">>[i - 1]
      BY <3>2, ConcatProperties
    <3>4. q[1] = "lastAdmin" /\ q[2] = x /\ q[3] = "revoke"
      BY <3>3
    <3> HIDE DEF q
    <3> QED
      BY <2>6, <3>1, <3>3, <3>4
  <2>7. CASE op = "resetMfa"
    BY <2>1, <2>7 DEF AdminPlan
  <2> QED
    BY <1>3, <2>2, <2>3, <2>4, <2>5, <2>6, <2>7, Routes
<1> QED
  BY <1>1, <1>2, <1>3, Routes

-----------------------------------------------------------------------------
(* Sessions: what handlers know.                                           *)

\* A login carries the password of the account as it is, or is known to be late; a
\* change is about an account that has been there.
Goes(c) ==
  /\ c.st = "doing" => Follows(c.todo, c.op)
  /\ c.st # "idle" /\ c.op \in SignIns => c.era = era[c.on] \/ c.on \in late
  /\ c.st = "resolved" /\ c.op \in SelfOps => c.on = c.user
  /\ c.st = "doing" /\ c.op \in Changers => account[c.on].status # "none"

\* Nothing changes an account before it exists.
Unborn == \A u \in User : account[u].status = "none" => era[u] = 0

SessionInv == (\A s \in Slot : Goes(call[s])) /\ Unborn /\ SessionsFollowChange

\* An account that was there stays known.
Born == \A u \in User : account'[u].status = "none" => account[u].status = "none"

LEMMA IdleGoes == Goes(Idle)
BY IdleOK, Routes DEF Goes, Idle, SignIns, Changers

\* A call that stands for an account of the installation.
LEMMA OnUser ==
  ASSUME NEW c, CallOK(c), c.st # "idle" PROVE c.on \in User
BY DEF CallOK, Calls

\* What a call relies on stays, while no account is changed.
LEMMA GoesStill ==
  ASSUME NEW c, CallOK(c), Goes(c), era' = era, late \subseteq late', Born
  PROVE  Goes(c)'
BY OnUser DEF Goes, Born

\* A step of a handler that changes no account and gives a session only to who is up
\* to date; one past its DELETE has left none that is not.
LEMMA Moves ==
  ASSUME AdminInv, AdminInv', SessionInv, NEW s \in Slot, NEW c, call' = [call EXCEPT ![s] = c],
         Goes(c), era' = era, late \subseteq late', Born,
         \A t \in tokens' : t.kind = "session" =>
           t \in tokens \/ t.era = era[t.user] \/ t.user \in late',
         call[s].st = "doing" /\ Head(call[s].todo) \in Revokes =>
           \A t \in tokens' : t.kind = "session" /\ t.user = call[s].on =>
             t.era = era[t.user] \/ t.user \in late'
  PROVE  SessionInv'
<1>1. call'[s] = c /\ \A x \in Slot \ {s} : call'[x] = call[x]
  BY DEF AdminInv, Handlers
<1>2. \A x \in Slot : CallOK(call[x]) /\ CallOK(call'[x])
  BY DEF AdminInv, Handlers, CallOK
<1>3. ASSUME NEW x \in Slot PROVE Goes(call[x])'
  <2>1. PICK d : d = call'[x]
    OBVIOUS
  <2>2. CallOK(d) /\ Goes(d)
    BY <1>1, <1>2, <2>1 DEF SessionInv
  <2>3. Goes(d)'
    BY <2>2, GoesStill
  <2> QED
    BY <2>1, <2>3 DEF Goes
<1>4. Unborn'
  BY DEF SessionInv, Unborn, Born
<1>5. ASSUME NEW t \in tokens', t.kind = "session", t.era # era'[t.user], t.user \notin late'
      PROVE  RevokeDue(t.user)'
  <2>1. t \in tokens /\ t.user \notin late
    BY <1>5
  <2>2. RevokeDue(t.user)
    BY <1>5, <2>1 DEF SessionInv, SessionsFollowChange
  <2>3. PICK x \in Slot : call[x].on = t.user /\ call[x].st = "doing" /\ Head(call[x].todo) \in Revokes
    BY <2>2 DEF RevokeDue, Revokes
  <2>4. x # s
    BY <1>5, <2>3
  <2> QED
    BY <1>1, <2>3, <2>4 DEF RevokeDue, Revokes
<1>6. SessionsFollowChange'
  BY <1>5 DEF SessionsFollowChange
<1> QED
  BY <1>3, <1>4, <1>6 DEF SessionInv

\* A step that changes an account: its logins are late, and its sessions due to go.
LEMMA Alters ==
  ASSUME AdminInv, AdminInv', SessionInv, NEW s \in Slot, NEW c, call' = [call EXCEPT ![s] = c],
         call[s].st = "doing", call[s].op \in Changers, c.st = "doing", c.op = call[s].op,
         c.on = call[s].on, Follows(c.todo, c.op), Head(c.todo) \in Revokes,
         Changed(call[s].on), Born, tokens' = tokens,
         Head(call[s].todo) \notin Revokes
  PROVE  SessionInv'
<1> DEFINE u == call[s].on
<1>1. call'[s] = c /\ \A x \in Slot \ {s} : call'[x] = call[x]
  BY DEF AdminInv, Handlers
<1>2. \A x \in Slot : CallOK(call[x]) /\ CallOK(call'[x])
  BY DEF AdminInv, Handlers, CallOK
<1>3. u \in User /\ account[u].status # "none"
  BY <1>2, OnUser DEF SessionInv, Goes
<1>4. /\ \A v \in User \ {u} : era'[v] = era[v]
      /\ late \subseteq late' /\ (LoginOf(u) => u \in late')
  BY <1>3 DEF Changed, AdminInv, Tables
<1>5. ASSUME NEW x \in Slot PROVE Goes(call[x])'
  <2>1. CASE x = s
    <3>1. PICK d : d = c
      OBVIOUS
    <3>2. d.op \notin SignIns /\ d.st = "doing" /\ d.on = u /\ Follows(d.todo, d.op) /\ call'[x] = d
      BY <1>1, <2>1, <3>1 DEF Changers, SignIns
    <3>3. account'[d.on].status # "none"
      BY <1>3, <3>2 DEF Born
    <3> QED
      BY <3>2, <3>3 DEF Goes
  <2>2. CASE x # s
    <3>1. PICK d : d = call[x]
      OBVIOUS
    <3>2. call'[x] = d /\ CallOK(d) /\ Goes(d)
      BY <1>1, <1>2, <2>2, <3>1 DEF SessionInv
    <3>3. d.st # "idle" => d.on \in User
      BY <3>2, OnUser
    <3>4. d.st # "idle" /\ d.op \in SignIns => d.era = era'[d.on] \/ d.on \in late'
      BY <1>4, <3>1, <3>2, <3>3 DEF Goes, LoginOf, SignIns
    <3>5. d.st = "doing" /\ d.op \in Changers => account'[d.on].status # "none"
      BY <3>2, <3>3 DEF Goes, Born
    <3> QED
      BY <3>2, <3>4, <3>5 DEF Goes
  <2> QED
    BY <2>1, <2>2
<1>6. Unborn'
  BY <1>3, <1>4 DEF SessionInv, Unborn, Born
<1>7. ASSUME NEW t \in tokens', t.kind = "session"
      PROVE  t.era = era'[t.user] \/ RevokeDue(t.user)' \/ t.user \in late'
  <2>1. t \in tokens /\ t.user \in User
    BY DEF AdminInv, Tables
  <2>2. CASE t.user = u
    BY <1>1, <2>2 DEF RevokeDue, Revokes
  <2>3. CASE t.user # u /\ RevokeDue(t.user)
    <3>1. PICK x \in Slot : call[x].on = t.user /\ call[x].st = "doing" /\ Head(call[x].todo) \in Revokes
      BY <2>3 DEF RevokeDue, Revokes
    <3>2. call'[x] = call[x]
      BY <1>1, <3>1
    <3> QED
      BY <3>1, <3>2 DEF RevokeDue, Revokes
  <2>4. CASE t.user # u /\ ~ RevokeDue(t.user)
    BY <1>4, <1>7, <2>1, <2>4 DEF SessionInv, SessionsFollowChange
  <2> QED
    BY <2>2, <2>3, <2>4
<1>8. SessionsFollowChange'
  BY <1>7 DEF SessionsFollowChange
<1> QED
  BY <1>5, <1>6, <1>8 DEF SessionInv

\* On to the next statement, or the answer.
LEMMA GoesOn ==
  ASSUME AdminInv, SessionInv, NEW s \in Slot, call[s].st = "doing", Proceed(s) \/ Answer(s)
  PROVE  \E c : /\ call' = [call EXCEPT ![s] = c] /\ Goes(c)
                /\ Proceed(s) /\ Head(call[s].todo) \in Writes =>
                     /\ c.st = "doing" /\ c.op = call[s].op /\ c.on = call[s].on
                     /\ call[s].op \in Changers
                     /\ Follows(c.todo, c.op) /\ Head(c.todo) \in Revokes
<1> DEFINE q == call[s].todo
<1>1. /\ q \in Seq(Statements) /\ Len(q) > 0 /\ Follows(q, call[s].op) /\ Goes(call[s])
      /\ call[s] \in Calls
  BY DEF AdminInv, SessionInv, Handlers, CallOK, Shaped, Goes
<1>2. CASE Answer(s) \/ Len(q) = 1
  <2>1. call' = [call EXCEPT ![s] = Idle]
    BY <1>2 DEF Proceed, Answer
  <2>2. CASE Proceed(s) /\ Head(q) \in Writes
    <3>1. Len(q) # 1 /\ call' = [call EXCEPT ![s].todo = Tail(@)]
      BY <1>1, <2>2, FollowsTail DEF Proceed
    <3>2. Idle.st = "idle" /\ call'[s].st = "doing" /\ call'[s] = Idle
      BY <1>1, <2>1, <3>1, IdleOK DEF AdminInv, Handlers, Calls
    <3> QED
      BY <3>2
  <2>3. CASE ~ (Proceed(s) /\ Head(q) \in Writes)
    BY <2>1, <2>3, IdleGoes
  <2> QED
    BY <2>2, <2>3
<1>3. CASE Proceed(s) /\ Len(q) # 1
  <2>1. PICK c : c = [call[s] EXCEPT !.todo = Tail(q)]
    OBVIOUS
  <2>2. call' = [call EXCEPT ![s] = c]
    BY <1>3, <2>1 DEF Proceed
  <2>3. /\ c.todo = Tail(q) /\ c.st = "doing" /\ c.op = call[s].op /\ c.on = call[s].on
        /\ c.era = call[s].era
    BY <1>1, <2>1 DEF Calls
  <2>4. Follows(c.todo, c.op)
    BY <1>1, <1>3, <2>3, FollowsTail
  <2>5. Goes(c)
    BY <1>1, <2>3, <2>4 DEF Goes
  <2>6. Head(q) \in Writes => call[s].op \in Changers /\ Head(c.todo) \in Revokes
    BY <1>1, <2>3, FollowsTail
  <2> QED
    BY <2>2, <2>3, <2>4, <2>5, <2>6
<1> QED
  BY <1>2, <1>3 DEF Proceed

-----------------------------------------------------------------------------
(* Sessions: every step.                                                   *)

LEMMA SessionRequests ==
  ASSUME AdminInv, AdminInv', SessionInv, NEW s \in Slot, Requests(s)
  PROVE  SessionInv'
<1>1. /\ UNCHANGED <<account, tokens, era, late>> /\ call[s] = Idle
  BY DEF Requests, Present, ReadRow, Register, Start, tables, history
<1>2. ASSUME NEW c, call' = [call EXCEPT ![s] = c], Goes(c) PROVE SessionInv'
  BY <1>1, <1>2, IdleOK, Moves DEF Born
<1>3. ASSUME NEW u \in User, NEW r \in Role, NEW op \in AdminOps \cup SelfOps, NEW t \in tokens,
             Present(s, op, t, u, r)
      PROVE  SessionInv'
  <2> DEFINE on == IF op \in AdminOps THEN u ELSE t.user
             role == IF op \in {"addRole", "removeRole", "createUser"} THEN r ELSE None
  <2>1. PICK c : c = [Idle EXCEPT !.op = op, !.st = "resolved", !.user = t.user, !.n = t.n,
                                  !.on = on, !.role = role]
    OBVIOUS
  <2>2. call' = [call EXCEPT ![s] = c]
    BY <1>3, <2>1 DEF Present, Start
  <2>3. c.st = "resolved" /\ c.op = op /\ c.user = t.user /\ c.on = on
    BY <2>1 DEF Idle
  <2>4. op \notin SignIns /\ (op \in SelfOps => on = t.user)
    BY Routes DEF SignIns
  <2>5. Goes(c)
    BY <2>3, <2>4 DEF Goes
  <2> QED
    BY <1>2, <2>2, <2>5
<1>4. ASSUME NEW u \in User, ReadRow(s, u) PROVE SessionInv'
  <2>1. PICK c : c = [Idle EXCEPT !.op = "login", !.on = u, !.era = era[u], !.mfa = account[u].mfa,
                               !.st = IF account[u].status = "active" THEN "password" ELSE "unknown"]
    OBVIOUS
  <2>2. call' = [call EXCEPT ![s] = c]
    BY <1>4, <2>1 DEF ReadRow, Start
  <2>3. c.st \in {"password", "unknown"} /\ c.on = u /\ c.era = era[u]
    BY <2>1 DEF Idle
  <2>4. Goes(c)
    BY <2>3 DEF Goes
  <2> QED
    BY <1>2, <2>2, <2>4
<1>5. ASSUME NEW u \in User, NEW r \in Role, Register(s, u, r) PROVE SessionInv'
  <2> DEFINE q == Plan.register
  <2>1. PICK c : c = [Idle EXCEPT !.op = "register", !.st = "doing", !.on = u, !.role = r, !.todo = q]
    OBVIOUS
  <2>2. call' = [call EXCEPT ![s] = c]
    BY <1>5, <2>1 DEF Register, Start
  <2>3. c.st = "doing" /\ c.op = "register" /\ c.on = u /\ c.era = 0 /\ c.todo = q
    BY <2>1 DEF Idle
  <2>4. era[u] = 0
    BY <1>5 DEF Register, SessionInv, Unborn
  <2>5. Follows(q, "register")
    BY PlansFollow, Routes
  <2>6. Goes(c)
    BY <2>3, <2>4, <2>5 DEF Goes, Changers
  <2> QED
    BY <1>2, <2>2, <2>6
<1> QED
  BY <1>3, <1>4, <1>5 DEF Requests

LEMMA SessionAuthenticate ==
  ASSUME AdminInv, AdminInv', SessionInv, NEW s \in Slot, Authenticate(s)
  PROVE  SessionInv'
<1>1. UNCHANGED <<account, tokens, era, late>> /\ call[s].st = "resolved"
  BY DEF Authenticate, tables, history
<1>2. ASSUME NEW c, call' = [call EXCEPT ![s] = c], Goes(c) PROVE SessionInv'
  BY <1>1, <1>2, Moves DEF Born
<1>3. CASE Answer(s)
  BY <1>2, <1>3, IdleGoes DEF Answer
<1>4. CASE ~ Answer(s)
  <2> DEFINE d == call[s]
             n == IF d.op = "changePassword" THEN d.n ELSE 0
             role == IF d.op = "deleteToken" /\ "admin" \in roles[d.user] THEN "admin" ELSE d.role
  <2>1. PICK c : c = [d EXCEPT !.st = "doing", !.todo = Plan[d.op], !.user = None, !.n = n, !.role = role]
    OBVIOUS
  <2>2. call' = [call EXCEPT ![s] = c] /\ Allowed(d.op, d.user, d.on)
    BY <1>4, <2>1 DEF Authenticate
  <2>3. d \in Calls /\ d.op \in SelfOps \cup AdminOps /\ d.op \in Ops /\ Goes(d)
    BY <1>1, Routes DEF AdminInv, SessionInv, Handlers, CallOK
  <2>4. c.st = "doing" /\ c.op = d.op /\ c.on = d.on /\ c.todo = Plan[d.op]
    BY <2>1, <2>3 DEF Calls
  <2>5. Follows(Plan[d.op], d.op) /\ d.op \notin SignIns
    BY <2>3, PlansFollow, Routes DEF SignIns
  <2>6. ASSUME d.op \in Changers PROVE account[d.on].status # "none"
    <3>1. CASE d.op = "changePassword"
      BY <1>1, <2>2, <2>3, <3>1, Routes DEF Allowed, Goes
    <3>2. CASE d.op # "changePassword"
      BY <2>2, <2>6, <3>2, Routes DEF Allowed, Exists, Changers
    <3> QED
      BY <3>1, <3>2
  <2>7. Goes(c)
    BY <2>4, <2>5, <2>6 DEF Goes
  <2> QED
    BY <1>2, <2>2, <2>7
<1> QED
  BY <1>3, <1>4

LEMMA SessionLogins ==
  ASSUME AdminInv, AdminInv', SessionInv, NEW s \in Slot,
         BadCredentials(s) \/ MfaRequired(s) \/ GoodCredentials(s)
  PROVE  SessionInv'
<1>1. UNCHANGED <<account, tokens, era, late>> /\ call[s].st \in {"password", "unknown"}
  BY DEF BadCredentials, MfaRequired, GoodCredentials, tables, history
<1>2. ASSUME NEW c, call' = [call EXCEPT ![s] = c], Goes(c) PROVE SessionInv'
  BY <1>1, <1>2, Moves DEF Born
<1>3. CASE BadCredentials(s) \/ MfaRequired(s)
  BY <1>2, <1>3, IdleGoes DEF BadCredentials, MfaRequired, Answer
<1>4. CASE GoodCredentials(s)
  <2>1. PICK c : c = [call[s] EXCEPT !.st = "doing", !.todo = Plan.login]
    OBVIOUS
  <2>2. call' = [call EXCEPT ![s] = c]
    BY <1>4, <2>1 DEF GoodCredentials, AdminInv, Handlers
  <2>3. call[s] \in Calls /\ call[s].op = "login" /\ Goes(call[s])
    BY <1>1 DEF AdminInv, SessionInv, Handlers, CallOK
  <2>4. /\ c.st = "doing" /\ c.op = "login" /\ c.on = call[s].on /\ c.era = call[s].era
        /\ c.todo = Plan.login
    BY <2>1, <2>3 DEF Calls
  <2>5. Follows(Plan.login, "login")
    BY PlansFollow, Routes
  <2>6. Goes(c)
    BY <1>1, <2>3, <2>4, <2>5 DEF Goes, Changers
  <2> QED
    BY <1>2, <2>2, <2>6
<1> QED
  BY <1>3, <1>4

\* Statements that neither change an account, nor give a session or end them.
LEMMA SessionQuiet ==
  ASSUME AdminInv, AdminInv', SessionInv, NEW s \in Slot, call[s].st = "doing",
         Proceed(s) \/ Answer(s), Head(call[s].todo) \notin Revokes,
         UNCHANGED <<era, late>>, tokens' \subseteq tokens, Born
  PROVE  SessionInv'
BY GoesOn, Moves

LEMMA SessionChanges ==
  ASSUME AdminInv, AdminInv', SessionInv, NEW s \in Slot,
         SetPassword(s) \/ SetStatus(s) \/ RevokeRole(s)
  PROVE  SessionInv'
<1>1. /\ call[s].st = "doing" /\ call[s].on \in User /\ account \in [User -> Account]
      /\ Shaped(call[s].todo, call[s].op)
  BY DEF SetPassword, SetStatus, RevokeRole, Runs, AdminInv, Handlers, CallOK, Tables
<1>2. tokens' = tokens /\ Head(call[s].todo) \notin Revokes
  BY DEF SetPassword, SetStatus, RevokeRole, Runs, Revokes, tables
<1>3. Born
  BY <1>1 DEF Born, SetPassword, SetStatus, RevokeRole, SetAccount, Exists, Account, tables
<1>4. ASSUME Changed(call[s].on), Proceed(s), Head(call[s].todo) \in Writes PROVE SessionInv'
  BY <1>1, <1>2, <1>3, <1>4, GoesOn, Alters
<1>5. ASSUME UNCHANGED history, Proceed(s) \/ Answer(s) PROVE SessionInv'
  BY <1>1, <1>2, <1>3, <1>5, SessionQuiet DEF history
<1>6. CASE SetPassword(s)
  BY <1>4, <1>6 DEF SetPassword, Runs, Writes
<1>7. CASE SetStatus(s)
  <2>1. CASE Runs(s, "disable")
    BY <1>4, <1>5, <1>7, <2>1 DEF SetStatus, Runs, Writes
  <2>2. CASE Runs(s, "enable")
    <3>1. Head(call[s].todo) = call[s].todo[1] /\ 1 \in 1 .. Len(call[s].todo)
      BY <1>1, Heads DEF Shaped
    <3>2. call[s].op # "disable"
      BY <1>1, <2>2, <3>1 DEF Runs, Shaped
    <3> QED
      BY <1>5, <1>7, <3>2 DEF SetStatus
  <2> QED
    BY <1>7, <2>1, <2>2 DEF SetStatus
<1>8. CASE RevokeRole(s)
  BY <1>4, <1>5, <1>8 DEF RevokeRole, Runs, Writes
<1> QED
  BY <1>6, <1>7, <1>8

LEMMA SessionRevokes ==
  ASSUME AdminInv, AdminInv', SessionInv, NEW s \in Slot, RevokeSessions(s)
  PROVE  SessionInv'
<1> DEFINE u == call[s].on
<1>1. /\ call[s].st = "doing" /\ Proceed(s) /\ UNCHANGED <<account, era, late>>
      /\ tokens \subseteq [kind: {"session", "api"}, user: User, n: Nat, era: Nat]
  BY DEF RevokeSessions, Runs, AdminInv, Tables, history
<1>2. PICK c : call' = [call EXCEPT ![s] = c] /\ Goes(c)
  BY <1>1, GoesOn
<1>3. ASSUME NEW t \in tokens', t.kind = "session"
      PROVE  IF t.user = u THEN t.era = era[u] ELSE t \in tokens
  <2>1. CASE t \in {k \in tokens : k.user # u \/ k.kind = "api"}
    BY <1>3, <2>1
  <2>2. CASE t \in {[k EXCEPT !.era = era[u]] : k \in Kept(s)}
    <3>1. PICK k \in Kept(s) : t = [k EXCEPT !.era = era[u]]
      BY <2>2
    <3>2. k \in tokens /\ k.user = u
      BY <3>1 DEF Kept
    <3> QED
      BY <1>1, <3>1, <3>2
  <2> QED
    BY <2>1, <2>2 DEF RevokeSessions
<1> QED
  BY <1>1, <1>2, <1>3, Moves DEF Born

LEMMA SessionIssued ==
  ASSUME AdminInv, AdminInv', SessionInv, NEW s \in Slot, IssueToken(s)
  PROVE  SessionInv'
<1> DEFINE u == call[s].on
           more == [kind |-> IF Runs(s, "mint") THEN "api" ELSE "session",
                    user |-> u, n |-> minted[u] + 1, era |-> call[s].era]
<1>1. /\ call[s].st = "doing" /\ (Proceed(s) \/ Answer(s)) /\ UNCHANGED <<account, era, late>>
      /\ Head(call[s].todo) \notin Revokes /\ tokens' \subseteq tokens \cup {more}
      /\ Runs(s, "session") \/ Runs(s, "mint")
  BY DEF IssueToken, Runs, Revokes, history
<1>2. PICK c : call' = [call EXCEPT ![s] = c] /\ Goes(c)
  BY <1>1, GoesOn
<1>3. Runs(s, "session") => call[s].op \in SignIns
  BY FollowsTail DEF Runs, AdminInv, SessionInv, Handlers, CallOK, Shaped, Goes
<1>4. more.kind = "session" => more.era = era[more.user] \/ more.user \in late
  BY <1>1, <1>3 DEF SessionInv, Goes
<1> HIDE DEF more
<1> QED
  BY <1>1, <1>2, <1>4, Moves DEF Born

LEMMA SessionCount ==
  ASSUME AdminInv, AdminInv', SessionInv, NEW s \in Slot, CountUsers(s)
  PROVE  SessionInv'
<1> DEFINE d == call[s]
           role == IF \E u \in User : Exists(u) THEN d.role ELSE "admin"
<1>1. d.st = "doing" /\ Head(d.todo) = "count" /\ UNCHANGED <<account, tokens, era, late>>
  BY DEF CountUsers, Runs, tables, history
<1>2. d \in Calls /\ Shaped(d.todo, d.op) /\ Goes(d)
  BY <1>1 DEF AdminInv, SessionInv, Handlers, CallOK
<1>3. d.todo \in Seq(Statements) /\ Len(d.todo) > 0 /\ Len(d.todo) # 1 /\ Follows(d.todo, d.op)
  BY <1>1, <1>2, Heads DEF Shaped, Goes
<1>4. PICK c : c = [d EXCEPT !.todo = Tail(d.todo), !.role = role]
  OBVIOUS
<1>5. call' = [call EXCEPT ![s] = c]
  BY <1>4 DEF CountUsers, AdminInv, Handlers
<1>6. c.st = "doing" /\ c.op = d.op /\ c.on = d.on /\ c.era = d.era /\ c.todo = Tail(d.todo)
  BY <1>1, <1>2, <1>4 DEF Calls
<1>7. Goes(c)
  BY <1>1, <1>2, <1>3, <1>6, FollowsTail DEF Goes
<1> QED
  BY <1>1, <1>5, <1>7, Moves DEF Born, Revokes

LEMMA SessionOthers ==
  ASSUME AdminInv, AdminInv', SessionInv, NEW s \in Slot,
         \/ AssertNotLastAdmin(s) \/ DeleteUser(s) \/ InsertUser(s) \/ AssignRole(s)
         \/ DeleteToken(s) \/ ClearLoginFailures(s) \/ UpdateMfa(s) \/ DropCodes(s) \/ AddCodes(s)
  PROVE  SessionInv'
<1>1. /\ call[s].st = "doing" /\ Head(call[s].todo) \notin Revokes /\ (Proceed(s) \/ Answer(s))
      /\ UNCHANGED <<era, late>> /\ tokens' \subseteq tokens
  BY DEF AssertNotLastAdmin, DeleteUser, InsertUser, AssignRole, DeleteToken, ClearLoginFailures,
         UpdateMfa, DropCodes, AddCodes, Runs, Revokes, MfaOf, tables, history
<1>2. call[s].on \in User /\ account \in [User -> Account]
  BY <1>1 DEF AdminInv, Handlers, CallOK, Tables
<1>3. Born
  BY <1>2 DEF AssertNotLastAdmin, DeleteUser, InsertUser, AssignRole, DeleteToken, ClearLoginFailures,
              UpdateMfa, DropCodes, AddCodes, SetAccount, Account, Born, tables
<1> QED
  BY <1>1, <1>3, SessionQuiet

\* A change whose DELETE is not done after all counts as late.
LEMMA SessionFails ==
  ASSUME AdminInv, AdminInv', SessionInv, NEW s \in Slot, Fail(s)
  PROVE  SessionInv'
<1>1. /\ call[s].st = "doing" /\ Answer(s) /\ UNCHANGED <<account, tokens, era>>
      /\ late \subseteq late' /\ (Head(call[s].todo) \in Revokes => call[s].on \in late')
  BY DEF Fail, Revokes, tables
<1> QED
  BY <1>1, IdleGoes, Moves DEF Answer, Born

LEMMA SessionsKept ==
  ASSUME AdminInv, SessionInv, [Next]_vars
  PROVE  SessionInv'
<1>1. AdminInv'
  BY AdminsKept
<1>2. CASE \E s \in Slot : \/ Requests(s) \/ Authenticate(s) \/ BadCredentials(s) \/ GoodCredentials(s)
                           \/ MfaRequired(s) \/ Statement(s) \/ Fail(s)
  BY <1>1, <1>2, SessionRequests, SessionAuthenticate, SessionLogins, SessionChanges, SessionRevokes,
     SessionIssued, SessionCount, SessionOthers, SessionFails DEF Statement
<1>3. CASE UNCHANGED <<account, call, era, late>> /\ tokens' \subseteq tokens
  BY <1>3 DEF SessionInv, Goes, Unborn, SessionsFollowChange, RevokeDue
<1>4. CASE (\E t \in tokens : EndSession(t)) \/ (\E u \in User : Forget(u))
  BY <1>3, <1>4 DEF EndSession, Forget, history
<1>5. CASE UNCHANGED vars
  BY <1>3, <1>5 DEF vars, tables, history
<1> QED
  BY <1>2, <1>4, <1>5 DEF Next

LEMMA SessionsAtFirst == Init => SessionInv
<1>1. SUFFICES ASSUME Init PROVE SessionInv
  OBVIOUS
<1>2. /\ call = [s \in Slot |-> Idle] /\ era = [u \in User |-> 0]
      /\ \A t \in tokens : t.era = 0 /\ t.user \in User
  BY <1>1, AccountsAssumption DEF Init
<1>3. \A s \in Slot : Goes(call[s])
  BY <1>2, IdleGoes
<1>4. Unborn /\ SessionsFollowChange
  BY <1>2 DEF Unborn, SessionsFollowChange
<1> QED
  BY <1>3, <1>4 DEF SessionInv

\* revokeSessions, for any number of accounts, sessions, handlers and failures: no
\* session opened before a change of its account outlives the handler that made it,
\* unless a login was under way or a statement failed.
THEOREM SessionsEnd == Spec => []SessionsFollowChange
<1>1. Init => AdminInv /\ SessionInv
  BY AdminsAtFirst, SessionsAtFirst
<1>2. AdminInv /\ SessionInv /\ [Next]_vars => AdminInv' /\ SessionInv'
  BY AdminsKept, SessionsKept
<1>3. SessionInv => SessionsFollowChange
  BY DEF SessionInv
<1> QED
  BY <1>1, <1>2, <1>3, PTL DEF Spec
=============================================================================
