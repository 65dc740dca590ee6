---------------------------- MODULE AccountsProofs ----------------------------
(***************************************************************************)
(* Verification codes and the management of accounts, for every number of   *)
(* accounts, addresses, requests and codes, every set of operations, and    *)
(* requests that may stop between any two steps; and the block of clients   *)
(* that repeat refused requests, for every number of clients and requests   *)
(* and every setting of the window, the limit and the block.                *)
(*                                                                          *)
(* The argument for the accounts has five parts.  A request that will       *)
(* write an account knows its role, because the role of a row never         *)
(* changes once the row is there: this is what makes the check before the   *)
(* unconditional write enough.  And verification codes that are not used    *)
(* belong to accounts that are not verified, one to each, because both      *)
(* transactions that could add a second one spend what is there.  Codes     *)
(* are issued in the order of their numbers, and an issue spends what the   *)
(* account could use before, so that a usable code is the newest: Trail.    *)
(* Only a customer's deletion takes a password, and it takes the address    *)
(* too, so that no later request finds the account: Deletions.  And a       *)
(* verification code nobody has read is still with the request that sends   *)
(* it, which disables it if the mail fails: Deliveries.                     *)
(*                                                                          *)
(* The block shares no state with the accounts.  The violations a record    *)
(* counts are the last ones of the client, the first of them opened the     *)
(* window, and each of the others came before the window was over: Says.    *)
(* A client that has one request at a time waits while it is blocked: Waits. *)
(***************************************************************************)
EXTENDS Accounts, AbuseBlock, FiniteSetTheorems, SequenceTheorems, TLAPS

Roles == {"NONE", "CUSTOMER", "ADMIN", "SUPER_ADMIN"}

\* The type of the state the argument looks at.
Types ==
  /\ role \in [Users -> Roles]
  /\ verified \in [Users -> BOOLEAN] /\ deleted \in [Users -> BOOLEAN]
  /\ code \in [Codes -> Code] /\ issued \in 0..MaxCodes
  /\ job \in [Handlers -> Job] /\ scenario \in Scenarios

\* A verification code of account i that could still be used.
Open(c, i) == code[c].owner = i /\ code[c].type = "EMAIL_VERIFICATION" /\ ~code[c].used

CodesSound ==
  /\ \A i \in Users : ~Exists(i) => ~verified[i]
  /\ \A c \in 1..issued, i \in Users : Open(c, i) => Exists(i) /\ ~verified[i]
  /\ \A c, d \in 1..issued, i \in Users : Open(c, i) /\ Open(d, i) => c = d

\* What a request j knows of the accounts it is about.
JobSound(j) ==
  /\ j.op \in {"verifyEmail", "resend"} /\ j.step \in {"code", "consume", "issue"} =>
       j.id \in Users /\ Exists(j.id)
  /\ j.op = "deleteCustomerProfile" => j.id \in Users /\ role[j.id] = "CUSTOMER"
  /\ j.op \in (SuperOps \cup AdminOps) \ {"createAdmin"} => j.id \in Users /\ j.by \in Users
  /\ j.op \in SuperOps => j.by \in Users /\ role[j.by] = "SUPER_ADMIN"
  /\ j.op \in {"deactivateAdmin", "restoreAdmin"} /\ j.step = "write" =>
       j.id \in Users /\ role[j.id] = "ADMIN"
  /\ j.op \in {"deactivateUser", "restoreUser"} /\ j.step = "write" =>
       /\ j.id \in Users /\ role[j.id] \in {"CUSTOMER", "ADMIN"}
       /\ role[j.id] = "ADMIN" => j.by \in Users /\ role[j.by] = "SUPER_ADMIN"

IInv ==
  /\ Types
  /\ CodesSound
  /\ \A h \in Handlers : JobSound(job[h])
  /\ SuperAdminsStay

\* The row of an account is never removed, and its role never changes.
RolesKept == \A i \in Users : Exists(i) => role'[i] = role[i]

------------------------------------------------------------------------------

LEMMA InitIInv == Init => IInv
<1> SUFFICES ASSUME Init PROVE IInv
  OBVIOUS
<1>1. Idle \in Job /\ NoRecord \in Code /\ Idle.op = "none"
  BY DEF Idle, Job, Steps, NoRecord, Code
<1>2. 0 \in 0..MaxCodes
  BY AccountConstants
<1>3. Types
  BY <1>1, <1>2 DEF Init, Types, Roles
<1>4. CodesSound
  <2>1. 1..issued = {}
    BY DEF Init
  <2>2. ASSUME NEW i \in Users, ~Exists(i) PROVE ~verified[i]
    <3>1. i \notin Supers
      BY <2>2 DEF Init, Exists
    <3> QED
      BY <3>1, Zenon DEF Init
  <2> QED
    BY <2>1, <2>2 DEF CodesSound
<1>5. \A h \in Handlers : JobSound(job[h])
  BY <1>1 DEF Init, JobSound, SuperOps, AdminOps
<1>6. SuperAdminsStay
  BY DEF Init, SuperAdminsStay
<1> QED
  BY <1>3, <1>4, <1>5, <1>6 DEF IInv

\* What a request knows stays true.
LEMMA SoundStays ==
  ASSUME RolesKept, NEW j, JobSound(j)
  PROVE  JobSound(j)'
BY DEF RolesKept, JobSound, Exists

\* A step of one request h.
LEMMA OneJob ==
  ASSUME IInv, RolesKept, NEW h \in Handlers, NEW j \in Job,
         job' = [job EXCEPT ![h] = j], JobSound(j)
  PROVE  job' \in [Handlers -> Job] /\ \A g \in Handlers : JobSound(job[g])'
<1>1. job' \in [Handlers -> Job] /\ job'[h] = j /\ \A g \in Handlers : g # h => job'[g] = job[g]
  BY DEF IInv, Types
<1>2. ASSUME NEW g \in Handlers PROVE JobSound(job[g])'
  <2>1. JobSound(job'[g])
    BY <1>1 DEF IInv
  <2> QED
    BY <2>1 DEF RolesKept, JobSound, Exists
<1> QED
  BY <1>1, <1>2

LEMMA IdleJob ==
  ASSUME IInv, RolesKept, NEW h \in Handlers, Finish(h)
  PROVE  job' \in [Handlers -> Job] /\ \A g \in Handlers : JobSound(job[g])'
<1>1. Idle \in Job /\ Idle.op = "none"
  BY DEF Idle, Job, Steps
<1>2. JobSound(Idle)
  BY <1>1 DEF JobSound, SuperOps, AdminOps
<1> QED
  BY <1>1, <1>2, OneJob DEF Finish

\* A request goes on to a step that needs no knowledge, or has the knowledge.
LEMMA MovedJob ==
  ASSUME IInv, RolesKept, NEW h \in Handlers, NEW step \in Steps, Move(h, step),
         step \in {"code", "consume", "issue"} => job[h].op \notin {"verifyEmail", "resend"},
         step = "write" /\ job[h].op \in {"deactivateAdmin", "restoreAdmin"} =>
           job[h].id \in Users /\ role[job[h].id] = "ADMIN",
         step = "write" /\ job[h].op \in {"deactivateUser", "restoreUser"} =>
           /\ job[h].id \in Users /\ role[job[h].id] \in {"CUSTOMER", "ADMIN"}
           /\ role[job[h].id] = "ADMIN" => job[h].by \in Users /\ role[job[h].by] = "SUPER_ADMIN"
  PROVE  job' \in [Handlers -> Job] /\ \A g \in Handlers : JobSound(job[g])'
<1> DEFINE j == [job[h] EXCEPT !.step = step]
<1>1. job[h] \in Job /\ JobSound(job[h])
  BY DEF IInv, Types
<1>2. /\ j \in Job /\ j.step = step /\ j.op = job[h].op /\ j.id = job[h].id /\ j.by = job[h].by
      /\ job' = [job EXCEPT ![h] = j]
  BY <1>1 DEF Job, Move
<1> HIDE DEF j
<1>3. JobSound(j)
  BY <1>1, <1>2 DEF JobSound
<1> QED
  BY <1>2, <1>3, OneJob
\* The query finds the account of a code, which then stays open or is spent.
LEMMA SpentCode ==
  ASSUME NEW r \in Code
  PROVE  LET q == [r EXCEPT !.used = TRUE]
         IN  q \in Code /\ q.used /\ q.owner = r.owner /\ q.type = r.type
BY DEF Code

LEMMA Spending ==
  ASSUME IInv, NEW S
  PROVE  /\ Spend(S) \in [Codes -> Code]
         /\ \A c \in Codes \ S : Spend(S)[c] = code[c]
         /\ \A c \in Codes \cap S : Spend(S)[c].used
BY SpentCode DEF IInv, Types, Spend

\* Steps after which no code is open that was not, and no account with an open
\* code becomes verified.
LEMMA CodesKept ==
  ASSUME IInv, RolesKept, issued' = issued,
         \A i \in Users : verified'[i] => Exists(i),
         \A c \in 1..issued, i \in Users : Open(c, i)' => Open(c, i) /\ (verified'[i] => verified[i])
  PROVE  CodesSound'
BY DEF IInv, CodesSound, RolesKept, Exists

LEMMA VerifiedExist == IInv => \A i \in Users : verified[i] => Exists(i)
BY DEF IInv, CodesSound

\* Steps that leave the codes and the verified accounts alone.
LEMMA CodesQuiet ==
  ASSUME IInv, RolesKept, UNCHANGED <<code, issued, verified>>
  PROVE  CodesSound'
<1>1. \A c \in 1..issued, i \in Users : Open(c, i)' => Open(c, i)
  BY DEF Open
<1>2. \A i \in Users : verified'[i] => verified[i]
  OBVIOUS
<1> QED
  BY <1>1, <1>2, CodesKept, VerifiedExist

\* A code is issued; one that verifies goes to an account that is not verified,
\* and its open codes are spent.
LEMMA CodesIssued ==
  ASSUME IInv, RolesKept, NEW i, NEW old, NEW new \in Code,
         issued < scenario.codes, issued' = issued + 1,
         code' = [Spend(old) EXCEPT ![issued + 1] = new], UNCHANGED verified, new.owner = i,
         new.type = "EMAIL_VERIFICATION" =>
           role'[i] # "NONE" /\ ~verified[i] /\ \A c \in 1..issued : Open(c, i) => c \in old
  PROVE  CodesSound' /\ code' \in [Codes -> Code] /\ issued' \in 0..MaxCodes
<1> DEFINE verifies == new.type = "EMAIL_VERIFICATION"
<1>1. scenario.codes \in 0..MaxCodes /\ issued \in 0..MaxCodes /\ MaxCodes \in Nat
  BY AccountConstants DEF IInv, Types, Scenario
<1>2. issued' \in 0..MaxCodes /\ issued + 1 \in Codes /\ 1..issued \subseteq Codes /\ issued + 1 \notin 1..issued
      /\ 1..issued' = 1..issued \cup {issued + 1}
  BY <1>1 DEF Codes
<1>3. /\ code' \in [Codes -> Code] /\ code'[issued + 1] = new
      /\ \A c \in 1..issued : code'[c] = Spend(old)[c]
  BY <1>2, Spending
<1>4. ASSUME NEW c \in 1..issued, NEW x \in Users, Open(c, x)'
      PROVE  Open(c, x) /\ (verifies => x # i)
  <2>1. c \notin old
    BY <1>2, <1>3, <1>4, Spending DEF Open
  <2>2. code'[c] = code[c]
    BY <1>2, <1>3, <2>1, Spending
  <2> QED
    BY <1>4, <2>1, <2>2 DEF Open
<1>5. ASSUME NEW c \in 1..issued', NEW x \in Users, Open(c, x)'
      PROVE  \/ c = issued + 1 /\ x = i /\ verifies
             \/ c \in 1..issued /\ Open(c, x) /\ (verifies => x # i)
  <2>1. CASE c = issued + 1
    BY <1>3, <1>5, <2>1 DEF Open
  <2>2. CASE c \in 1..issued
    BY <1>4, <1>5, <2>2
  <2> QED
    BY <1>2, <2>1, <2>2
<1>6. \A x \in Users : verified[x] => Exists(x)
  BY VerifiedExist
<1>7. /\ \A x \in Users : ~Exists(x)' => ~verified'[x]
      /\ \A c \in 1..issued', x \in Users : Open(c, x)' => Exists(x)' /\ ~verified'[x]
  BY <1>5, <1>6 DEF IInv, CodesSound, RolesKept, Exists
<1>8. \A c, d \in 1..issued', x \in Users : Open(c, x)' /\ Open(d, x)' => c = d
  BY <1>5 DEF IInv, CodesSound
<1> QED
  BY <1>2, <1>3, <1>7, <1>8 DEF CodesSound

------------------------------------------------------------------------------
(* Steps *)

\* Requests that leave accounts and codes alone.
LEMMA QuietStep ==
  ASSUME IInv, UNCHANGED <<role, verified, deleted, codeVars, scenario>>,
         job' \in [Handlers -> Job], \A g \in Handlers : JobSound(job[g])'
  PROVE  IInv'
<1>1. RolesKept /\ Types' /\ SuperAdminsStay'
  BY DEF IInv, Types, RolesKept, SuperAdminsStay, codeVars
<1>2. CodesSound'
  BY <1>1, CodesQuiet DEF codeVars
<1> QED
  BY <1>1, <1>2 DEF IInv

LEMMA BeginIInv ==
  ASSUME IInv, NEW h \in Handlers, NEW op \in Operations, NEW step \in Steps,
         NEW i \in Users \cup {NoUser}, NEW by \in Users \cup {NoUser},
         NEW e \in Addresses \cup {NoAddress}, NEW p \in Passwords \cup {NoPassword},
         Begin(h, op, step, i, by, e, p), step # "write",
         op \in {"verifyEmail", "resend"} => i \in Users /\ Exists(i),
         op = "deleteCustomerProfile" => i \in Users /\ role[i] = "CUSTOMER",
         op \in (SuperOps \cup AdminOps) \ {"createAdmin"} => i \in Users /\ by \in Users,
         op \in SuperOps => by \in Users /\ role[by] = "SUPER_ADMIN"
  PROVE  IInv'
<1> DEFINE j == [op |-> op, step |-> step, id |-> i, by |-> by, email |-> e, pw |-> p, code |-> 0]
<1>1. /\ UNCHANGED <<role, verified, deleted, codeVars, scenario>> /\ RolesKept
      /\ job' = [job EXCEPT ![h] = j]
  BY DEF Begin, userVars, RolesKept
<1>2. j \in Job /\ j.op = op /\ j.step = step /\ j.id = i /\ j.by = by
  BY DEF Job
<1> HIDE DEF j
<1>3. JobSound(j)
  BY <1>2 DEF JobSound
<1> QED
  BY <1>1, <1>2, <1>3, OneJob, QuietStep
LEMMA PublicReads ==
  ASSUME IInv, NEW h \in Handlers, NEW e \in scenario.addresses,
         NEW p \in scenario.passwords \cup {NoPassword},
         RegisterRead(h, e, p) \/ VerifyRead(h, e) \/ ResendRead(h, e) \/ ForgotRead(h, e) \/ ResetRead(h, e, p)
  PROVE  IInv'
<1>1. e \in Addresses \cup {NoAddress} /\ p \in Passwords \cup {NoPassword} /\ NoPassword \in Passwords \cup {NoPassword}
  BY AccountConstants DEF IInv, Types, Scenario
<1>2. {"createUser", "verifyEmail", "resend", "forgot", "reset"} \subseteq Operations \ (SuperOps \cup AdminOps \cup {"deleteCustomerProfile"})
      /\ {"create", "code", "issue", "clear"} \subseteq Steps \ {"write"}
  BY DEF Operations, PublicOps, SuperOps, AdminOps, Steps
<1>3. CASE RegisterRead(h, e, p)
  BY <1>1, <1>2, <1>3, BeginIInv DEF RegisterRead
<1>4. ASSUME NEW q \in {p, NoPassword}, NEW op \in {"verifyEmail", "resend", "forgot", "reset"},
             NEW step \in {"code", "issue", "clear"}, FindAccount(h, op, step, e, q)
      PROVE  IInv'
  <2>1. PICK i \in Users : Exists(i) /\ Begin(h, op, step, i, NoUser, e, q)
    BY <1>4 DEF FindAccount, Owner
  <2>2. op \in Operations /\ op \notin SuperOps \cup AdminOps /\ op # "deleteCustomerProfile" /\ step \in Steps /\ step # "write"
        /\ q \in Passwords \cup {NoPassword} /\ i \in Users \cup {NoUser} /\ NoUser \in Users \cup {NoUser}
    BY <1>1, <1>2
  <2> QED
    BY <1>1, <2>1, <2>2, BeginIInv
<1> QED
  BY <1>3, <1>4 DEF VerifyRead, ResendRead, ForgotRead, ResetRead

LEMMA PublicQuiet ==
  ASSUME IInv, NEW h \in Handlers,
         \/ \E x \in Codes : VerifyCompare(h, x) \/ ResetCompare(h, x)
         \/ MailSent(h) \/ MailFails(h) \/ Audit(h) \/ Abandon(h)
  PROVE  IInv'
<1>1. ASSUME NEW x \in Codes, NEW type, job[h].step = "code", CompareCode(h, type, x) PROVE IInv'
  <2> DEFINE j == [op |-> job[h].op, step |-> "consume", id |-> job[h].id, by |-> job[h].by,
                   email |-> job[h].email, pw |-> job[h].pw, code |-> x]
  <2>1. /\ UNCHANGED <<role, verified, deleted, codeVars, scenario>> /\ RolesKept
        /\ job' = [job EXCEPT ![h] = j]
    BY <1>1 DEF CompareCode, userVars, RolesKept
  <2>2. job[h] \in Job /\ JobSound(job[h]) /\ job[h].step = "code"
    BY <1>1 DEF IInv, Types
  <2>3. j \in Job /\ j.op = job[h].op /\ j.step = "consume" /\ j.id = job[h].id /\ j.by = job[h].by
    BY <2>2 DEF Job, Steps
  <2> HIDE DEF j
  <2>4. JobSound(j)
    BY <2>2, <2>3 DEF JobSound
  <2> QED
    BY <2>1, <2>3, <2>4, OneJob, QuietStep
<1>2. CASE MailSent(h) \/ MailFails(h) \/ Audit(h) \/ Abandon(h)
  <2>1. UNCHANGED <<role, verified, deleted, codeVars, scenario>> /\ RolesKept
    BY <1>2 DEF MailSent, MailFails, Audit, Abandon, userVars, RolesKept
  <2>2. Finish(h) \/ Move(h, "disable")
    BY <1>2 DEF MailSent, MailFails, Audit, Abandon
  <2>3. "disable" \in Steps
    BY DEF Steps
  <2> QED
    BY <2>1, <2>2, <2>3, IdleJob, MovedJob, QuietStep
<1> QED
  BY <1>1, <1>2 DEF VerifyCompare, ResetCompare, At
\* A new row gets a role; the others keep theirs.
LEMMA NewRole ==
  ASSUME IInv, NEW h \in Handlers, NEW i \in Users, NEW r \in {"CUSTOMER", "ADMIN"}, NewRow(h, i, r)
  PROVE  /\ RolesKept /\ role' \in [Users -> Roles] /\ role'[i] = r /\ role[i] = "NONE"
         /\ SuperAdminsStay' /\ UNCHANGED <<verified, deleted>>
<1>1. /\ role' = [role EXCEPT ![i] = r] /\ role[i] = "NONE" /\ UNCHANGED <<verified, deleted>>
      /\ role \in [Users -> Roles]
  BY DEF NewRow, Exists, IInv, Types
<1>2. role' \in [Users -> Roles] /\ role'[i] = r /\ \A x \in Users : x # i => role'[x] = role[x]
  BY <1>1 DEF Roles
<1> QED
  BY <1>1, <1>2 DEF RolesKept, Exists, IInv, SuperAdminsStay

LEMMA NewCodes ==
  ASSUME NEW i \in Users \cup {NoUser}, NEW type \in CodeTypes
  PROVE  NewCode(i, type) \in Code /\ NewCode(i, type).owner = i /\ NewCode(i, type).type = type
<1>1. ASSUME NEW b \in BOOLEAN
      PROVE  LET q == [owner |-> i, type |-> type, used |-> FALSE, live |-> TRUE, recent |-> b]
             IN  q \in Code /\ q.owner = i /\ q.type = type
  BY DEF Code
<1>2. (type = "EMAIL_VERIFICATION") \in BOOLEAN
  OBVIOUS
<1> QED
  BY <1>1, <1>2, Zenon DEF NewCode

\* The request that issued a code goes on to send it.
LEMMA IssuedJob ==
  ASSUME IInv, RolesKept, NEW h \in Handlers, NEW i \in Users \cup {NoUser}, NEW type, NEW old,
         Issue(h, i, type, old), job[h].op \in {"createUser", "resend", "forgot"}
  PROVE  job' \in [Handlers -> Job] /\ \A g \in Handlers : JobSound(job[g])'
<1> DEFINE j == [op |-> job[h].op, step |-> "mail", id |-> i, by |-> job[h].by,
                 email |-> job[h].email, pw |-> job[h].pw, code |-> issued + 1]
<1>1. job' = [job EXCEPT ![h] = j] /\ issued < scenario.codes
  BY DEF Issue
<1>2. issued + 1 \in Codes
  BY <1>1, AccountConstants DEF IInv, Types, Scenario, Codes
<1>3. job[h] \in Job
  BY DEF IInv, Types
<1>4. j \in Job /\ j.op = job[h].op /\ j.step = "mail"
  BY <1>2, <1>3 DEF Job, Steps
<1> HIDE DEF j
<1>5. JobSound(j)
  BY <1>4 DEF JobSound, SuperOps, AdminOps
<1> QED
  BY <1>1, <1>4, <1>5, OneJob

LEMMA IssueIInv ==
  ASSUME IInv, NEW h \in Handlers,
         (\E i \in Rows : RegisterCreate(h, i)) \/ ResendIssue(h) \/ ForgotIssue(h)
  PROVE  IInv'
<1>1. ASSUME NEW i \in Rows, RegisterCreate(h, i) PROVE IInv'
  <2>1. /\ i \in Users /\ NewRow(h, i, "CUSTOMER") /\ Issue(h, i, "EMAIL_VERIFICATION", {})
        /\ scenario' = scenario /\ job[h].op = "createUser"
    BY <1>1 DEF RegisterCreate, Users, At
  <2>2. /\ RolesKept /\ role' \in [Users -> Roles] /\ role'[i] # "NONE" /\ role[i] = "NONE"
        /\ SuperAdminsStay' /\ UNCHANGED <<verified, deleted>>
    BY <2>1, NewRole
  <2>3. ~verified[i] /\ \A c \in 1..issued : ~Open(c, i)
    BY <2>1, <2>2 DEF IInv, CodesSound, Exists
  <2>4. CodesSound' /\ code' \in [Codes -> Code] /\ issued' \in 0..MaxCodes
    BY <2>1, <2>2, <2>3, NewCodes, CodesIssued DEF Issue, CodeTypes
  <2>5. job' \in [Handlers -> Job] /\ \A g \in Handlers : JobSound(job[g])'
    BY <2>1, <2>2, IssuedJob
  <2> QED
    BY <2>1, <2>2, <2>4, <2>5 DEF IInv, Types
<1>2. CASE ResendIssue(h)
  <2> DEFINE i == job[h].id
  <2>1. /\ i \in Users /\ Exists(i) /\ ~verified[i] /\ Issue(h, i, "EMAIL_VERIFICATION", Unused(i, "EMAIL_VERIFICATION"))
        /\ UNCHANGED <<role, verified, deleted, scenario>> /\ job[h].op = "resend"
    BY <1>2 DEF ResendIssue, At, MayResend, Superseded, userVars, IInv, JobSound
  <2>2. RolesKept /\ SuperAdminsStay' /\ role'[i] # "NONE"
    BY <2>1 DEF RolesKept, IInv, SuperAdminsStay, Exists
  <2>3. \A c \in 1..issued : Open(c, i) => c \in Unused(i, "EMAIL_VERIFICATION")
    BY DEF Open, Unused
  <2>4. CodesSound' /\ code' \in [Codes -> Code] /\ issued' \in 0..MaxCodes
    BY <2>1, <2>2, <2>3, NewCodes, CodesIssued DEF Issue, CodeTypes
  <2>5. job' \in [Handlers -> Job] /\ \A g \in Handlers : JobSound(job[g])'
    BY <2>1, <2>2, IssuedJob
  <2> QED
    BY <2>1, <2>2, <2>4, <2>5 DEF IInv, Types
<1>3. CASE ForgotIssue(h)
  <2> DEFINE i == job[h].id
  <2>1. /\ Issue(h, i, "PASSWORD_RESET", {}) /\ i \in Users \cup {NoUser} /\ job[h].op = "forgot"
        /\ UNCHANGED <<role, verified, deleted, scenario>>
    BY <1>3 DEF ForgotIssue, At, userVars, IInv, Types, Job
  <2>2. RolesKept /\ SuperAdminsStay'
    BY <2>1 DEF RolesKept, IInv, SuperAdminsStay, Exists
  <2>3. CodesSound' /\ code' \in [Codes -> Code] /\ issued' \in 0..MaxCodes
    BY <2>1, <2>2, NewCodes, CodesIssued DEF Issue, CodeTypes
  <2>4. job' \in [Handlers -> Job] /\ \A g \in Handlers : JobSound(job[g])'
    BY <2>1, <2>2, IssuedJob
  <2> QED
    BY <2>1, <2>2, <2>3, <2>4 DEF IInv, Types
<1> QED
  BY <1>1, <1>2, <1>3

\* Codes are spent; an account whose codes are all spent may become verified.
LEMMA SpendIInv ==
  ASSUME IInv, NEW h \in Handlers, Disable(h) \/ ForgotClear(h) \/ ResetConsume(h) \/ VerifyConsume(h)
  PROVE  IInv'
<1>1. PICK S : /\ code' = Spend(S) /\ UNCHANGED <<role, deleted, issued, scenario>>
               /\ \/ verified' = verified
                  \/ \E i \in Users : /\ verified' = [verified EXCEPT ![i] = TRUE] /\ Exists(i)
                                     /\ Unused(i, "EMAIL_VERIFICATION") \subseteq S
  <2>1. CASE Disable(h) \/ ForgotClear(h) \/ ResetConsume(h)
    BY <2>1 DEF Disable, ForgotClear, ResetConsume, userVars
  <2>2. CASE VerifyConsume(h)
    <3>1. job[h].id \in Users /\ Exists(job[h].id)
      BY <2>2 DEF VerifyConsume, At, IInv, JobSound
    <3> QED
      BY <2>2, <3>1 DEF VerifyConsume
  <2> QED
    BY <2>1, <2>2
<1>2. RolesKept /\ SuperAdminsStay' /\ code' \in [Codes -> Code] /\ verified' \in [Users -> BOOLEAN]
  BY <1>1, Spending DEF RolesKept, IInv, Types, SuperAdminsStay
<1>3. ASSUME NEW c \in 1..issued, NEW x \in Users, Open(c, x)' PROVE Open(c, x) /\ c \notin S
  <2>1. c \in Codes
    BY AccountConstants DEF IInv, Types, Codes
  <2> QED
    BY <1>1, <1>3, <2>1, Spending DEF Open
<1>4. ASSUME NEW c \in 1..issued, NEW x \in Users, Open(c, x)' PROVE verified'[x] => verified[x]
  <2>1. Open(c, x) /\ c \notin S
    BY <1>3, <1>4
  <2>2. \A i \in Users : Unused(i, "EMAIL_VERIFICATION") \subseteq S => x # i
    BY <2>1 DEF Open, Unused
  <2> QED
    BY <1>1, <2>2 DEF IInv, Types
<1>5. \A x \in Users : verified'[x] => Exists(x)
  BY <1>1, VerifiedExist DEF IInv, Types
<1>6. CodesSound'
  BY <1>1, <1>2, <1>3, <1>4, <1>5, CodesKept
<1>7. job' \in [Handlers -> Job] /\ \A g \in Handlers : JobSound(job[g])'
  <2>1. CASE ForgotClear(h)
    <3>1. Move(h, "issue") /\ job[h].op = "forgot" /\ "issue" \in Steps
      BY <2>1 DEF ForgotClear, At, Steps
    <3> QED
      BY <1>2, <3>1, MovedJob
  <2>2. CASE Disable(h) \/ ResetConsume(h) \/ VerifyConsume(h)
    BY <1>2, <2>2, IdleJob DEF Disable, ResetConsume, VerifyConsume
  <2> QED
    BY <2>1, <2>2
<1> QED
  BY <1>1, <1>2, <1>6, <1>7 DEF IInv, Types

------------------------------------------------------------------------------
(* The management of accounts *)

LEMMA AuthenticateIInv ==
  ASSUME IInv, NEW h \in Handlers, NEW i \in Users,
         NEW op \in scenario.ops \cap (CustomerOps \cup SuperOps \cup AdminOps), Authenticate(h, i, op)
  PROVE  IInv'
<1>1. PICK t \in Targets(i, op),
           e \in (IF op = "createAdmin" THEN scenario.addresses ELSE {NoAddress}),
           p \in (IF op \in {"createAdmin", "changeOwnPassword"} THEN scenario.passwords ELSE {NoPassword}) :
        MayCall(i, op) /\ Begin(h, op, "actor", t, i, e, p)
  BY DEF Authenticate
<1>2. e \in Addresses \cup {NoAddress} /\ p \in Passwords \cup {NoPassword} /\ t \in Users \cup {NoUser}
      /\ op \in Operations /\ "actor" \in Steps
  BY AccountConstants DEF IInv, Types, Scenario, Targets, Operations, Steps
<1>3. /\ op \notin {"verifyEmail", "resend"}
      /\ op = "deleteCustomerProfile" => op \in CustomerOps /\ op \in OwnOps
      /\ op \in SuperOps => op \notin CustomerOps
      /\ op \in (SuperOps \cup AdminOps) \ {"createAdmin"} => t \in Users
  BY DEF CustomerOps, SuperOps, AdminOps, OwnOps, Targets
<1>4. /\ op = "deleteCustomerProfile" => t = i /\ role[i] = "CUSTOMER"
      /\ op \in SuperOps => role[i] = "SUPER_ADMIN"
  BY <1>1, <1>3 DEF MayCall, Targets
<1> QED
  BY <1>1, <1>2, <1>3, <1>4, BeginIInv

LEMMA CheckIInv ==
  ASSUME IInv, NEW h \in Handlers, ActorCheck(h) \/ TargetCheck(h)
  PROVE  IInv'
<1>1. UNCHANGED <<role, verified, deleted, codeVars, scenario>> /\ RolesKept
  BY DEF ActorCheck, TargetCheck, userVars, RolesKept
<1>2. job[h] \in Job /\ JobSound(job[h]) /\ {"write", "target", "audit"} \subseteq Steps
  BY DEF IInv, Types, Steps
<1>3. CASE ActorCheck(h)
  <2>1. /\ Move(h, IF job[h].op \in OwnOps THEN "write" ELSE "target")
        /\ job[h].op \in OwnOps => job[h].op \notin {"deactivateAdmin", "restoreAdmin", "deactivateUser", "restoreUser"}
    BY <1>3 DEF ActorCheck, OwnOps, CustomerOps
  <2> QED
    BY <1>1, <1>2, <2>1, MovedJob, QuietStep
<1>4. CASE TargetCheck(h)
  <2> DEFINE j == job[h]
  <2>1. /\ TargetAllowed(j.op, j.by, j.id, j.email)
        /\ Move(h, IF j.op = "resolveIssue" THEN "audit" ELSE "write")
    BY <1>4 DEF TargetCheck
  <2>2. j.op \in SuperOps \cup AdminOps => JobSound(j) /\ role \in [Users -> Roles]
    BY <1>2 DEF IInv, Types
  <2>3. /\ {"deactivateAdmin", "restoreAdmin"} \subseteq SuperOps \ {"createAdmin"}
        /\ {"deactivateUser", "restoreUser"} \subseteq AdminOps \ {"createAdmin"}
    BY DEF SuperOps, AdminOps
  <2>4. j.op \in {"deactivateAdmin", "restoreAdmin"} => j.id \in Users /\ role[j.id] = "ADMIN"
    BY <2>1, <2>2, <2>3 DEF JobSound, TargetAllowed, DeactivateAllowed, RestoreAllowed
  <2>5. j.op \in {"deactivateUser", "restoreUser"} =>
          /\ j.id \in Users /\ role[j.id] \in {"CUSTOMER", "ADMIN"}
          /\ role[j.id] = "ADMIN" => j.by \in Users /\ role[j.by] = "SUPER_ADMIN"
    BY <2>1, <2>2, <2>3 DEF JobSound, TargetAllowed, StatusAllowed, Exists, Roles
  <2> QED
    BY <1>1, <1>2, <2>1, <2>4, <2>5, MovedJob, QuietStep
<1> QED
  BY <1>3, <1>4

LEMMA WriteIInv ==
  ASSUME IInv, NEW h \in Handlers,
         \/ UpdateCustomerProfile(h) \/ UpdateOwnProfile(h) \/ UpdateAdminById(h) \/ ChangeOwnPassword(h)
         \/ DeleteCustomerProfile(h) \/ DeactivateAdmin(h) \/ RestoreAdmin(h) \/ UpdateUserStatus(h)
  PROVE  IInv'
<1>1. RolesKept /\ UNCHANGED <<role, verified, code, issued, scenario>>
  BY DEF UpdateCustomerProfile, UpdateOwnProfile, UpdateAdminById, WriteProfile, ChangeOwnPassword,
     DeleteCustomerProfile, DeactivateAdmin, RestoreAdmin, UpdateUserStatus, WriteStatus, codeVars, RolesKept
<1>2. CodesSound'
  BY <1>1, CodesQuiet
<1>3. JobSound(job[h]) /\ "audit" \in Steps
  BY DEF IInv, Steps
<1>4. job' \in [Handlers -> Job] /\ \A g \in Handlers : JobSound(job[g])'
  <2>1. Finish(h) \/ Move(h, "audit")
    BY DEF UpdateCustomerProfile, UpdateOwnProfile, UpdateAdminById, WriteProfile, ChangeOwnPassword,
       DeleteCustomerProfile, DeactivateAdmin, RestoreAdmin, UpdateUserStatus
  <2> QED
    BY <1>1, <1>3, <2>1, IdleJob, MovedJob
<1>5. \/ deleted' = deleted
      \/ /\ \E b \in BOOLEAN : deleted' = [deleted EXCEPT ![job[h].id] = b]
         /\ job[h].id \in Users /\ role[job[h].id] # "SUPER_ADMIN"
  <2>1. CASE UpdateCustomerProfile(h) \/ UpdateOwnProfile(h) \/ UpdateAdminById(h) \/ ChangeOwnPassword(h)
    BY <2>1 DEF UpdateCustomerProfile, UpdateOwnProfile, UpdateAdminById, WriteProfile, ChangeOwnPassword
  <2>2. CASE DeleteCustomerProfile(h)
    BY <1>3, <2>2 DEF DeleteCustomerProfile, At, JobSound
  <2>3. CASE DeactivateAdmin(h) \/ RestoreAdmin(h)
    BY <1>3, <2>3 DEF DeactivateAdmin, RestoreAdmin, WriteStatus, At, JobSound
  <2>4. CASE UpdateUserStatus(h)
    BY <1>3, <2>4 DEF UpdateUserStatus, WriteStatus, At, JobSound
  <2> QED
    BY <2>1, <2>2, <2>3, <2>4
<1>6. deleted' \in [Users -> BOOLEAN] /\ SuperAdminsStay'
  BY <1>1, <1>5 DEF IInv, Types, SuperAdminsStay
<1> QED
  BY <1>1, <1>2, <1>4, <1>6 DEF IInv, Types

LEMMA CreateAdminIInv ==
  ASSUME IInv, NEW h \in Handlers, NEW i \in Rows, CreateAdmin(h, i)
  PROVE  IInv'
<1>1. /\ i \in Users /\ NewRow(h, i, "ADMIN") /\ Finish(h) /\ UNCHANGED <<code, issued, scenario>>
  BY DEF CreateAdmin, Users, codeVars
<1>2. /\ RolesKept /\ role' \in [Users -> Roles] /\ SuperAdminsStay' /\ UNCHANGED <<verified, deleted>>
  BY <1>1, NewRole
<1>3. CodesSound'
  BY <1>1, <1>2, CodesQuiet
<1>4. job' \in [Handlers -> Job] /\ \A g \in Handlers : JobSound(job[g])'
  BY <1>1, <1>2, IdleJob
<1> QED
  BY <1>1, <1>2, <1>3, <1>4 DEF IInv, Types

\* Time passes for a code.
LEMMA TimeIInv ==
  ASSUME IInv, NEW x \in Codes, Expire(x) \/ CooldownPasses(x)
  PROVE  IInv'
<1>1. UNCHANGED <<role, verified, deleted, issued, job, scenario>> /\ RolesKept
  BY DEF Expire, CooldownPasses, userVars, RolesKept
<1>2. PICK r \in Code : /\ code' = [code EXCEPT ![x] = r]
                        /\ r.owner = code[x].owner /\ r.type = code[x].type /\ (r.used <=> code[x].used)
  <2> DEFINE l == [code[x] EXCEPT !.live = FALSE]
             m == [code[x] EXCEPT !.recent = FALSE]
  <2>1. code[x] \in Code
    BY DEF IInv, Types
  <2>2. /\ l \in Code /\ l.owner = code[x].owner /\ l.type = code[x].type /\ (l.used <=> code[x].used)
        /\ m \in Code /\ m.owner = code[x].owner /\ m.type = code[x].type /\ (m.used <=> code[x].used)
    BY <2>1 DEF Code
  <2>3. code' = [code EXCEPT ![x] = l] \/ code' = [code EXCEPT ![x] = m]
    BY DEF Expire, CooldownPasses
  <2> HIDE DEF l, m
  <2> QED
    BY <2>2, <2>3
<1>3. code' \in [Codes -> Code] /\ code'[x] = r /\ \A c \in Codes : c # x => code'[c] = code[c]
  BY <1>2 DEF IInv, Types
<1>4. ASSUME NEW c \in 1..issued, NEW i \in Users, Open(c, i)' PROVE Open(c, i)
  <2>1. c \in Codes
    BY AccountConstants DEF IInv, Types, Codes
  <2> QED
    BY <1>2, <1>3, <1>4, <2>1 DEF Open
<1>5. CodesSound'
  BY <1>1, <1>4, VerifiedExist, CodesKept
<1>6. /\ \A g \in Handlers : JobSound(job[g])'
      /\ SuperAdminsStay'
  BY <1>1 DEF IInv, JobSound, Exists, SuperAdminsStay
<1> QED
  BY <1>1, <1>3, <1>5, <1>6 DEF IInv, Types

\* Only a login gives a token, and only to an account.
LEMMA TokenHolders == tokens \subseteq Users /\ [Next]_vars => tokens' \subseteq Users
<1> SUFFICES ASSUME tokens \subseteq Users, [Next]_vars PROVE tokens' \subseteq Users
  OBVIOUS
<1>1. ASSUME NEW h \in Handlers, Public(h) PROVE tokens' = tokens
  BY <1>1 DEF Public, RegisterRead, RegisterCreate, VerifyRead, ResendRead, ForgotRead, ResetRead,
     FindAccount, Begin, VerifyCompare, ResetCompare, CompareCode, MailSent, MailFails, Disable,
     VerifyConsume, ResendIssue, ForgotClear, ForgotIssue, ResetConsume
<1>2. ASSUME NEW h \in Handlers, Protected(h) PROVE tokens' = tokens
  BY <1>2 DEF Protected, Authenticate, Begin, ActorCheck, TargetCheck, CreateAdmin,
     UpdateCustomerProfile, UpdateOwnProfile, UpdateAdminById, WriteProfile, ChangeOwnPassword,
     DeleteCustomerProfile, DeactivateAdmin, RestoreAdmin, UpdateUserStatus, WriteStatus, Audit
<1>3. ASSUME \E h \in Handlers : Abandon(h) PROVE tokens' = tokens
  BY <1>3 DEF Abandon
<1>4. ASSUME \E c \in Codes : Expire(c) \/ CooldownPasses(c) PROVE tokens' = tokens
  BY <1>4 DEF Expire, CooldownPasses
<1>5. ASSUME NEW i \in Users, \E p \in scenario.passwords : Login(i, p) PROVE tokens' \subseteq Users
  BY <1>5 DEF Login
<1>6. CASE UNCHANGED vars
  BY <1>6 DEF vars
<1> QED
  BY <1>1, <1>2, <1>3, <1>4, <1>5, <1>6, Zenon DEF Next

LEMMA StepIInv == IInv /\ tokens \subseteq Users /\ [Next]_vars => IInv'
<1> SUFFICES ASSUME IInv, tokens \subseteq Users, [Next]_vars PROVE IInv'
  OBVIOUS
<1>1. ASSUME NEW h \in Handlers, Public(h) PROVE IInv'
  <2>1. ASSUME NEW e \in scenario.addresses, NEW p \in scenario.passwords,
               RegisterRead(h, e, p) \/ ResetRead(h, e, p)
        PROVE  IInv'
    <3>1. p \in scenario.passwords \cup {NoPassword}
      OBVIOUS
    <3> QED
      BY <2>1, <3>1, PublicReads
  <2>2. ASSUME NEW e \in scenario.addresses, VerifyRead(h, e) \/ ResendRead(h, e) \/ ForgotRead(h, e)
        PROVE  IInv'
    <3>1. NoPassword \in scenario.passwords \cup {NoPassword}
      OBVIOUS
    <3> QED
      BY <2>2, <3>1, PublicReads
  <2>3. ASSUME \/ \E x \in Codes : VerifyCompare(h, x) \/ ResetCompare(h, x)
               \/ MailSent(h) \/ MailFails(h)
        PROVE  IInv'
    BY <2>3, PublicQuiet
  <2>4. ASSUME (\E i \in Rows : RegisterCreate(h, i)) \/ ResendIssue(h) \/ ForgotIssue(h) PROVE IInv'
    BY <2>4, IssueIInv
  <2>5. ASSUME Disable(h) \/ ForgotClear(h) \/ ResetConsume(h) \/ VerifyConsume(h) PROVE IInv'
    BY <2>5, SpendIInv
  <2> QED
    BY <1>1, <2>1, <2>2, <2>3, <2>4, <2>5, Zenon DEF Public
<1>2. ASSUME NEW h \in Handlers, Protected(h) PROVE IInv'
  <2>1. ASSUME NEW i \in tokens, NEW op \in scenario.ops \cap (CustomerOps \cup SuperOps \cup AdminOps),
               Authenticate(h, i, op)
        PROVE  IInv'
    BY <2>1, AuthenticateIInv
  <2>2. ASSUME ActorCheck(h) \/ TargetCheck(h) PROVE IInv'
    BY <2>2, CheckIInv
  <2>3. ASSUME \E i \in Rows : CreateAdmin(h, i) PROVE IInv'
    BY <2>3, CreateAdminIInv
  <2>4. ASSUME \/ UpdateCustomerProfile(h) \/ UpdateOwnProfile(h) \/ UpdateAdminById(h) \/ ChangeOwnPassword(h)
               \/ DeleteCustomerProfile(h) \/ DeactivateAdmin(h) \/ RestoreAdmin(h) \/ UpdateUserStatus(h)
        PROVE  IInv'
    BY <2>4, WriteIInv
  <2>5. Audit(h) => IInv'
    BY PublicQuiet
  <2> QED
    BY <1>2, <2>1, <2>2, <2>3, <2>4, <2>5, Zenon DEF Protected
<1>3. ASSUME NEW h \in Handlers, Abandon(h) PROVE IInv'
  BY <1>3, PublicQuiet
<1>4. ASSUME UNCHANGED vars \/ \E i \in Users, p \in scenario.passwords : Login(i, p) PROVE IInv'
  <2>1. UNCHANGED <<role, verified, deleted, codeVars, scenario, job>>
    BY <1>4 DEF vars, Login, userVars
  <2> QED
    BY <2>1, QuietStep DEF IInv, Types, JobSound, Exists
<1>5. ASSUME NEW c \in Codes, Expire(c) \/ CooldownPasses(c) PROVE IInv'
  BY <1>5, TimeIInv
<1> QED
  BY <1>1, <1>2, <1>3, <1>4, <1>5, Zenon DEF Next

------------------------------------------------------------------------------
(* What accounts can rely on *)

LEMMA Invariance == Spec => []IInv
<1>1. Init => tokens \subseteq Users
  BY DEF Init, Users
<1>2. (tokens \subseteq Users) /\ [Next]_vars => (tokens \subseteq Users)'
  BY TokenHolders DEF Users
<1>3. IInv /\ (tokens \subseteq Users) /\ [Next]_vars => IInv'
  BY StepIInv
<1> QED
  BY <1>1, <1>2, <1>3, InitIInv, PTL DEF Spec

LEMMA AtMostOne ==
  ASSUME NEW S, \A x, y \in S : x = y
  PROVE  Cardinality(S) <= 1
<1>1. CASE S = {}
  BY <1>1, FS_EmptySet
<1>2. CASE S # {}
  <2>1. PICK x \in S : S = {x}
    BY <1>2
  <2> QED
    BY <2>1, FS_Singleton
<1> QED
  BY <1>1, <1>2

\* An administrator is deactivated or restored only in a step of a request that a
\* super administrator makes: the role that deactivateAdmin, restoreAdmin and
\* updateUserStatus checked is still the role of the row when they write by id.
THEOREM AdminsStayManaged == Spec => AdminsAreManagedBySupers
<1> DEFINE A == \A i \in Users : role[i] = "ADMIN" /\ deleted'[i] # deleted[i] =>
                  \E h \in Handlers : /\ job[h].id = i /\ job'[h] # job[h]
                                      /\ role[job[h].by] = "SUPER_ADMIN"
<1>1. IInv /\ [Next]_vars => A
  <2> SUFFICES ASSUME IInv, [Next]_vars PROVE A
    OBVIOUS
  <2>1. ASSUME NEW h \in Handlers,
               DeactivateAdmin(h) \/ RestoreAdmin(h) \/ UpdateUserStatus(h)
        PROVE  A
    <3>1. JobSound(job[h]) /\ job \in [Handlers -> Job] /\ role \in [Users -> Roles]
      BY DEF IInv, Types
    <3>2. /\ job[h].step = "write"
          /\ job[h].op \in {"deactivateAdmin", "restoreAdmin", "deactivateUser", "restoreUser"}
          /\ \E b \in BOOLEAN : deleted' = [deleted EXCEPT ![job[h].id] = b]
      BY <2>1 DEF DeactivateAdmin, RestoreAdmin, UpdateUserStatus, WriteStatus, At
    <3>3. \A i \in Users : deleted'[i] # deleted[i] => i = job[h].id
      BY <3>2 DEF IInv, Types
    <3>4. role[job[h].id] = "ADMIN" => role[job[h].by] = "SUPER_ADMIN"
      BY <3>1, <3>2 DEF JobSound, SuperOps
    <3>5. job'[h] # job[h]
      <4>1. \/ job' = [job EXCEPT ![h] = Idle]
            \/ job' = [job EXCEPT ![h].step = "audit"]
        BY <2>1 DEF DeactivateAdmin, RestoreAdmin, UpdateUserStatus, Finish, Move
      <4>2. Idle.step = "idle"
        BY DEF Idle
      <4> QED
        BY <3>1, <3>2, <4>1, <4>2 DEF Job
    <3> QED
      BY <3>3, <3>4, <3>5
  <2>2. ASSUME NEW h \in Handlers, DeleteCustomerProfile(h) PROVE A
    <3>1. job[h].id \in Users /\ role[job[h].id] = "CUSTOMER"
      BY <2>2 DEF DeleteCustomerProfile, At, IInv, JobSound
    <3> QED
      BY <2>2, <3>1 DEF DeleteCustomerProfile, IInv, Types
  <2>3. ASSUME deleted' = deleted PROVE A
    BY <2>3
  <2>4. ASSUME NEW h \in Handlers, Public(h) PROVE deleted' = deleted
    BY <2>4 DEF Public, RegisterRead, RegisterCreate, NewRow, VerifyRead, ResendRead, ForgotRead, ResetRead,
       FindAccount, Begin, VerifyCompare, ResetCompare, CompareCode, MailSent, MailFails, Disable,
       VerifyConsume, ResendIssue, ForgotClear, ForgotIssue, ResetConsume, userVars
  <2>5. ASSUME NEW h \in Handlers, Protected(h)
        PROVE  \/ deleted' = deleted \/ DeleteCustomerProfile(h)
               \/ DeactivateAdmin(h) \/ RestoreAdmin(h) \/ UpdateUserStatus(h)
    BY <2>5 DEF Protected, Authenticate, Begin, ActorCheck, TargetCheck, CreateAdmin, NewRow,
       UpdateCustomerProfile, UpdateOwnProfile, UpdateAdminById, WriteProfile, ChangeOwnPassword, Audit, userVars
  <2>6. ASSUME \/ \E h \in Handlers : Abandon(h)
               \/ \E i \in Users, p \in scenario.passwords : Login(i, p)
               \/ \E c \in Codes : Expire(c) \/ CooldownPasses(c)
               \/ UNCHANGED vars
        PROVE  deleted' = deleted
    BY <2>6 DEF Abandon, Login, Expire, CooldownPasses, userVars, vars
  <2> HIDE DEF A
  <2>7. ASSUME NEW h \in Handlers, Public(h) \/ Protected(h) PROVE A
    BY <2>1, <2>2, <2>3, <2>4, <2>5, <2>7, Zenon
  <2> QED
    BY <2>3, <2>6, <2>7, Zenon DEF Next
<1> QED
  BY <1>1, Invariance, PTL DEF Spec, AdminsAreManagedBySupers

------------------------------------------------------------------------------
(* Types *)

\* What a request that mails a code or writes an audit row carries with it.
Carries(j) ==
  /\ j.step = "mail" => j.code \in Codes
  /\ j.step = "audit" => j.op \in AdminOps

Rest ==
  /\ email \in [Users -> Addresses \cup {NoAddress}]
  /\ password \in [Users -> Passwords \cup {NoPassword}]
  /\ profile \in [Users -> {"personal", "anonymous"}]
  /\ read \subseteq Codes /\ log \subseteq [action : AdminOps, id : Users]
  /\ \A h \in Handlers : Carries(job[h])

LEMMA CarriesOn ==
  ASSUME IInv, Rest, NEW h \in Handlers, NEW j, Carries(j), job' = [job EXCEPT ![h] = j]
  PROVE  \A g \in Handlers : Carries(job'[g])
BY DEF IInv, Types, Rest

LEMMA CarriesMoved ==
  ASSUME IInv, Rest, NEW h \in Handlers, NEW s, s # "mail", s = "audit" => job[h].op \in AdminOps,
         Move(h, s)
  PROVE  \A g \in Handlers : Carries(job'[g])
<1>1. /\ job'[h].step = s /\ job'[h].op = job[h].op
      /\ \A g \in Handlers : g # h => job'[g] = job[g]
  BY DEF Move, IInv, Types, Job
<1> QED
  BY <1>1 DEF Carries, Rest

LEMMA FinishCarries ==
  ASSUME IInv, Rest, NEW h \in Handlers, Finish(h)
  PROVE  \A g \in Handlers : Carries(job'[g])
<1>1. Carries(Idle)
  BY DEF Idle, Carries
<1> QED
  BY <1>1, CarriesOn DEF Finish

LEMMA BeginCarries ==
  ASSUME IInv, Rest, NEW h \in Handlers, NEW op, NEW step \in {"create", "code", "issue", "clear", "actor"},
         NEW i, NEW by, NEW e, NEW p, Begin(h, op, step, i, by, e, p)
  PROVE  Rest'
<1> DEFINE j == [op |-> op, step |-> step, id |-> i, by |-> by, email |-> e, pw |-> p, code |-> 0]
<1>1. Carries(j) /\ job' = [job EXCEPT ![h] = j]
  BY DEF Begin, Carries
<1>2. \A g \in Handlers : Carries(job'[g])
  BY <1>1, CarriesOn
<1> QED
  BY <1>2 DEF Begin, Rest, userVars

LEMMA IssueCarries ==
  ASSUME IInv, Rest, NEW h \in Handlers, NEW i, NEW type, NEW old, Issue(h, i, type, old)
  PROVE  \A g \in Handlers : Carries(job'[g])
<1> DEFINE j == [op |-> job[h].op, step |-> "mail", id |-> i, by |-> job[h].by,
                 email |-> job[h].email, pw |-> job[h].pw, code |-> issued + 1]
<1>1. scenario.codes \in 0..MaxCodes /\ issued \in 0..MaxCodes /\ MaxCodes \in Nat
  BY AccountConstants DEF IInv, Types, Scenario
<1>2. issued + 1 \in Codes
  BY <1>1 DEF Issue, Codes
<1>3. Carries(j) /\ job' = [job EXCEPT ![h] = j]
  BY <1>2 DEF Issue, Carries
<1> QED
  BY <1>3, CarriesOn

LEMMA PublicRest ==
  ASSUME IInv, Rest, NEW h \in Handlers, Public(h)
  PROVE  Rest'
<1>0. job[h] \in Job
  BY DEF IInv, Types
<1>1. ASSUME NEW e, NEW p, RegisterRead(h, e, p) \/ ResetRead(h, e, p) PROVE Rest'
  BY <1>1, BeginCarries DEF RegisterRead, ResetRead, FindAccount
<1>2. ASSUME NEW e, VerifyRead(h, e) \/ ResendRead(h, e) \/ ForgotRead(h, e) PROVE Rest'
  BY <1>2, BeginCarries DEF VerifyRead, ResendRead, ForgotRead, FindAccount
<1>3. ASSUME NEW i \in Rows, RegisterCreate(h, i) PROVE Rest'
  <2>1. \A g \in Handlers : Carries(job'[g])
    BY <1>3, IssueCarries DEF RegisterCreate
  <2>2. /\ email' = [email EXCEPT ![i] = job[h].email] /\ password' = [password EXCEPT ![i] = job[h].pw]
        /\ UNCHANGED <<profile, read, log>>
    BY <1>3 DEF RegisterCreate, NewRow
  <2> QED
    BY <1>0, <2>1, <2>2 DEF Rest, Job
<1>4. ASSUME NEW x, VerifyCompare(h, x) \/ ResetCompare(h, x) PROVE Rest'
  <2> DEFINE j == [op |-> job[h].op, step |-> "consume", id |-> job[h].id, by |-> job[h].by,
                   email |-> job[h].email, pw |-> job[h].pw, code |-> x]
  <2>1. Carries(j) /\ job' = [job EXCEPT ![h] = j] /\ UNCHANGED <<userVars, read, log>>
    BY <1>4 DEF VerifyCompare, ResetCompare, CompareCode, Carries
  <2>2. \A g \in Handlers : Carries(job'[g])
    BY <2>1, CarriesOn
  <2> QED
    BY <2>1, <2>2 DEF Rest, userVars
<1>5. CASE MailSent(h) \/ MailFails(h)
  <2>1. job[h].step = "mail" /\ read' \in {read, read \cup {job[h].code}} /\ UNCHANGED <<userVars, log>>
    BY <1>5 DEF MailSent, MailFails
  <2>2. read' \subseteq Codes
    BY <2>1 DEF Rest, Carries
  <2>3. \A g \in Handlers : Carries(job'[g])
    BY <1>5, FinishCarries, CarriesMoved DEF MailSent, MailFails
  <2> QED
    BY <2>1, <2>2, <2>3 DEF Rest, userVars
<1>6. CASE Disable(h) \/ VerifyConsume(h)
  <2>1. Finish(h) /\ UNCHANGED <<email, password, profile, read, log>>
    BY <1>6 DEF Disable, VerifyConsume, userVars
  <2> QED
    BY <2>1, FinishCarries DEF Rest
<1>7. CASE ResendIssue(h) \/ ForgotIssue(h)
  <2>1. (\A g \in Handlers : Carries(job'[g])) /\ UNCHANGED <<userVars, read, log>>
    BY <1>7, IssueCarries DEF ResendIssue, ForgotIssue
  <2> QED
    BY <2>1 DEF Rest, userVars
<1>8. CASE ForgotClear(h)
  BY <1>8, CarriesMoved DEF ForgotClear, Rest, userVars
<1>9. CASE ResetConsume(h)
  <2>1. /\ password' = [password EXCEPT ![job[h].id] = job[h].pw] /\ Finish(h)
        /\ UNCHANGED <<email, profile, read, log>>
    BY <1>9 DEF ResetConsume
  <2> QED
    BY <1>0, <2>1, FinishCarries DEF Rest, Job
<1> QED
  BY <1>1, <1>2, <1>3, <1>4, <1>5, <1>6, <1>7, <1>8, <1>9, Zenon DEF Public

LEMMA ProtectedRest ==
  ASSUME IInv, Rest, NEW h \in Handlers, Protected(h)
  PROVE  Rest'
<1>0. job[h] \in Job /\ JobSound(job[h])
  BY DEF IInv, Types
<1>1. ASSUME NEW i, NEW op, Authenticate(h, i, op) PROVE Rest'
  BY <1>1, BeginCarries DEF Authenticate
<1>2. CASE ActorCheck(h) \/ TargetCheck(h)
  <2>1. \E s \in {"write", "target", "audit"} : Move(h, s) /\ (s = "audit" => job[h].op = "resolveIssue")
    BY <1>2 DEF ActorCheck, TargetCheck
  <2>2. UNCHANGED <<userVars, read, log>>
    BY <1>2 DEF ActorCheck, TargetCheck
  <2>3. \A g \in Handlers : Carries(job'[g])
    BY <2>1, CarriesMoved DEF AdminOps
  <2> QED
    BY <2>2, <2>3 DEF Rest, userVars
<1>3. ASSUME NEW i \in Rows, CreateAdmin(h, i) PROVE Rest'
  <2>1. /\ email' = [email EXCEPT ![i] = job[h].email] /\ password' = [password EXCEPT ![i] = job[h].pw]
        /\ Finish(h) /\ UNCHANGED <<profile, read, log>>
    BY <1>3 DEF CreateAdmin, NewRow
  <2> QED
    BY <1>0, <2>1, FinishCarries DEF Rest, Job
<1>4. CASE UpdateCustomerProfile(h) \/ UpdateOwnProfile(h) \/ UpdateAdminById(h)
  <2>1. profile' = [profile EXCEPT ![job[h].id] = "personal"] /\ Finish(h) /\ UNCHANGED <<email, password, read, log>>
    BY <1>4 DEF UpdateCustomerProfile, UpdateOwnProfile, UpdateAdminById, WriteProfile
  <2> QED
    BY <2>1, FinishCarries DEF Rest
<1>5. CASE ChangeOwnPassword(h)
  <2>1. /\ password' = [password EXCEPT ![job[h].id] = job[h].pw] /\ Finish(h)
        /\ UNCHANGED <<email, profile, read, log>>
    BY <1>5 DEF ChangeOwnPassword
  <2> QED
    BY <1>0, <2>1, FinishCarries DEF Rest, Job
<1>6. CASE DeleteCustomerProfile(h)
  <2>1. /\ email' = [email EXCEPT ![job[h].id] = NoAddress] /\ password' = [password EXCEPT ![job[h].id] = NoPassword]
        /\ profile' = [profile EXCEPT ![job[h].id] = "anonymous"] /\ Finish(h) /\ UNCHANGED <<read, log>>
    BY <1>6 DEF DeleteCustomerProfile, Released
  <2> QED
    BY <2>1, FinishCarries DEF Rest
<1>7. CASE DeactivateAdmin(h) \/ RestoreAdmin(h)
  <2>1. Finish(h) /\ UNCHANGED <<email, password, profile, read, log>>
    BY <1>7 DEF DeactivateAdmin, RestoreAdmin, WriteStatus
  <2> QED
    BY <2>1, FinishCarries DEF Rest
<1>8. CASE UpdateUserStatus(h)
  <2>1. /\ Move(h, "audit") /\ job[h].op \in {"deactivateUser", "restoreUser"}
        /\ UNCHANGED <<email, password, profile, read, log>>
    BY <1>8 DEF UpdateUserStatus, WriteStatus, At
  <2>2. \A g \in Handlers : Carries(job'[g])
    BY <2>1, CarriesMoved DEF AdminOps
  <2> QED
    BY <2>1, <2>2 DEF Rest
<1>9. CASE Audit(h)
  <2> DEFINE row == [action |-> job[h].op, id |-> job[h].id]
  <2>1. /\ job[h].step = "audit" /\ log' = log \cup {row} /\ Finish(h)
        /\ UNCHANGED <<userVars, read>>
    BY <1>9 DEF Audit
  <2>2. job[h].op \in AdminOps /\ job[h].op # "createAdmin"
    BY <2>1 DEF Rest, Carries, AdminOps
  <2>3. row \in [action : AdminOps, id : Users]
    BY <1>0, <2>2 DEF JobSound
  <2> HIDE DEF row
  <2> QED
    BY <2>1, <2>3, FinishCarries DEF Rest, userVars
<1> QED
  BY <1>1, <1>2, <1>3, <1>4, <1>5, <1>6, <1>7, <1>8, <1>9, Zenon DEF Protected

LEMMA RestStep == IInv /\ Rest /\ [Next]_vars => Rest'
<1> SUFFICES ASSUME IInv, Rest, [Next]_vars PROVE Rest'
  OBVIOUS
<1>1. ASSUME NEW h \in Handlers, Abandon(h) PROVE Rest'
  BY <1>1, FinishCarries DEF Abandon, Rest, userVars
<1>2. ASSUME \/ \E i \in Users, p \in scenario.passwords : Login(i, p)
             \/ \E c \in Codes : Expire(c) \/ CooldownPasses(c)
             \/ UNCHANGED vars
      PROVE  Rest'
  BY <1>2 DEF Login, Expire, CooldownPasses, userVars, vars, Rest
<1> QED
  BY <1>1, <1>2, PublicRest, ProtectedRest, Zenon DEF Next

LEMMA RestInvariance == Spec => []Rest
<1>1. Init => Rest
  <2> SUFFICES ASSUME Init PROVE Rest
    OBVIOUS
  <2>1. scenario.passwords \subseteq Passwords
    BY AccountConstants DEF Init, Scenario
  <2>2. \A h \in Handlers : Carries(job[h])
    BY DEF Init, Idle, Carries
  <2> QED
    BY <2>1, <2>2 DEF Init, Rest
<1> QED
  BY <1>1, RestStep, Invariance, PTL DEF Spec

\* createUser and resendEmailVerification leave no account with two usable
\* verification codes, verifyEmail leaves none at all, however they overlap; and no
\* route deactivates a super administrator, although each writes by id what
\* another query checked.
THEOREM AccountsStaySound == Spec => []AccountInvariant
<1>1. IInv /\ Rest /\ tokens \subseteq Users => TypeOK
  BY DEF IInv, Types, Roles, Rest, TypeOK
<1>2. IInv => OneLiveVerificationCode
  BY AtMostOne DEF IInv, CodesSound, Open, Unused, OneLiveVerificationCode
<1>3. IInv => VerifiedHasNoCode /\ SuperAdminsStay
  BY DEF IInv, CodesSound, Open, Unused, VerifiedHasNoCode
<1>4. Init => tokens \subseteq Users
  BY DEF Init, Users
<1>5. (tokens \subseteq Users) /\ [Next]_vars => (tokens \subseteq Users)'
  BY TokenHolders DEF Users
<1> QED
  BY <1>1, <1>2, <1>3, <1>4, <1>5, RestInvariance, Invariance, PTL DEF Spec, AccountInvariant
------------------------------------------------------------------------------
(* Which request a step belongs to, and what it does to the codes *)

\* A step of another request leaves this one where it is.
LEMMA OthersWait ==
  ASSUME IInv, NEW h \in Handlers, NEW g \in Handlers, g # h,
         Public(g) \/ Protected(g) \/ Abandon(g)
  PROVE  job'[h] = job[h]
<1>1. ASSUME NEW j, job' = [job EXCEPT ![g] = j] PROVE job'[h] = job[h]
  BY <1>1 DEF IInv, Types
<1>2. ASSUME NEW s, Move(g, s) PROVE job'[h] = job[h]
  BY <1>2, <1>1 DEF Move
<1>3. Finish(g) => job'[h] = job[h]
  BY <1>1 DEF Finish
<1>4. ASSUME NEW op, NEW step, NEW i, NEW by, NEW e, NEW p, Begin(g, op, step, i, by, e, p)
      PROVE  job'[h] = job[h]
  BY <1>4, <1>1 DEF Begin
<1>5. ASSUME NEW i, NEW type, NEW old, Issue(g, i, type, old) PROVE job'[h] = job[h]
  BY <1>5, <1>1 DEF Issue
<1>6. CASE Public(g)
  <2>1. ASSUME NEW x \in Codes, VerifyCompare(g, x) \/ ResetCompare(g, x) PROVE job'[h] = job[h]
    BY <2>1, <1>1 DEF VerifyCompare, ResetCompare, CompareCode
  <2>2. MailFails(g) => job'[h] = job[h]
    BY <1>2, <1>3 DEF MailFails
  <2> QED
    BY <1>2, <1>3, <1>4, <1>5, <1>6, <2>1, <2>2, Zenon DEF Public, RegisterRead, RegisterCreate, VerifyRead,
       ResendRead, ForgotRead, ResetRead, FindAccount, MailSent, Disable, VerifyConsume, ResendIssue,
       ForgotClear, ForgotIssue, ResetConsume
<1>7. CASE Protected(g)
  <2>1. ActorCheck(g) \/ TargetCheck(g) => job'[h] = job[h]
    BY <1>2 DEF ActorCheck, TargetCheck
  <2> QED
    BY <1>2, <1>3, <1>4, <1>7, <2>1, Zenon DEF Protected, Authenticate, CreateAdmin,
       UpdateCustomerProfile, UpdateOwnProfile, UpdateAdminById, WriteProfile, ChangeOwnPassword,
       DeleteCustomerProfile, DeactivateAdmin, RestoreAdmin, UpdateUserStatus, Audit
<1> QED
  BY <1>3, <1>6, <1>7 DEF Abandon

LEMMA OwnStep ==
  ASSUME IInv, [Next]_vars, NEW h \in Handlers, job'[h] # job[h]
  PROVE  Public(h) \/ Protected(h) \/ Abandon(h)
<1>1. ASSUME NEW g \in Handlers, Public(g) \/ Protected(g) \/ Abandon(g)
      PROVE  g = h
  BY <1>1, OthersWait
<1>2. ASSUME \/ \E i \in Users, p \in scenario.passwords : Login(i, p)
             \/ \E c \in Codes : Expire(c) \/ CooldownPasses(c)
             \/ UNCHANGED vars
      PROVE  FALSE
  BY <1>2 DEF Login, Expire, CooldownPasses, vars
<1> QED
  BY <1>1, <1>2, Zenon DEF Next

\* A request that begins.
Begins(h) ==
  \/ \E e \in scenario.addresses, p \in scenario.passwords : RegisterRead(h, e, p) \/ ResetRead(h, e, p)
  \/ \E e \in scenario.addresses : VerifyRead(h, e) \/ ResendRead(h, e) \/ ForgotRead(h, e)
  \/ \E i \in tokens, op \in scenario.ops \cap (CustomerOps \cup SuperOps \cup AdminOps) :
       Authenticate(h, i, op)

\* A request that goes on keeps what it is about.
Continues(h) ==
  /\ job'[h].op = job[h].op /\ job'[h].pw = job[h].pw
  /\ job'[h].id = job[h].id \/ job[h].op = "createUser"
  /\ job'[h].step = "consume" => \E x \in Codes : VerifyCompare(h, x) \/ ResetCompare(h, x)
  /\ job'[h].step = "issue" => ForgotClear(h)

LEMMA JobChanges ==
  ASSUME IInv, [Next]_vars, NEW h \in Handlers, job'[h] # job[h]
  PROVE  Begins(h) \/ (job[h] # Idle /\ (job'[h] = Idle \/ Continues(h)))
<1> DEFINE Kind == Begins(h) \/ (job[h] # Idle /\ (job'[h] = Idle \/ Continues(h)))
<1>0. job[h] \in Job /\ job \in [Handlers -> Job] /\ Idle.step = "idle"
  BY DEF IInv, Types, Idle
<1>1. ASSUME Finish(h) PROVE Kind
  BY <1>0, <1>1 DEF Finish
<1>2. ASSUME NEW s \in {"disable", "write", "target", "audit"}, job[h] # Idle, Move(h, s) PROVE Kind
  <2>1. /\ job'[h].op = job[h].op /\ job'[h].pw = job[h].pw /\ job'[h].id = job[h].id
        /\ job'[h].step = s
    BY <1>0, <1>2 DEF Move, Job
  <2> QED
    BY <1>2, <2>1 DEF Continues
<1>3. ASSUME job[h].step # "idle" PROVE job[h] # Idle
  BY <1>0, <1>3
<1>4. ASSUME NEW i, NEW type, NEW old, Issue(h, i, type, old), job[h].step # "idle",
             i = job[h].id \/ job[h].op = "createUser"
      PROVE  Kind
  <2> DEFINE j == [op |-> job[h].op, step |-> "mail", id |-> i, by |-> job[h].by,
                   email |-> job[h].email, pw |-> job[h].pw, code |-> issued + 1]
  <2>1. job' = [job EXCEPT ![h] = j]
    BY <1>4 DEF Issue
  <2>2. job'[h] = j
    BY <1>0, <2>1
  <2>3. /\ job'[h].op = job[h].op /\ job'[h].pw = job[h].pw /\ job'[h].id = i
        /\ job'[h].step = "mail"
    BY <2>2
  <2> HIDE DEF j
  <2> QED
    BY <1>3, <1>4, <2>3 DEF Continues
<1>5. ASSUME NEW x \in Codes, VerifyCompare(h, x) \/ ResetCompare(h, x) PROVE Kind
  <2> DEFINE j == [op |-> job[h].op, step |-> "consume", id |-> job[h].id, by |-> job[h].by,
                   email |-> job[h].email, pw |-> job[h].pw, code |-> x]
  <2>1. job' = [job EXCEPT ![h] = j] /\ job[h].step = "code"
    BY <1>5 DEF VerifyCompare, ResetCompare, CompareCode, At
  <2>2. job'[h] = j
    BY <1>0, <2>1
  <2>3. /\ job'[h].op = job[h].op /\ job'[h].pw = job[h].pw /\ job'[h].id = job[h].id
        /\ job'[h].step = "consume"
    BY <2>2
  <2> HIDE DEF j
  <2>4. job[h] # Idle
    BY <1>3, <2>1
  <2> QED
    BY <1>5, <2>3, <2>4 DEF Continues
<1>6. ASSUME ForgotClear(h) PROVE Kind
  <2>1. job[h].step = "clear" /\ Move(h, "issue")
    BY <1>6 DEF ForgotClear, At
  <2>2. /\ job'[h].op = job[h].op /\ job'[h].pw = job[h].pw /\ job'[h].id = job[h].id
        /\ job'[h].step = "issue"
    BY <1>0, <2>1 DEF Move, Job
  <2> QED
    BY <1>3, <1>6, <2>1, <2>2 DEF Continues
<1>7. ASSUME \/ \E e \in scenario.addresses, p \in scenario.passwords : RegisterRead(h, e, p) \/ ResetRead(h, e, p)
             \/ \E e \in scenario.addresses : VerifyRead(h, e) \/ ResendRead(h, e) \/ ForgotRead(h, e)
             \/ \E i \in tokens, op \in scenario.ops \cap (CustomerOps \cup SuperOps \cup AdminOps) :
                  Authenticate(h, i, op)
      PROVE  Kind
  BY <1>7, Zenon DEF Begins
<1>8. ASSUME NEW i \in Rows, RegisterCreate(h, i) PROVE Kind
  <2>1. job[h].step # "idle" /\ job[h].op = "createUser" /\ Issue(h, i, "EMAIL_VERIFICATION", {})
    BY <1>8 DEF RegisterCreate, At
  <2> QED
    BY <2>1, <1>4
<1>9. ASSUME ResendIssue(h) \/ ForgotIssue(h) PROVE Kind
  <2>1. job[h].step # "idle" /\ \E type, old : Issue(h, job[h].id, type, old)
    BY <1>9 DEF ResendIssue, ForgotIssue, At
  <2> QED
    BY <2>1, <1>4
<1>10. ASSUME MailSent(h) \/ Disable(h) \/ VerifyConsume(h) \/ ResetConsume(h) PROVE Kind
  BY <1>10, <1>1 DEF MailSent, Disable, VerifyConsume, ResetConsume
<1>11. ASSUME MailFails(h) PROVE Kind
  <2>1. job[h] # Idle /\ (Finish(h) \/ Move(h, "disable"))
    BY <1>11, <1>3 DEF MailFails
  <2> QED
    BY <2>1, <1>1, <1>2
<1>12. ASSUME ActorCheck(h) \/ TargetCheck(h) PROVE Kind
  <2>1. job[h] # Idle /\ \E s \in {"write", "target", "audit"} : Move(h, s)
    BY <1>12, <1>3 DEF ActorCheck, TargetCheck
  <2> QED
    BY <2>1, <1>2
<1>13. ASSUME \/ \E i \in Rows : CreateAdmin(h, i)
              \/ UpdateCustomerProfile(h) \/ UpdateOwnProfile(h) \/ UpdateAdminById(h)
              \/ ChangeOwnPassword(h) \/ DeleteCustomerProfile(h)
              \/ DeactivateAdmin(h) \/ RestoreAdmin(h) \/ Audit(h) \/ Abandon(h)
       PROVE  Kind
  BY <1>13, <1>1 DEF CreateAdmin, UpdateCustomerProfile, UpdateOwnProfile, UpdateAdminById, WriteProfile,
     ChangeOwnPassword, DeleteCustomerProfile, DeactivateAdmin, RestoreAdmin, Audit, Abandon
<1>14. ASSUME UpdateUserStatus(h) PROVE Kind
  <2>1. job[h].step = "write" /\ Move(h, "audit")
    BY <1>14 DEF UpdateUserStatus, WriteStatus, At
  <2> QED
    BY <2>1, <1>2, <1>3
<1> HIDE DEF Kind
<1>15. Public(h) => Kind
  BY <1>5, <1>6, <1>7, <1>8, <1>9, <1>10, <1>11, Zenon DEF Public
<1>16. Protected(h) => Kind
  BY <1>7, <1>12, <1>13, <1>14, Zenon DEF Protected
<1>17. Kind
  BY <1>13, <1>15, <1>16, OwnStep
<1> QED
  BY <1>17 DEF Kind

\* A transaction, or the second write of a forgotten password, that issues a code.
Issues(h) == (\E i \in Rows : RegisterCreate(h, i)) \/ ResendIssue(h) \/ ForgotIssue(h)

\* The four ways the table of codes is written.
LEMMA CodeWrites ==
  ASSUME [Next]_vars
  PROVE  \/ UNCHANGED codeVars
         \/ issued' = issued /\ \E S : code' = Spend(S)
         \/ \E c \in Codes : Expire(c) \/ CooldownPasses(c)
         \/ \E h \in Handlers : Issues(h)
<1>1. ASSUME NEW h \in Handlers, Public(h)
      PROVE  \/ UNCHANGED codeVars
             \/ issued' = issued /\ \E S : code' = Spend(S)
             \/ Issues(h)
  <2>1. CASE Disable(h) \/ ForgotClear(h) \/ ResetConsume(h) \/ VerifyConsume(h)
    BY <2>1 DEF Disable, ForgotClear, ResetConsume, VerifyConsume
  <2>2. CASE Issues(h)
    BY <2>2
  <2>3. CASE UNCHANGED codeVars
    BY <2>3
  <2> QED
    BY <1>1, <2>1, <2>2, <2>3, Zenon DEF Public, Issues, RegisterRead, VerifyRead,
       ResendRead, ForgotRead, ResetRead, FindAccount, Begin, VerifyCompare, ResetCompare, CompareCode,
       MailSent, MailFails
<1>2. ASSUME NEW h \in Handlers, Protected(h) PROVE UNCHANGED codeVars
  BY <1>2 DEF Protected, Authenticate, Begin, ActorCheck, TargetCheck, CreateAdmin,
     UpdateCustomerProfile, UpdateOwnProfile, UpdateAdminById, WriteProfile, ChangeOwnPassword,
     DeleteCustomerProfile, DeactivateAdmin, RestoreAdmin, UpdateUserStatus, WriteStatus, Audit
<1>3. ASSUME \/ \E h \in Handlers : Abandon(h)
             \/ \E i \in Users, p \in scenario.passwords : Login(i, p)
             \/ UNCHANGED vars
      PROVE  UNCHANGED codeVars
  BY <1>3 DEF Abandon, Login, vars
<1> QED
  BY <1>1, <1>2, <1>3, Zenon DEF Next

\* A record of a code is spent or ages; its owner and type stay.
SameCode(q, r) == q.owner = r.owner /\ q.type = r.type /\ (r.used => q.used)

LEMMA SpendKeeps ==
  ASSUME IInv, NEW S, NEW c \in Codes
  PROVE  SameCode(Spend(S)[c], code[c])
<1>1. code[c] \in Code
  BY DEF IInv, Types
<1>2. CASE c \in S
  BY <1>1, <1>2, SpentCode DEF Spend, SameCode
<1>3. CASE c \notin S
  BY <1>3 DEF Spend, SameCode
<1> QED
  BY <1>2, <1>3

\* What an issue writes: the next number, for this account, which the request then mails.
LEMMA IssueWrites ==
  ASSUME IInv, NEW h \in Handlers, NEW i \in Users \cup {NoUser}, NEW type \in CodeTypes, NEW old,
         Issue(h, i, type, old)
  PROVE  /\ issued' = issued + 1 /\ issued + 1 \in Codes /\ issued \in Nat
         /\ code'[issued + 1].owner = i /\ code'[issued + 1].type = type
         /\ job'[h] = [op |-> job[h].op, step |-> "mail", id |-> i, by |-> job[h].by,
                       email |-> job[h].email, pw |-> job[h].pw, code |-> issued + 1]
<1>1. scenario.codes \in 0..MaxCodes /\ issued \in 0..MaxCodes /\ MaxCodes \in Nat
  BY AccountConstants DEF IInv, Types, Scenario
<1>2. issued' = issued + 1 /\ issued + 1 \in Codes /\ issued \in Nat
  BY <1>1 DEF Issue, Codes
<1>3. code' = [Spend(old) EXCEPT ![issued + 1] = NewCode(i, type)]
  BY DEF Issue
<1>4. code'[issued + 1] = NewCode(i, type)
  <2>1. Spend(old) \in [Codes -> Code]
    BY Spending
  <2> QED
    BY <1>2, <1>3, <2>1
<1>5. job'[h] = [op |-> job[h].op, step |-> "mail", id |-> i, by |-> job[h].by,
                 email |-> job[h].email, pw |-> job[h].pw, code |-> issued + 1]
  BY DEF Issue, IInv, Types
<1> QED
  BY <1>2, <1>4, <1>5, NewCodes

LEMMA IssueSpends ==
  ASSUME IInv, NEW h \in Handlers, NEW i, NEW type, NEW old, Issue(h, i, type, old), NEW c \in 1..issued
  PROVE  c \in Codes /\ SameCode(code'[c], code[c]) /\ (c \in old => code'[c].used)
<1>1. scenario.codes \in 0..MaxCodes /\ issued \in 0..MaxCodes /\ MaxCodes \in Nat
  BY AccountConstants DEF IInv, Types, Scenario
<1>2. c \in Codes /\ c # issued + 1
  BY <1>1 DEF Codes
<1>3. code'[c] = Spend(old)[c]
  <2>1. code' = [Spend(old) EXCEPT ![issued + 1] = NewCode(i, type)]
    BY DEF Issue
  <2>2. Spend(old) \in [Codes -> Code]
    BY Spending
  <2> QED
    BY <1>2, <2>1, <2>2
<1> QED
  BY <1>2, <1>3, SpendKeeps, Spending

LEMMA IssuerOf ==
  ASSUME IInv, NEW h \in Handlers, Issues(h)
  PROVE  \E i \in Users \cup {NoUser}, type \in CodeTypes : \E old : Issue(h, i, type, old)
<1>1. job[h].id \in Users \cup {NoUser}
  BY DEF IInv, Types, Job
<1> QED
  BY <1>1 DEF Issues, RegisterCreate, ResendIssue, ForgotIssue, CodeTypes, Users

\* Codes are never taken back, change hands or become usable again.
LEMMA CodeHistory ==
  ASSUME IInv, [Next]_vars
  PROVE  /\ issued \in Nat /\ issued' \in {issued, issued + 1}
         /\ \A c \in 1..issued : c \in Codes /\ SameCode(code'[c], code[c])
<1>0. issued \in Nat /\ 1..issued \subseteq Codes
  BY AccountConstants DEF IInv, Types, Codes
<1>1. CASE UNCHANGED codeVars
  BY <1>0, <1>1 DEF codeVars, SameCode
<1>2. CASE issued' = issued /\ \E S : code' = Spend(S)
  BY <1>0, <1>2, SpendKeeps
<1>3. ASSUME NEW x \in Codes, Expire(x) \/ CooldownPasses(x)
      PROVE  issued' = issued /\ \A c \in Codes : SameCode(code'[c], code[c])
  <2> DEFINE l == [code[x] EXCEPT !.live = FALSE]
             m == [code[x] EXCEPT !.recent = FALSE]
  <2>1. code \in [Codes -> Code]
    BY DEF IInv, Types
  <2>2. SameCode(l, code[x]) /\ SameCode(m, code[x])
    BY <2>1 DEF Code, SameCode
  <2>3. issued' = issued /\ (code' = [code EXCEPT ![x] = l] \/ code' = [code EXCEPT ![x] = m])
    BY <1>3 DEF Expire, CooldownPasses
  <2> HIDE DEF l, m
  <2>4. \A c \in Codes : c # x => code'[c] = code[c]
    BY <2>1, <2>3
  <2>5. code'[x] \in {l, m}
    BY <2>1, <2>3
  <2> QED
    BY <2>2, <2>3, <2>4, <2>5 DEF SameCode
<1>4. ASSUME NEW h \in Handlers, Issues(h)
      PROVE  issued' = issued + 1 /\ \A c \in 1..issued : SameCode(code'[c], code[c])
  <2>1. PICK i \in Users \cup {NoUser}, type \in CodeTypes : \E old : Issue(h, i, type, old)
    BY <1>4, IssuerOf
  <2>2. PICK old : Issue(h, i, type, old)
    BY <2>1
  <2> QED
    BY <2>2, IssueSpends DEF Issue
<1> QED
  BY <1>0, <1>1, <1>2, <1>3, <1>4, CodeWrites

\* A row is written once with its role, its address and its password.
LEMMA RolesStay ==
  ASSUME IInv, [Next]_vars
  PROVE  RolesKept /\ scenario' = scenario /\ read \subseteq read'
<1>1. ASSUME NEW h \in Handlers, Public(h)
      PROVE  \/ role' = role \/ \E i \in Rows : NewRow(h, i, "CUSTOMER")
  BY <1>1 DEF Public, RegisterRead, RegisterCreate, VerifyRead, ResendRead, ForgotRead, ResetRead,
     FindAccount, Begin, VerifyCompare, ResetCompare, CompareCode, MailSent, MailFails, Disable,
     VerifyConsume, ResendIssue, ForgotClear, ForgotIssue, ResetConsume, userVars
<1>2. ASSUME NEW h \in Handlers, Protected(h)
      PROVE  \/ role' = role \/ \E i \in Rows : NewRow(h, i, "ADMIN")
  BY <1>2 DEF Protected, Authenticate, Begin, ActorCheck, TargetCheck, CreateAdmin,
     UpdateCustomerProfile, UpdateOwnProfile, UpdateAdminById, WriteProfile, ChangeOwnPassword,
     DeleteCustomerProfile, DeactivateAdmin, RestoreAdmin, UpdateUserStatus, WriteStatus, Audit, userVars
<1>3. ASSUME \/ \E h \in Handlers : Abandon(h)
             \/ \E i \in Users, p \in scenario.passwords : Login(i, p)
             \/ \E c \in Codes : Expire(c) \/ CooldownPasses(c)
             \/ UNCHANGED vars
      PROVE  role' = role /\ scenario' = scenario /\ read' = read
  BY <1>3 DEF Abandon, Login, Expire, CooldownPasses, userVars, vars
<1>4. ASSUME NEW h \in Handlers, NEW i \in Rows, NEW r \in {"CUSTOMER", "ADMIN"}, NewRow(h, i, r)
      PROVE  RolesKept
  BY <1>4, NewRole DEF Users
<1>5. role' = role => RolesKept
  BY DEF RolesKept
<1>6. ASSUME NEW h \in Handlers, Public(h) PROVE scenario' = scenario /\ read \subseteq read'
  BY <1>6 DEF Public, RegisterRead, RegisterCreate, VerifyRead, ResendRead, ForgotRead, ResetRead,
     FindAccount, Begin, VerifyCompare, ResetCompare, CompareCode, MailSent, MailFails, Disable,
     VerifyConsume, ResendIssue, ForgotClear, ForgotIssue, ResetConsume
<1>7. ASSUME NEW h \in Handlers, Protected(h) PROVE scenario' = scenario /\ read' = read
  BY <1>7 DEF Protected, Authenticate, Begin, ActorCheck, TargetCheck, CreateAdmin,
     UpdateCustomerProfile, UpdateOwnProfile, UpdateAdminById, WriteProfile, ChangeOwnPassword,
     DeleteCustomerProfile, DeactivateAdmin, RestoreAdmin, UpdateUserStatus, WriteStatus, Audit
<1>8. RolesKept
  BY <1>1, <1>2, <1>3, <1>4, <1>5, Zenon DEF Next
<1>9. scenario' = scenario /\ read \subseteq read'
  BY <1>3, <1>6, <1>7 DEF Next
<1> QED
  BY <1>8, <1>9

------------------------------------------------------------------------------
(* The order of codes *)

\* A code of account i of a type, and one that is not used.
Of(c, i, type) == code[c].owner = i /\ code[c].type = type
Usable(c, i, type) == Of(c, i, type) /\ ~code[c].used

\* A code that is not used is the newest of its account and type.
UsableIsNewest(type) ==
  \A i \in Users, c, d \in 1..issued : Usable(c, i, type) /\ Of(d, i, type) => d <= c

\* As long as requests for a code do not overlap, the request between its two writes
\* is the only one, and finds every code before its own spent.
ForgottenInTurn ==
  /\ UsableIsNewest("PASSWORD_RESET")
  /\ \A g, h \in Handlers : job[g].op = "forgot" /\ job[h].op = "forgot" => g = h
  /\ \A h \in Handlers : At(h, "forgot", "issue") =>
       \A c \in 1..issued : ~Usable(c, job[h].id, "PASSWORD_RESET")

\* What a request knows of the code it has compared, and whose password it sets.
Knows(j) ==
  /\ j.op \in {"verifyEmail", "reset"} /\ j.step = "consume" =>
       /\ j.code \in 1..issued
       /\ Of(j.code, j.id, IF j.op = "reset" THEN "PASSWORD_RESET" ELSE "EMAIL_VERIFICATION")
  /\ j.op = "changeOwnPassword" => role[j.id] \in Admin
  /\ j.op \in {"createUser", "createAdmin", "reset", "changeOwnPassword"} => j.pw \in Passwords
  /\ j.op = "reset" => j.id \in Users

Trail ==
  /\ UsableIsNewest("EMAIL_VERIFICATION")
  /\ ~scenario.resetsOverlap => ForgottenInTurn
  /\ \A h \in Handlers : Knows(job[h])

LEMMA OldCodes ==
  ASSUME IInv, [Next]_vars, NEW c \in 1..issued, NEW i, NEW type
  PROVE  /\ Of(c, i, type)' <=> Of(c, i, type)
         /\ Usable(c, i, type)' => Usable(c, i, type)
BY CodeHistory DEF Of, Usable, SameCode

LEMMA NewestStays ==
  ASSUME IInv, [Next]_vars, issued' = issued, NEW type, UsableIsNewest(type)
  PROVE  UsableIsNewest(type)'
BY OldCodes DEF UsableIsNewest

\* A code issued for an account is the newest; what was usable is spent with it.
LEMMA NewestIssued ==
  ASSUME IInv, [Next]_vars, NEW type, UsableIsNewest(type),
         NEW h \in Handlers, NEW i \in Users \cup {NoUser}, NEW t \in CodeTypes, NEW old, Issue(h, i, t, old),
         t = type => \A c \in 1..issued : Usable(c, i, type) => c \in old
  PROVE  UsableIsNewest(type)'
<1>1. issued' = issued + 1 /\ code'[issued + 1].owner = i /\ code'[issued + 1].type = t
  BY IssueWrites, Zenon
<1>0. issued \in Nat
  BY CodeHistory
<1> SUFFICES ASSUME NEW x \in Users, NEW c \in 1..issued', NEW d \in 1..issued',
                    Usable(c, x, type)', Of(d, x, type)'
             PROVE  d <= c
  BY DEF UsableIsNewest
<1>2. CASE c = issued + 1
  BY <1>0, <1>1, <1>2
<1>3. CASE c \in 1..issued /\ d \in 1..issued
  BY <1>3, OldCodes DEF UsableIsNewest
<1>4. CASE c \in 1..issued /\ d = issued + 1
  <2>1. x = i /\ type = t
    BY <1>1, <1>4 DEF Of
  <2>2. c \in old
    BY <1>4, <2>1, OldCodes
  <2>3. code'[c].used
    BY <1>4, <2>2, IssueSpends, Zenon
  <2> QED
    BY <2>3 DEF Usable
<1> QED
  BY <1>0, <1>1, <1>2, <1>3, <1>4

LEMMA VerificationsInOrder ==
  ASSUME IInv, Trail, [Next]_vars
  PROVE  UsableIsNewest("EMAIL_VERIFICATION")'
<1>0. UsableIsNewest("EMAIL_VERIFICATION")
  BY DEF Trail
<1>1. CASE issued' = issued
  BY <1>0, <1>1, NewestStays
<1>2. ASSUME NEW h \in Handlers, NEW i \in Rows, RegisterCreate(h, i)
      PROVE  UsableIsNewest("EMAIL_VERIFICATION")'
  <2>1. \A c \in 1..issued : ~Usable(c, i, "EMAIL_VERIFICATION")
    BY <1>2 DEF RegisterCreate, NewRow, Users, IInv, CodesSound, Open, Usable, Of
  <2>2. Issue(h, i, "EMAIL_VERIFICATION", {}) /\ i \in Users \cup {NoUser} /\ "EMAIL_VERIFICATION" \in CodeTypes
    BY <1>2 DEF RegisterCreate, Users, CodeTypes
  <2> QED
    BY <1>0, <2>1, <2>2, NewestIssued
<1>3. ASSUME NEW h \in Handlers, ResendIssue(h)
      PROVE  UsableIsNewest("EMAIL_VERIFICATION")'
  <2> DEFINE i == job[h].id
  <2>1. \A c \in 1..issued : Usable(c, i, "EMAIL_VERIFICATION") => c \in Superseded(i)
    BY DEF Superseded, Unused, Usable, Of
  <2>2. /\ Issue(h, i, "EMAIL_VERIFICATION", Superseded(i)) /\ i \in Users \cup {NoUser}
        /\ "EMAIL_VERIFICATION" \in CodeTypes
    BY <1>3 DEF ResendIssue, CodeTypes, IInv, Types, Job
  <2> HIDE DEF i
  <2> QED
    BY <1>0, <2>1, <2>2, NewestIssued
<1>4. ASSUME NEW h \in Handlers, ForgotIssue(h)
      PROVE  UsableIsNewest("EMAIL_VERIFICATION")'
  <2>1. /\ Issue(h, job[h].id, "PASSWORD_RESET", {}) /\ job[h].id \in Users \cup {NoUser}
        /\ "PASSWORD_RESET" \in CodeTypes
    BY <1>4 DEF ForgotIssue, CodeTypes, IInv, Types, Job
  <2> QED
    BY <1>0, <2>1, NewestIssued
<1>5. (\E h \in Handlers : Issues(h)) \/ issued' = issued
  BY CodeWrites DEF codeVars, Expire, CooldownPasses
<1> QED
  BY <1>1, <1>2, <1>3, <1>4, <1>5, Zenon DEF Issues

LEMMA BeginJob ==
  ASSUME IInv, NEW h \in Handlers, NEW op, NEW step, NEW i, NEW by, NEW e, NEW p,
         Begin(h, op, step, i, by, e, p)
  PROVE  /\ job'[h].op = op /\ job'[h].step = step /\ job'[h].id = i /\ job'[h].pw = p
         /\ job[h] = Idle
<1> DEFINE j == [op |-> op, step |-> step, id |-> i, by |-> by, email |-> e, pw |-> p, code |-> 0]
<1>1. job' = [job EXCEPT ![h] = j] /\ job[h] = Idle
  BY DEF Begin
<1>2. job'[h] = j
  BY <1>1 DEF IInv, Types
<1> QED
  BY <1>1, <1>2

\* What a request that begins is, and what its schema and authenticateUser let through.
LEMMA BeginsAs ==
  ASSUME IInv, NEW h \in Handlers, Begins(h)
  PROVE  /\ job'[h].step \notin {"consume", "mail", "disable"}
         /\ job'[h].op = "forgot" => job'[h].step = "clear" /\ \E e \in scenario.addresses : ForgotRead(h, e)
         /\ job'[h].op = "changeOwnPassword" => role[job'[h].id] \in Admin
         /\ job'[h].op \in {"createUser", "createAdmin", "reset", "changeOwnPassword"} =>
              job'[h].pw \in Passwords
         /\ job'[h].op = "reset" => job'[h].id \in Users /\ email[job'[h].id] \in Addresses
<1>0. scenario.passwords \subseteq Passwords /\ scenario.addresses \subseteq Addresses
  BY AccountConstants DEF IInv, Types, Scenario
<1>1. ASSUME NEW e \in scenario.addresses, NEW p \in scenario.passwords, RegisterRead(h, e, p)
      PROVE  job'[h].op = "createUser" /\ job'[h].step = "create" /\ job'[h].pw \in Passwords
  BY <1>0, <1>1, BeginJob DEF RegisterRead
<1>2. ASSUME NEW e \in scenario.addresses, NEW p \in scenario.passwords, ResetRead(h, e, p)
      PROVE  /\ job'[h].op = "reset" /\ job'[h].step = "code" /\ job'[h].pw \in Passwords
             /\ job'[h].id \in Users /\ email[job'[h].id] \in Addresses
  <2>1. PICK i \in Owner(e) : Begin(h, "reset", "code", i, NoUser, e, p)
    BY <1>2 DEF ResetRead, FindAccount
  <2> QED
    BY <1>0, <2>1, BeginJob DEF Owner
<1>3. ASSUME NEW e \in scenario.addresses, VerifyRead(h, e) \/ ResendRead(h, e)
      PROVE  job'[h].op \in {"verifyEmail", "resend"} /\ job'[h].step \in {"code", "issue"}
  BY <1>3, BeginJob DEF VerifyRead, ResendRead, FindAccount
<1>4. ASSUME NEW e \in scenario.addresses, ForgotRead(h, e)
      PROVE  job'[h].op = "forgot" /\ job'[h].step = "clear"
  BY <1>4, BeginJob DEF ForgotRead, FindAccount
<1>5. ASSUME NEW i \in tokens, NEW op \in scenario.ops \cap (CustomerOps \cup SuperOps \cup AdminOps),
             Authenticate(h, i, op)
      PROVE  /\ job'[h].op = op /\ job'[h].step = "actor"
             /\ op = "changeOwnPassword" => role[job'[h].id] \in Admin
             /\ op \in {"createAdmin", "changeOwnPassword"} => job'[h].pw \in Passwords
  <2>1. PICK t \in Targets(i, op),
             e \in (IF op = "createAdmin" THEN scenario.addresses ELSE {NoAddress}),
             p \in (IF op \in {"createAdmin", "changeOwnPassword"} THEN scenario.passwords ELSE {NoPassword}) :
          MayCall(i, op) /\ Begin(h, op, "actor", t, i, e, p)
    BY <1>5 DEF Authenticate
  <2>2. job'[h].op = op /\ job'[h].step = "actor" /\ job'[h].id = t /\ job'[h].pw = p
    BY <2>1, BeginJob
  <2>3. op = "changeOwnPassword" => t = i /\ role[i] \in Admin
    BY <2>1 DEF MayCall, Targets, OwnOps, CustomerOps, SuperOps
  <2> QED
    BY <1>0, <2>1, <2>2, <2>3
<1>6. CustomerOps \cup SuperOps \cup AdminOps \subseteq
        Operations \ {"createUser", "reset", "forgot", "verifyEmail", "resend"}
  BY DEF Operations, PublicOps, CustomerOps, SuperOps, AdminOps
<1> QED
  BY <1>1, <1>2, <1>3, <1>4, <1>5, <1>6 DEF Begins

LEMMA KnowsStep ==
  ASSUME IInv, Trail, [Next]_vars, NEW h \in Handlers
  PROVE  Knows(job[h])'
<1>0. /\ issued \in Nat /\ 1..issued \subseteq 1..issued' /\ RolesKept
      /\ \A c \in 1..issued : code'[c].owner = code[c].owner /\ code'[c].type = code[c].type
  BY CodeHistory, RolesStay DEF SameCode
<1>1. /\ Knows(job[h]) /\ JobSound(job[h]) /\ job[h] \in Job /\ Idle.op = "none"
      /\ role \in [Users -> Roles] /\ "changeOwnPassword" \in AdminOps /\ "createAdmin" # "changeOwnPassword"
  BY DEF Trail, IInv, Types, Idle, AdminOps
<1>2. job[h].op = "changeOwnPassword" => job[h].id \in Users /\ role'[job[h].id] \in Admin
  BY <1>0, <1>1 DEF Knows, JobSound, RolesKept, Exists, Admin
<1>3. CASE job'[h] = job[h]
  BY <1>0, <1>1, <1>2, <1>3 DEF Knows, Of
<1>4. CASE Begins(h)
  <2>1. job'[h].op = "changeOwnPassword" => role'[job'[h].id] \in Admin
    BY <1>4, BeginsAs DEF Begins, RegisterRead, ResetRead, VerifyRead, ResendRead, ForgotRead, FindAccount,
       Authenticate, Begin, userVars
  <2> QED
    BY <1>4, <2>1, BeginsAs DEF Knows
<1>5. CASE job'[h] = Idle
  BY <1>1, <1>5 DEF Knows
<1>6. CASE Continues(h)
  <2>1. ASSUME NEW x \in Codes, NEW type \in CodeTypes, CompareCode(h, type, x)
        PROVE  /\ job'[h].code = x /\ job'[h].id = job[h].id /\ job'[h].op = job[h].op
               /\ x \in 1..issued' /\ code'[x].owner = job[h].id /\ code'[x].type = type
    <3> DEFINE j == [op |-> job[h].op, step |-> "consume", id |-> job[h].id, by |-> job[h].by,
                     email |-> job[h].email, pw |-> job[h].pw, code |-> x]
    <3>1. job' = [job EXCEPT ![h] = j]
      BY <2>1 DEF CompareCode
    <3>2. job'[h] = j
      BY <3>1 DEF IInv, Types
    <3>3. x \in 1..issued /\ Of(x, job[h].id, type)
      BY <2>1 DEF CompareCode, Latest, Unused, Of
    <3> QED
      BY <1>0, <3>2, <3>3 DEF Of
  <2>2. job'[h].op \in {"verifyEmail", "reset"} /\ job'[h].step = "consume" =>
          /\ job'[h].code \in 1..issued' /\ code'[job'[h].code].owner = job'[h].id
          /\ code'[job'[h].code].type =
                IF job'[h].op = "reset" THEN "PASSWORD_RESET" ELSE "EMAIL_VERIFICATION"
    <3>1. CASE \E x \in Codes : VerifyCompare(h, x)
      BY <2>1, <3>1 DEF VerifyCompare, At, CodeTypes
    <3>2. CASE \E x \in Codes : ResetCompare(h, x)
      BY <2>1, <3>2 DEF ResetCompare, At, CodeTypes
    <3> QED
      BY <1>6, <3>1, <3>2 DEF Continues
  <2>3. /\ job'[h].op = "changeOwnPassword" => role'[job'[h].id] \in Admin
        /\ job'[h].op \in {"createUser", "createAdmin", "reset", "changeOwnPassword"} => job'[h].pw \in Passwords
        /\ job'[h].op = "reset" => job'[h].id \in Users
    BY <1>1, <1>2, <1>6 DEF Continues, Knows
  <2> QED
    BY <2>2, <2>3 DEF Knows, Of
<1> QED
  BY <1>3, <1>4, <1>5, <1>6, JobChanges

\* Only one request for a code at a time: the codes it sends supersede each other.
LEMMA ForgottenStep ==
  ASSUME IInv, Trail, [Next]_vars, ~scenario.resetsOverlap
  PROVE  ForgottenInTurn'
<1>0. ForgottenInTurn /\ issued \in Nat /\ Idle.op = "none" /\ job \in [Handlers -> Job]
  BY CodeHistory DEF Trail, Idle, IInv, Types
<1>1. ASSUME NEW h \in Handlers, job'[h].op = "forgot"
      PROVE  \/ job[h].op = "forgot" /\ ~Begins(h)
             \/ \E e \in scenario.addresses : ForgotRead(h, e)
  <2>1. Begins(h) => \E e \in scenario.addresses : ForgotRead(h, e)
    BY <1>1, BeginsAs
  <2> QED
    BY <1>0, <1>1, <2>1, JobChanges DEF Continues
<1>2. ASSUME NEW h \in Handlers, NEW e \in scenario.addresses, ForgotRead(h, e),
             NEW g \in Handlers, g # h
      PROVE  job'[g].op # "forgot"
  <2>1. job[g].op # "forgot"
    BY <1>2 DEF ForgotRead
  <2>2. Public(h)
    BY <1>2 DEF Public
  <2>3. job'[g] = job[g]
    BY <1>2, <2>2, OthersWait
  <2> QED
    BY <2>1, <2>3
<1>3. \A g, h \in Handlers : job'[g].op = "forgot" /\ job'[h].op = "forgot" => g = h
  <2> SUFFICES ASSUME NEW g \in Handlers, NEW h \in Handlers, job'[g].op = "forgot", job'[h].op = "forgot"
               PROVE  g = h
    OBVIOUS
  <2>1. CASE job[g].op = "forgot" /\ job[h].op = "forgot"
    BY <1>0, <2>1 DEF ForgottenInTurn
  <2>2. CASE \E e \in scenario.addresses : ForgotRead(h, e)
    BY <1>2, <2>2
  <2>3. CASE \E e \in scenario.addresses : ForgotRead(g, e)
    BY <1>2, <2>3
  <2> QED
    BY <1>1, <2>1, <2>2, <2>3
<1>4. ASSUME NEW h \in Handlers, job'[h].op = "forgot", job'[h].step = "issue", NEW c \in 1..issued',
             NEW i, i = job'[h].id
      PROVE  ~Usable(c, i, "PASSWORD_RESET")'
  <2>1. ~Begins(h) /\ job[h].op = "forgot"
    BY <1>1, <1>4, BeginsAs, BeginJob DEF ForgotRead, FindAccount
  <2>2. CASE job'[h] # job[h]
    <3>1. ForgotClear(h) /\ job'[h].id = job[h].id
      BY <1>0, <1>4, <2>1, <2>2, JobChanges DEF Continues
    <3>2. issued' = issued /\ code' = Spend(Unused(job[h].id, "PASSWORD_RESET"))
      BY <3>1 DEF ForgotClear, Cleared
    <3>3. c \in Codes
      BY <3>2, CodeHistory
    <3>4. CASE c \in Unused(job[h].id, "PASSWORD_RESET")
      BY <3>2, <3>3, <3>4, Spending DEF Usable
    <3>5. CASE c \notin Unused(job[h].id, "PASSWORD_RESET")
      BY <1>4, <3>1, <3>2, <3>5, OldCodes DEF Unused, Usable, Of
    <3> QED
      BY <3>4, <3>5
  <2>3. CASE job'[h] = job[h]
    <3>1. \A b \in 1..issued : ~Usable(b, job[h].id, "PASSWORD_RESET")
      BY <1>0, <1>4, <2>3 DEF ForgottenInTurn, At
    <3>2. CASE c \in 1..issued
      BY <1>4, <2>3, <3>1, <3>2, OldCodes
    <3>3. CASE c \notin 1..issued
      <4>1. PICK g \in Handlers : Issues(g)
        BY <3>3, CodeWrites DEF codeVars, Expire, CooldownPasses
      <4>0. PICK x \in Users \cup {NoUser}, type \in CodeTypes : \E old : Issue(g, x, type, old)
        BY <4>1, IssuerOf
      <4>2. PICK old : Issue(g, x, type, old)
        BY <4>0
      <4>3. job'[g].step = "mail" /\ issued' = issued + 1 /\ c = issued + 1
        <5>1. /\ issued' = issued + 1
              /\ job'[g] = [op |-> job[g].op, step |-> "mail", id |-> x, by |-> job[g].by,
                            email |-> job[g].email, pw |-> job[g].pw, code |-> issued + 1]
          BY <4>2, IssueWrites, Zenon
        <5> QED
          BY <1>0, <3>3, <5>1
      <4>4. ~ForgotIssue(g)
        BY <1>0, <1>4, <2>1, <2>3, <4>3 DEF ForgotIssue, At, ForgottenInTurn
      <4>5. \E u \in Users \cup {NoUser} : \E o : Issue(g, u, "EMAIL_VERIFICATION", o)
        BY <4>1, <4>4 DEF Issues, RegisterCreate, ResendIssue, Users, IInv, Types, Job
      <4>6. code'[c].type = "EMAIL_VERIFICATION"
        BY <4>3, <4>5, IssueWrites DEF CodeTypes
      <4> QED
        BY <4>6 DEF Usable, Of
    <3> QED
      BY <3>2, <3>3
  <2> QED
    BY <2>2, <2>3
<1>5. UsableIsNewest("PASSWORD_RESET")'
  <2>0. UsableIsNewest("PASSWORD_RESET")
    BY <1>0 DEF ForgottenInTurn
  <2>1. CASE issued' = issued
    BY <2>0, <2>1, NewestStays
  <2>2. ASSUME NEW h \in Handlers, ForgotIssue(h) PROVE UsableIsNewest("PASSWORD_RESET")'
    <3>1. /\ Issue(h, job[h].id, "PASSWORD_RESET", {}) /\ job[h].id \in Users \cup {NoUser}
          /\ "PASSWORD_RESET" \in CodeTypes
      BY <2>2 DEF ForgotIssue, CodeTypes, IInv, Types, Job
    <3>2. \A c \in 1..issued : ~Usable(c, job[h].id, "PASSWORD_RESET")
      BY <1>0, <2>2 DEF ForgotIssue, ForgottenInTurn
    <3> QED
      BY <2>0, <3>1, <3>2, NewestIssued
  <2>3. ASSUME NEW h \in Handlers, (\E i \in Rows : RegisterCreate(h, i)) \/ ResendIssue(h)
        PROVE  UsableIsNewest("PASSWORD_RESET")'
    <3>0. PICK x \in Users \cup {NoUser} : \E o : Issue(h, x, "EMAIL_VERIFICATION", o)
      BY <2>3 DEF RegisterCreate, ResendIssue, Users, IInv, Types, Job
    <3>1. PICK o : Issue(h, x, "EMAIL_VERIFICATION", o)
      BY <3>0
    <3>2. "EMAIL_VERIFICATION" \in CodeTypes
      BY DEF CodeTypes
    <3> QED
      BY <2>0, <3>1, <3>2, NewestIssued
  <2>4. (\E h \in Handlers : Issues(h)) \/ issued' = issued
    BY CodeWrites DEF codeVars, Expire, CooldownPasses
  <2> QED
    BY <2>1, <2>2, <2>3, <2>4, Zenon DEF Issues
<1>6. \A h \in Handlers : At(h, "forgot", "issue")' =>
        \A c \in 1..issued' : ~Usable(c, job[h].id, "PASSWORD_RESET")'
  BY <1>4 DEF At, Usable, Of
<1> QED
  BY <1>3, <1>5, <1>6 DEF ForgottenInTurn

LEMMA TrailInvariance == Spec => []Trail
<1>1. Init => Trail
  <2> SUFFICES ASSUME Init PROVE Trail
    OBVIOUS
  <2>1. 1..issued = {} /\ \A h \in Handlers : job[h].op = "none"
    BY DEF Init, Idle
  <2> QED
    BY <2>1 DEF Trail, UsableIsNewest, ForgottenInTurn, Knows, At
<1>2. IInv /\ Trail /\ [Next]_vars => Trail'
  <2> SUFFICES ASSUME IInv, Trail, [Next]_vars PROVE Trail'
    OBVIOUS
  <2>1. scenario' = scenario
    BY RolesStay
  <2> QED
    BY <2>1, VerificationsInOrder, ForgottenStep, KnowsStep DEF Trail
<1> QED
  BY <1>1, <1>2, Invariance, PTL DEF Spec

LEMMA VerifiedChanges ==
  ASSUME [Next]_vars, NEW i \in Users, ~verified[i], verified'[i]
  PROVE  \E h \in Handlers : VerifyConsume(h)
<1>1. ASSUME NEW h \in Handlers, Public(h), ~VerifyConsume(h) PROVE verified' = verified
  BY <1>1 DEF Public, RegisterRead, RegisterCreate, NewRow, VerifyRead, ResendRead, ForgotRead, ResetRead,
     FindAccount, Begin, VerifyCompare, ResetCompare, CompareCode, MailSent, MailFails, Disable,
     ResendIssue, ForgotClear, ForgotIssue, ResetConsume, userVars
<1>2. ASSUME NEW h \in Handlers, Protected(h) PROVE verified' = verified
  BY <1>2 DEF Protected, Authenticate, Begin, ActorCheck, TargetCheck, CreateAdmin, NewRow,
     UpdateCustomerProfile, UpdateOwnProfile, UpdateAdminById, WriteProfile, ChangeOwnPassword,
     DeleteCustomerProfile, DeactivateAdmin, RestoreAdmin, UpdateUserStatus, WriteStatus, Audit, userVars
<1>3. ASSUME \/ \E h \in Handlers : Abandon(h)
             \/ \E x \in Users, p \in scenario.passwords : Login(x, p)
             \/ \E c \in Codes : Expire(c) \/ CooldownPasses(c)
             \/ UNCHANGED vars
      PROVE  verified' = verified
  BY <1>3 DEF Abandon, Login, Expire, CooldownPasses, userVars, vars
<1>4. verified' # verified
  OBVIOUS
<1> QED
  BY <1>1, <1>2, <1>3, <1>4, Zenon DEF Next

\* The code a request consumes is spent in that step, live, and the account's own.
LEMMA ConsumedCode ==
  ASSUME IInv, NEW c \in 1..issued, NEW S, c \in S, code' = Spend(S), Consumable(c),
         NEW i, NEW type, Of(c, i, type)
  PROVE  c \in SpentFor(i, type) /\ Usable(c, i, type)
<1>1. c \in Codes
  BY AccountConstants DEF IInv, Types, Codes
<1>2. code'[c].used
  BY <1>1, Spending
<1> QED
  BY <1>2 DEF Consumable, Of, Usable, SpentFor

\* verifyEmail verifies an address only by spending, live, the newest code of its
\* account: resendEmailVerification spends what is there in the transaction that
\* issues the next, and the conditions of updateMany are asked again of the code
\* that was compared outside it.
THEOREM NewestCodeVerifies == Spec => VerifiedByNewestCode
<1> DEFINE A == \A i \in Users : ~verified[i] /\ verified'[i] =>
                  \E c \in SpentFor(i, "EMAIL_VERIFICATION") : Newest(i, "EMAIL_VERIFICATION", c)
<1>1. IInv /\ Trail /\ [Next]_vars => A
  <2> SUFFICES ASSUME IInv, Trail, [Next]_vars, NEW i \in Users, ~verified[i], verified'[i]
               PROVE  \E c \in SpentFor(i, "EMAIL_VERIFICATION") : Newest(i, "EMAIL_VERIFICATION", c)
    OBVIOUS
  <2>1. PICK h \in Handlers : VerifyConsume(h)
    BY VerifiedChanges
  <2> DEFINE c == job[h].code
             S == {c} \cup Unused(job[h].id, "EMAIL_VERIFICATION")
  <2>2. job[h].id = i /\ Consumable(c) /\ code' = Spend(S) /\ c \in S
    BY <2>1 DEF VerifyConsume, IInv, Types
  <2>3. c \in 1..issued /\ Of(c, i, "EMAIL_VERIFICATION")
    BY <2>1, <2>2 DEF VerifyConsume, At, Trail, Knows
  <2> HIDE DEF c, S
  <2>4. c \in SpentFor(i, "EMAIL_VERIFICATION") /\ Usable(c, i, "EMAIL_VERIFICATION")
    BY <2>2, <2>3, ConsumedCode
  <2>5. Newest(i, "EMAIL_VERIFICATION", c)
    BY <2>3, <2>4 DEF Trail, UsableIsNewest, Newest, Of
  <2> QED
    BY <2>4, <2>5
<1> QED
  BY <1>1, Invariance, TrailInvariance, PTL DEF Spec, VerifiedByNewestCode

------------------------------------------------------------------------------
(* Passwords *)

\* The writes of users.password and users.email.
LEMMA PasswordWrites ==
  ASSUME [Next]_vars
  PROVE  \/ password' = password /\ email' = email
         \/ \E h \in Handlers, i \in Rows : RegisterCreate(h, i) \/ CreateAdmin(h, i)
         \/ \E h \in Handlers : ResetConsume(h) \/ ChangeOwnPassword(h) \/ DeleteCustomerProfile(h)
<1> DEFINE Written(h) == \/ password' = password /\ email' = email
                         \/ \E i \in Rows : RegisterCreate(h, i) \/ CreateAdmin(h, i)
                         \/ ResetConsume(h) \/ ChangeOwnPassword(h) \/ DeleteCustomerProfile(h)
<1>1. ASSUME NEW h \in Handlers, Public(h) PROVE Written(h)
  BY <1>1 DEF Public, RegisterRead, VerifyRead, ResendRead, ForgotRead, ResetRead,
     FindAccount, Begin, VerifyCompare, ResetCompare, CompareCode, MailSent, MailFails, Disable,
     VerifyConsume, ResendIssue, ForgotClear, ForgotIssue, userVars
<1>2. ASSUME NEW h \in Handlers, Protected(h) PROVE Written(h)
  BY <1>2 DEF Protected, Authenticate, Begin, ActorCheck, TargetCheck,
     UpdateCustomerProfile, UpdateOwnProfile, UpdateAdminById, WriteProfile,
     DeactivateAdmin, RestoreAdmin, UpdateUserStatus, WriteStatus, Audit, userVars
<1>3. ASSUME \/ \E h \in Handlers : Abandon(h)
             \/ \E x \in Users, p \in scenario.passwords : Login(x, p)
             \/ \E c \in Codes : Expire(c) \/ CooldownPasses(c)
             \/ UNCHANGED vars
      PROVE  password' = password /\ email' = email
  BY <1>3 DEF Abandon, Login, Expire, CooldownPasses, userVars, vars
<1> HIDE DEF Written
<1>4. \/ password' = password /\ email' = email
      \/ \E h \in Handlers : Written(h)
  BY <1>1, <1>2, <1>3, Zenon DEF Next
<1> QED
  BY <1>4 DEF Written

\* resetPassword changes a password only by spending a live code of its account, the
\* newest one as long as requests for a code do not overlap; changeOwnPassword is for
\* administrators, whose role is still the one authenticateUser read.
THEOREM NewestCodeResets == Spec => ResetByNewestCode
<1> DEFINE A == \A i \in Rows : role[i] = "CUSTOMER" /\ password'[i] \notin {password[i], NoPassword} =>
                  \E c \in SpentFor(i, "PASSWORD_RESET") :
                    scenario.resetsOverlap \/ Newest(i, "PASSWORD_RESET", c)
<1>1. IInv /\ Rest /\ Trail /\ [Next]_vars => A
  <2> SUFFICES ASSUME IInv, Rest, Trail, [Next]_vars, NEW i \in Rows, role[i] = "CUSTOMER",
                      password'[i] # password[i], password'[i] # NoPassword
               PROVE  \E c \in SpentFor(i, "PASSWORD_RESET") :
                        scenario.resetsOverlap \/ Newest(i, "PASSWORD_RESET", c)
    OBVIOUS
  <2>0. i \in Users /\ password \in [Users -> Passwords \cup {NoPassword}]
    BY DEF Users, Rest
  <2>1. ASSUME NEW h \in Handlers, NEW x \in Rows, NEW r, NewRow(h, x, r) PROVE FALSE
    BY <2>0, <2>1 DEF NewRow, Exists
  <2>2. ASSUME NEW h \in Handlers, DeleteCustomerProfile(h) PROVE FALSE
    BY <2>0, <2>2 DEF DeleteCustomerProfile
  <2>3. ASSUME NEW h \in Handlers, ChangeOwnPassword(h) PROVE FALSE
    <3>1. role[job[h].id] \in Admin /\ job[h].id = i
      BY <2>0, <2>3 DEF ChangeOwnPassword, At, Trail, Knows
    <3> QED
      BY <3>1 DEF Admin
  <2>4. PICK h \in Handlers : ResetConsume(h)
    BY <2>1, <2>2, <2>3, PasswordWrites DEF RegisterCreate, CreateAdmin
  <2> DEFINE c == job[h].code
  <2>5. job[h].id = i /\ Consumable(c) /\ code' = Spend({c}) /\ c \in {c}
    BY <2>0, <2>4 DEF ResetConsume
  <2>6. c \in 1..issued /\ Of(c, i, "PASSWORD_RESET")
    BY <2>4, <2>5 DEF ResetConsume, At, Trail, Knows
  <2> HIDE DEF c
  <2>7. c \in SpentFor(i, "PASSWORD_RESET") /\ Usable(c, i, "PASSWORD_RESET")
    BY <2>5, <2>6, ConsumedCode
  <2>8. scenario.resetsOverlap \/ Newest(i, "PASSWORD_RESET", c)
    BY <2>0, <2>6, <2>7 DEF Trail, ForgottenInTurn, UsableIsNewest, Newest, Of
  <2> QED
    BY <2>7, <2>8
<1> QED
  BY <1>1, Invariance, RestInvariance, TrailInvariance, PTL DEF Spec, ResetByNewestCode

\* Only a customer's deletion takes the password, and it takes the address with it, so
\* that no request finds the account any more; with one request at a time none is
\* left that had found it.
Deletions ==
  /\ \A i \in Users : password[i] = NoPassword => email[i] = NoAddress /\ role[i] = "CUSTOMER"
  /\ scenario.requests = 1 =>
       /\ \A g, h \in Handlers : job[g] # Idle /\ job[h] # Idle => g = h
       /\ \A h \in Handlers : job[h].op = "reset" => password[job[h].id] # NoPassword

LEMMA BeginsAlone ==
  ASSUME IInv, Deletions, scenario.requests = 1, NEW h \in Handlers, Begins(h), NEW g \in Handlers
  PROVE  job[g] = Idle /\ (g # h => job'[g] = Idle) /\ UNCHANGED <<password, email>>
<1>1. \E op, step, i, by, e, p : Begin(h, op, step, i, by, e, p)
  BY DEF Begins, RegisterRead, ResetRead, VerifyRead, ResendRead, ForgotRead, FindAccount, Authenticate
<1> DEFINE S == {q \in Handlers : job[q] # Idle}
<1>2. Cardinality(S) < 1 /\ UNCHANGED <<password, email>>
  BY <1>1 DEF Begin, userVars
<1>3. S = {}
  <2> SUFFICES ASSUME S # {} PROVE FALSE
    OBVIOUS
  <2>1. \A x, y \in S : x = y
    BY DEF Deletions
  <2>2. PICK x \in S : S = {x}
    BY <2>1
  <2> HIDE DEF S
  <2>3. Cardinality(S) = 1
    BY <2>2, FS_Singleton
  <2> QED
    BY <1>2, <2>3
<1>4. job[g] = Idle
  BY <1>3
<1>5. g # h => job'[g] = job[g]
  <2>1. Public(h) \/ Protected(h)
    BY Zenon DEF Begins, Public, Protected
  <2> QED
    BY <2>1, OthersWait
<1> QED
  BY <1>2, <1>4, <1>5

\* What each write puts in users.password.
LEMMA PasswordsWritten ==
  ASSUME IInv, Rest, Trail, [Next]_vars, NEW i \in Users, password'[i] # password[i]
  PROVE  \/ password'[i] \in Passwords /\ ~Exists(i)
         \/ /\ password'[i] \in Passwords
            /\ \E h \in Handlers : job[h].id = i /\ job[h].op \in {"reset", "changeOwnPassword"}
         \/ /\ password'[i] = NoPassword /\ email'[i] = NoAddress /\ role[i] = "CUSTOMER"
            /\ \E h \in Handlers : DeleteCustomerProfile(h)
<1>0. password \in [Users -> Passwords \cup {NoPassword}] /\ email \in [Users -> Addresses \cup {NoAddress}]
  BY DEF Rest
<1>1. ASSUME NEW h \in Handlers, NEW x \in Rows, RegisterCreate(h, x) \/ CreateAdmin(h, x)
      PROVE  password'[i] \in Passwords /\ ~Exists(i)
  <2>1. job[h].pw \in Passwords
    BY <1>1 DEF RegisterCreate, CreateAdmin, At, Trail, Knows
  <2>2. password' = [password EXCEPT ![x] = job[h].pw] /\ ~Exists(x)
    BY <1>1 DEF RegisterCreate, CreateAdmin, NewRow
  <2> QED
    BY <1>0, <2>1, <2>2
<1>2. ASSUME NEW h \in Handlers, ResetConsume(h) \/ ChangeOwnPassword(h)
      PROVE  password'[i] \in Passwords /\ job[h].id = i /\ job[h].op \in {"reset", "changeOwnPassword"}
  <2>1. job[h].op \in {"reset", "changeOwnPassword"} /\ job[h].pw \in Passwords
    BY <1>2 DEF ResetConsume, ChangeOwnPassword, At, Trail, Knows
  <2>2. password' = [password EXCEPT ![job[h].id] = job[h].pw]
    BY <1>2 DEF ResetConsume, ChangeOwnPassword
  <2> QED
    BY <1>0, <2>1, <2>2
<1>3. ASSUME NEW h \in Handlers, DeleteCustomerProfile(h)
      PROVE  password'[i] = NoPassword /\ email'[i] = NoAddress /\ role[i] = "CUSTOMER"
  <2>1. role[job[h].id] = "CUSTOMER"
    BY <1>3 DEF DeleteCustomerProfile, At, IInv, JobSound
  <2>2. /\ password' = [password EXCEPT ![job[h].id] = NoPassword]
        /\ email' = [email EXCEPT ![job[h].id] = NoAddress]
    BY <1>3 DEF DeleteCustomerProfile, Released
  <2> QED
    BY <1>0, <2>1, <2>2
<1> QED
  BY <1>1, <1>2, <1>3, PasswordWrites

\* An address is written where a password is, with the row.
LEMMA AddressesWritten ==
  ASSUME IInv, Rest, Trail, [Next]_vars, NEW i \in Users, email[i] = NoAddress, email'[i] # NoAddress
  PROVE  password'[i] \in Passwords
<1>0. password \in [Users -> Passwords \cup {NoPassword}] /\ email \in [Users -> Addresses \cup {NoAddress}]
  BY DEF Rest
<1>1. ASSUME NEW h \in Handlers, NEW x \in Rows, RegisterCreate(h, x) \/ CreateAdmin(h, x)
      PROVE  password'[i] \in Passwords
  <2>1. job[h].pw \in Passwords
    BY <1>1 DEF RegisterCreate, CreateAdmin, At, Trail, Knows
  <2>2. password' = [password EXCEPT ![x] = job[h].pw] /\ email' = [email EXCEPT ![x] = job[h].email]
    BY <1>1 DEF RegisterCreate, CreateAdmin, NewRow
  <2> QED
    BY <1>0, <2>1, <2>2
<1>2. ASSUME NEW h \in Handlers, ResetConsume(h) \/ ChangeOwnPassword(h) \/ DeleteCustomerProfile(h)
      PROVE  FALSE
  <2>1. email' = email \/ email' = [email EXCEPT ![job[h].id] = NoAddress]
    BY <1>2 DEF ResetConsume, ChangeOwnPassword, DeleteCustomerProfile, Released
  <2> QED
    BY <1>0, <2>1
<1> QED
  BY <1>1, <1>2, PasswordWrites

LEMMA DeletionsStep ==
  ASSUME IInv, Rest, Trail, Deletions, [Next]_vars
  PROVE  Deletions'
<1>0. RolesKept /\ scenario' = scenario /\ Idle.op = "none" /\ job \in [Handlers -> Job]
  BY RolesStay DEF Idle, IInv, Types
<1>1. ASSUME NEW i \in Users, password'[i] = NoPassword
      PROVE  email'[i] = NoAddress /\ role'[i] = "CUSTOMER"
  <2>1. NoPassword \notin Passwords
    BY AccountConstants
  <2>2. CASE password'[i] = password[i]
    <3>1. email[i] = NoAddress /\ role[i] = "CUSTOMER"
      BY <1>1, <2>2 DEF Deletions
    <3> QED
      BY <1>0, <1>1, <2>1, <3>1, AddressesWritten DEF RolesKept, Exists
  <2>3. CASE password'[i] # password[i]
    <3>1. email'[i] = NoAddress /\ role[i] = "CUSTOMER"
      BY <1>1, <2>1, <2>3, PasswordsWritten
    <3> QED
      BY <1>0, <3>1 DEF RolesKept, Exists
  <2> QED
    BY <2>2, <2>3
<1>2. ASSUME scenario.requests = 1, NEW g \in Handlers, NEW h \in Handlers, job'[g] # Idle, job'[h] # Idle
      PROVE  g = h
  <2>1. CASE Begins(g) \/ Begins(h)
    BY <1>2, <2>1, BeginsAlone
  <2>2. CASE ~Begins(g) /\ ~Begins(h)
    <3>1. job[g] # Idle /\ job[h] # Idle
      BY <1>2, <2>2, JobChanges
    <3> QED
      BY <1>2, <3>1 DEF Deletions
  <2> QED
    BY <2>1, <2>2
<1>3. ASSUME scenario.requests = 1, NEW h \in Handlers, job'[h].op = "reset"
      PROVE  password'[job'[h].id] # NoPassword
  <2>1. CASE Begins(h)
    <3>1. job'[h].id \in Users /\ email[job'[h].id] \in Addresses
      BY <1>3, <2>1, BeginsAs
    <3>2. password[job'[h].id] # NoPassword
      BY <3>1, AccountConstants DEF Deletions
    <3> QED
      BY <1>3, <2>1, <3>2, BeginsAlone
  <2>2. CASE ~Begins(h)
    <3>1. job[h].op = "reset" /\ job'[h].id = job[h].id
      BY <1>0, <1>3, <2>2, JobChanges DEF Continues
    <3> DEFINE i == job[h].id
    <3>2. password[i] # NoPassword /\ job[h] # Idle
      BY <1>0, <1>3, <3>1 DEF Deletions
    <3>3. ASSUME NEW g \in Handlers, DeleteCustomerProfile(g) PROVE FALSE
      <4>1. job[g].op = "deleteCustomerProfile"
        BY <3>3 DEF DeleteCustomerProfile, At
      <4> QED
        BY <1>0, <1>3, <3>1, <3>2, <4>1 DEF Deletions
    <3>4. i \in Users => password'[i] # NoPassword
      BY <3>2, <3>3, PasswordsWritten, AccountConstants
    <3>5. i \in Users
      BY <3>1 DEF Trail, Knows
    <3> QED
      BY <3>1, <3>4, <3>5
  <2> QED
    BY <2>1, <2>2
<1> QED
  BY <1>0, <1>1, <1>2, <1>3 DEF Deletions

LEMMA DeletionsInvariance == Spec => []Deletions
<1>1. Init => Deletions
  <2> SUFFICES ASSUME Init PROVE Deletions
    OBVIOUS
  <2>1. \A i \in Users : password[i] # NoPassword
    BY AccountConstants DEF Init, Scenario
  <2>2. \A h \in Handlers : job[h] = Idle /\ job[h].op = "none"
    BY DEF Init, Idle
  <2> QED
    BY <2>1, <2>2 DEF Deletions
<1> QED
  BY <1>1, DeletionsStep, Invariance, RestInvariance, TrailInvariance, PTL DEF Spec

\* deleteCustomerProfile is for good as long as requests run one at a time: the address
\* is released in the same write, so that no later request finds the account, and only
\* customers are deleted this way, so that changeOwnPassword does not reach it either.
THEOREM DeletionIsForGood == Spec => DeletedPasswordStays
<1> DEFINE A == \A i \in Rows : scenario.requests = 1 /\ Exists(i) /\ password[i] = NoPassword
                  => password'[i] = NoPassword
<1>1. IInv /\ Rest /\ Trail /\ Deletions /\ [Next]_vars => A
  <2> SUFFICES ASSUME IInv, Rest, Trail, Deletions, [Next]_vars, NEW i \in Rows, scenario.requests = 1,
                      Exists(i), password[i] = NoPassword, password'[i] # NoPassword
               PROVE  FALSE
    OBVIOUS
  <2>1. i \in Users /\ role[i] = "CUSTOMER"
    BY DEF Users, Deletions
  <2>2. PICK h \in Handlers : job[h].id = i /\ job[h].op \in {"reset", "changeOwnPassword"}
    BY <2>1, PasswordsWritten
  <2>3. job[h].op = "reset" => password[i] # NoPassword
    BY <2>2 DEF Deletions
  <2>4. job[h].op = "changeOwnPassword" => role[i] \in Admin
    BY <2>2 DEF Trail, Knows
  <2> QED
    BY <2>1, <2>2, <2>3, <2>4 DEF Admin
<1> QED
  BY <1>1, Invariance, RestInvariance, TrailInvariance, DeletionsInvariance, PTL
     DEF Spec, DeletedPasswordStays

------------------------------------------------------------------------------
(* Mails *)

\* A verification code nobody has read is still with the request that sends it.
Undelivered(c) == code[c].type = "EMAIL_VERIFICATION" /\ ~code[c].used /\ c \notin read
Sending(j, c) == j.code = c /\ j.step \in {"mail", "disable"} /\ j.op # "forgot"
Deliveries ==
  ~scenario.stops =>
    \A c \in 1..issued : Undelivered(c) => \E h \in Handlers : Sending(job[h], c)

\* A verification code goes out with the request that issued it.
LEMMA IssuedIsSent ==
  ASSUME IInv, NEW h \in Handlers, Issues(h)
  PROVE  /\ issued' = issued + 1
         /\ \/ code'[issued + 1].type = "PASSWORD_RESET"
            \/ Sending(job'[h], issued + 1)
<1>1. ASSUME NEW i \in Users \cup {NoUser}, NEW type \in CodeTypes, NEW old, Issue(h, i, type, old)
      PROVE  /\ issued' = issued + 1 /\ code'[issued + 1].type = type
             /\ job'[h].op = job[h].op /\ job'[h].step = "mail" /\ job'[h].code = issued + 1
  <2>1. /\ issued' = issued + 1 /\ code'[issued + 1].type = type
        /\ job'[h] = [op |-> job[h].op, step |-> "mail", id |-> i, by |-> job[h].by,
                      email |-> job[h].email, pw |-> job[h].pw, code |-> issued + 1]
    BY <1>1, IssueWrites, Zenon
  <2> QED
    BY <2>1
<1>2. ASSUME NEW i \in Rows, RegisterCreate(h, i)
      PROVE  issued' = issued + 1 /\ Sending(job'[h], issued + 1)
  BY <1>1, <1>2 DEF RegisterCreate, At, Users, CodeTypes, Sending
<1>3. job[h].id \in Users \cup {NoUser}
  BY DEF IInv, Types, Job
<1>4. ASSUME ResendIssue(h)
      PROVE  issued' = issued + 1 /\ Sending(job'[h], issued + 1)
  BY <1>1, <1>3, <1>4 DEF ResendIssue, At, CodeTypes, Sending
<1>5. ASSUME ForgotIssue(h)
      PROVE  issued' = issued + 1 /\ code'[issued + 1].type = "PASSWORD_RESET"
  BY <1>1, <1>3, <1>5 DEF ForgotIssue, CodeTypes
<1> QED
  BY <1>2, <1>4, <1>5 DEF Issues

\* A request that sends a code reaches the mailbox, disables the code, or still has it
\* to disable.
LEMMA SendingEnds ==
  ASSUME IInv, [Next]_vars, ~scenario.stops, NEW h \in Handlers, NEW c \in Codes, Sending(job[h], c),
         job'[h] # job[h]
  PROVE  c \in read' \/ code'[c].used \/ Sending(job'[h], c)
<1>1. job[h].step \in {"mail", "disable"} /\ job[h].op # "forgot" /\ job[h].code = c /\ job[h] \in Job
  BY DEF Sending, IInv, Types
<1>0. job[h] # Idle /\ job[h].step \notin {"idle", "account", "create", "code", "consume", "issue", "clear",
                                          "actor", "target", "write", "audit"}
  BY <1>1 DEF Idle
<1>a. \A op, step, i, by, e, p : ~Begin(h, op, step, i, by, e, p)
  BY <1>0, Zenon DEF Begin
<1>b. \A op, step : At(h, op, step) => step \in {"mail", "disable"}
  BY <1>1 DEF At
<1>2. Public(h) => MailSent(h) \/ MailFails(h) \/ Disable(h)
  <2>1. /\ \A e, p : ~RegisterRead(h, e, p) /\ ~ResetRead(h, e, p)
        /\ \A e : ~VerifyRead(h, e) /\ ~ResendRead(h, e) /\ ~ForgotRead(h, e)
    BY <1>a, Zenon DEF RegisterRead, VerifyRead, ResendRead, ForgotRead, ResetRead, FindAccount
  <2>2. /\ \A i : ~RegisterCreate(h, i)
        /\ \A x : ~VerifyCompare(h, x) /\ ~ResetCompare(h, x)
    BY <1>b DEF RegisterCreate, VerifyCompare, ResetCompare
  <2>3. ~VerifyConsume(h) /\ ~ResendIssue(h) /\ ~ForgotClear(h) /\ ~ForgotIssue(h) /\ ~ResetConsume(h)
    BY <1>b DEF VerifyConsume, ResendIssue, ForgotClear, ForgotIssue, ResetConsume
  <2> QED
    BY <2>1, <2>2, <2>3, Zenon DEF Public
<1>3. ~Protected(h)
  <2>1. \A i, op : ~Authenticate(h, i, op)
    BY <1>a, Zenon DEF Authenticate
  <2>2. ~ActorCheck(h) /\ ~TargetCheck(h) /\ ~Audit(h)
    BY <1>0 DEF ActorCheck, TargetCheck, Audit
  <2>3. \A i : ~CreateAdmin(h, i)
    BY <1>b DEF CreateAdmin
  <2>4. ~UpdateCustomerProfile(h) /\ ~UpdateOwnProfile(h) /\ ~UpdateAdminById(h)
    BY <1>b DEF UpdateCustomerProfile, UpdateOwnProfile, UpdateAdminById, WriteProfile
  <2>5. ~ChangeOwnPassword(h) /\ ~DeleteCustomerProfile(h)
    BY <1>b DEF ChangeOwnPassword, DeleteCustomerProfile
  <2>6. ~DeactivateAdmin(h) /\ ~RestoreAdmin(h) /\ ~UpdateUserStatus(h)
    BY <1>b DEF DeactivateAdmin, RestoreAdmin, UpdateUserStatus, WriteStatus
  <2> QED
    BY <2>1, <2>2, <2>3, <2>4, <2>5, <2>6, Zenon DEF Protected
<1>4. ~Abandon(h)
  BY <1>1 DEF Abandon
<1>5. MailSent(h) => c \in read'
  BY <1>1 DEF MailSent
<1>6. Disable(h) => code'[c].used
  BY <1>1, Spending DEF Disable
<1>7. MailFails(h) => Sending(job'[h], c)
  <2> SUFFICES ASSUME MailFails(h) PROVE Sending(job'[h], c)
    OBVIOUS
  <2>1. Move(h, "disable")
    BY <1>1 DEF MailFails, AfterFailure
  <2>2. job'[h].step = "disable" /\ job'[h].op = job[h].op /\ job'[h].code = job[h].code
    BY <1>1, <2>1 DEF Move, IInv, Types, Job
  <2> QED
    BY <1>1, <2>2 DEF Sending
<1> QED
  BY <1>2, <1>3, <1>4, <1>5, <1>6, <1>7, OwnStep

LEMMA DeliveriesStep ==
  ASSUME IInv, Deliveries, [Next]_vars
  PROVE  Deliveries'
<1>0. scenario' = scenario /\ read \subseteq read' /\ issued \in Nat /\ issued' \in {issued, issued + 1}
  BY RolesStay, CodeHistory
<1> SUFFICES ASSUME ~scenario.stops, NEW c \in 1..issued', Undelivered(c)'
             PROVE  \E h \in Handlers : Sending(job'[h], c)
  BY <1>0 DEF Deliveries, Sending
<1>1. CASE c \in 1..issued
  <2>1. c \in Codes /\ Undelivered(c)
    BY <1>0, <1>1, CodeHistory DEF Undelivered, SameCode
  <2>2. PICK h \in Handlers : Sending(job[h], c)
    BY <1>1, <2>1 DEF Deliveries
  <2>3. CASE job'[h] = job[h]
    BY <2>2, <2>3
  <2>4. CASE job'[h] # job[h]
    BY <2>1, <2>2, <2>4, SendingEnds DEF Undelivered
  <2> QED
    BY <2>3, <2>4
<1>2. CASE c \notin 1..issued
  <2>1. PICK h \in Handlers : Issues(h)
    BY <1>0, <1>2, CodeWrites DEF codeVars, Expire, CooldownPasses
  <2>2. c = issued + 1
    BY <1>0, <1>2
  <2> QED
    BY <2>1, <2>2, IssuedIsSent DEF Undelivered
<1> QED
  BY <1>1, <1>2

\* A verification code that was not delivered is disabled by the request that could not
\* send it, so that the cooldown of resendEmailVerification does not hold for it.
THEOREM UndeliveredCodesDie == Spec => []UndeliveredCodeIsDead
<1>1. Init => Deliveries
  BY DEF Init, Deliveries
<1>2. IInv /\ Deliveries /\ [Next]_vars => Deliveries'
  BY DeliveriesStep
<1>3. Deliveries => UndeliveredCodeIsDead
  BY DEF Deliveries, Undelivered, Sending, UndeliveredCodeIsDead
<1> QED
  BY <1>1, <1>2, <1>3, Invariance, PTL DEF Spec

------------------------------------------------------------------------------
(* The block of abusive clients: the violations a record counts *)

Rec == [violations : Nat, first : Nat, until : Nat]

\* What the record r says of the violations at the times s.
Says(r, s) ==
  LET n == r.violations
  IN  /\ n <= Len(s)
      /\ \A i \in 1..Len(s) :
           i > Len(s) - n => s[i] >= r.first /\ s[i] <= r.first + Window
      /\ n > 0 => s[Len(s) - n + 1] = r.first
      /\ r.until # 0 => n >= MaxViolations
      /\ r # NoViolations => n > 0

BlockTypes ==
  /\ now \in Nat /\ abuseMap \in [Clients -> Rec] /\ offences \in [Clients -> Seq(Nat)]
  /\ \A c \in Clients : abuseMap[c].first <= now

BlockIInv == BlockTypes /\ \A c \in Clients : Says(abuseMap[c], offences[c])

------------------------------------------------------------------------------
(* Records and histories *)

\* The first of n counted violations, and the one m - 1 later, of l in all.
LEMMA CountedPlaces ==
  ASSUME NEW l \in Nat, NEW n \in Nat, NEW m \in Nat, m > 0, n >= m, n <= l
  PROVE  /\ l - n + 1 \in 1..l /\ l - n + 1 + m - 1 \in 1..l
         /\ l - n + 1 + m - 1 > l - n
OBVIOUS

\* The first counted violation and the one MaxViolations - 1 later lie in one
\* window.
LEMMA BlockedForRepetition ==
  ASSUME NEW r \in Rec, NEW s \in Seq(Nat), Says(r, s), r.until # 0
  PROVE  \E i \in DOMAIN s :
           LET j == i + MaxViolations - 1
           IN  j \in DOMAIN s /\ s[j] - s[i] <= Window
<1> DEFINE n == r.violations
           i == Len(s) - n + 1
           j == i + MaxViolations - 1
<1>1. n \in Nat /\ Len(s) \in Nat /\ r.first \in Nat /\ DOMAIN s = 1..Len(s)
  BY LenProperties DEF Rec
<1>2. n >= MaxViolations /\ n <= Len(s) /\ MaxViolations \in Nat \ {0, 1} /\ Window \in Nat
  BY AbuseBlockConstants DEF Says
<1>3. i \in 1..Len(s) /\ j \in 1..Len(s) /\ j > Len(s) - n
  <2>1. MaxViolations \in Nat /\ MaxViolations > 0
    BY <1>2
  <2> HIDE DEF n
  <2> QED
    BY <1>1, <1>2, <2>1, CountedPlaces
<1>4. s[i] = r.first
  BY <1>1, <1>2 DEF Says
<1>5. s[j] <= r.first + Window
  BY <1>3 DEF Says
<1>6. s[i] \in Nat /\ s[j] \in Nat
  <2> HIDE DEF i, j
  <2> QED
    BY <1>3, ElementOfSeq
<1>7. s[j] - s[i] <= Window
  <2> HIDE DEF i, j
  <2> QED
    BY <1>1, <1>2, <1>4, <1>5, <1>6
<1> HIDE DEF i
<1> QED
  BY <1>1, <1>3, <1>7

\* A violation that starts the record anew.
LEMMA Restarted ==
  ASSUME NEW s \in Seq(Nat), NEW t \in Nat
  PROVE  Says([violations |-> 1, first |-> t, until |-> 0], Append(s, t))
<1> DEFINE r == [violations |-> 1, first |-> t, until |-> 0]
           a == Append(s, t)
<1>1. /\ Len(s) \in Nat /\ Len(a) = Len(s) + 1 /\ a[Len(s) + 1] = t
  BY LenProperties, AppendProperties
<1>2. \A i \in 1..(Len(s) + 1) : i > Len(s) + 1 - 1 => i = Len(s) + 1
  BY <1>1
<1>3. r.violations = 1 /\ r.first = t /\ r.until = 0
  OBVIOUS
<1>4. Window \in Nat
  BY AbuseBlockConstants
<1>5. 1 <= Len(s) + 1 /\ Len(s) + 1 - 1 + 1 = Len(s) + 1
  BY <1>1
<1> HIDE DEF r, a
<1>6. Says(r, a)
  BY <1>1, <1>2, <1>3, <1>4, <1>5 DEF Says
<1> QED
  BY <1>6 DEF r, a

\* A violation that is counted in the window of the record.
LEMMA Continued ==
  ASSUME NEW r \in Rec, NEW s \in Seq(Nat), NEW t \in Nat, NEW b \in Nat,
         Says(r, s), r # NoViolations, r.first <= t, t <= r.first + Window,
         b # 0 => r.until # 0 \/ r.violations + 1 >= MaxViolations
  PROVE  Says([violations |-> r.violations + 1, first |-> r.first, until |-> b], Append(s, t))
<1> DEFINE n == r.violations
           q == [violations |-> n + 1, first |-> r.first, until |-> b]
           a == Append(s, t)
<1>1. /\ Len(s) \in Nat /\ Len(a) = Len(s) + 1 /\ a[Len(s) + 1] = t
      /\ \A i \in 1..Len(s) : a[i] = s[i]
  BY LenProperties, AppendProperties
<1>2. n \in Nat /\ n <= Len(s) /\ n > 0 /\ (r.until # 0 => n >= MaxViolations)
  BY DEF Says, Rec
<1>3. MaxViolations \in Nat
  BY AbuseBlockConstants
<1>4. ASSUME NEW i \in 1..(Len(s) + 1), i > Len(s) + 1 - (n + 1)
      PROVE  a[i] >= r.first /\ a[i] <= r.first + Window
  <2>1. CASE i = Len(s) + 1
    <3>1. r.first \in Nat /\ Window \in Nat
      BY AbuseBlockConstants DEF Rec
    <3> QED
      BY <1>1, <2>1, <3>1
  <2>2. CASE i # Len(s) + 1
    <3>1. i \in 1..Len(s) /\ i > Len(s) - n
      BY <1>1, <1>2, <1>4, <2>2
    <3> QED
      BY <1>1, <3>1 DEF Says
  <2> QED
    BY <2>1, <2>2
<1>5. a[Len(s) + 1 - (n + 1) + 1] = r.first
  <2>1. Len(s) - n + 1 \in 1..Len(s) /\ Len(s) + 1 - (n + 1) + 1 = Len(s) - n + 1
    BY <1>1, <1>2
  <2>2. s[Len(s) - n + 1] = r.first
    BY <1>2 DEF Says
  <2> HIDE DEF a
  <2> QED
    BY <1>1, <2>1, <2>2
<1>6. n + 1 <= Len(s) + 1 /\ n + 1 > 0 /\ (b # 0 => n + 1 >= MaxViolations)
  BY <1>1, <1>2, <1>3
<1>7. q.violations = n + 1 /\ q.first = r.first /\ q.until = b
  OBVIOUS
<1> HIDE DEF n, q, a
<1>8. Says(q, a)
  <2>0. Len(a) = Len(s) + 1 /\ q.violations = n + 1
    BY <1>1, <1>7
  <2>1. ASSUME NEW i \in 1..Len(a), i > Len(a) - q.violations
        PROVE  a[i] >= q.first /\ a[i] <= q.first + Window
    <3>1. i \in 1..(Len(s) + 1) /\ i > Len(s) + 1 - (n + 1)
      BY <1>1, <1>2, <2>0, <2>1
    <3>2. a[i] >= r.first /\ a[i] <= r.first + Window
      BY <1>4, <3>1
    <3> QED
      BY <1>7, <3>2
  <2>2. a[Len(a) - q.violations + 1] = q.first
    <3>1. a[Len(a) - q.violations + 1] = a[Len(s) + 1 - (n + 1) + 1]
      BY <1>1, <1>2, <2>0
    <3> QED
      BY <1>5, <1>7, <3>1, Zenon
  <2>3. q.violations <= Len(a) /\ q.violations > 0
        /\ (q.until # 0 => q.violations >= MaxViolations)
    BY <1>1, <1>6, <1>7
  <2> QED
    BY <2>1, <2>2, <2>3 DEF Says
<1> QED
  BY <1>8 DEF n, q, a

------------------------------------------------------------------------------
(* The steps *)

LEMMA InitBlockIInv == BlockInit => BlockIInv
<1> SUFFICES ASSUME BlockInit PROVE BlockIInv
  OBVIOUS
<1>1. BlockTypes
  BY DEF BlockInit, BlockTypes, Rec, NoViolations
<1>2. ASSUME NEW c \in Clients PROVE Says(abuseMap[c], offences[c])
  BY DEF BlockInit, Says, NoViolations
<1> QED
  BY <1>1, <1>2 DEF BlockIInv

\* A request that is let in may close the record of a block that is over.
LEMMA LetInBlockIInv ==
  ASSUME BlockIInv, NEW c \in Clients, LetIn(c)
  PROVE  BlockIInv'
<1>1. now' = now /\ offences' = offences /\ now \in Nat
  BY DEF LetIn, BlockIInv, BlockTypes
<1>2. NoViolations \in Rec /\ NoViolations.first = 0
  BY DEF NoViolations, Rec
<1>3. abuseMap' \in [Clients -> Rec]
  BY <1>2 DEF LetIn, BlockIInv, BlockTypes
<1>4. ASSUME NEW d \in Clients
      PROVE  abuseMap'[d].first <= now /\ Says(abuseMap'[d], offences[d])
  <2>1. CASE abuseMap'[d] = abuseMap[d]
    BY <2>1 DEF BlockIInv, BlockTypes
  <2>2. CASE abuseMap'[d] = NoViolations
    <3>1. Len(offences[d]) \in Nat
      BY LenProperties DEF BlockIInv, BlockTypes
    <3> QED
      BY <1>1, <1>2, <2>2, <3>1 DEF Says, NoViolations
  <2> QED
    BY <2>1, <2>2 DEF LetIn, BlockIInv, BlockTypes
<1> QED
  BY <1>1, <1>3, <1>4 DEF BlockIInv, BlockTypes

\* A request that is refused is registered with its client.
LEMMA RefuseBlockIInv ==
  ASSUME BlockIInv, NEW c \in Clients, RefuseRequest(c)
  PROVE  BlockIInv'
<1> DEFINE r == abuseMap[c]
           s == offences[c]
           b == BlockedUntil(c, r.violations + 1)
           anew == [violations |-> 1, first |-> now, until |-> 0]
           more == [violations |-> r.violations + 1, first |-> r.first, until |-> b]
<1>1. /\ r \in Rec /\ now \in Nat /\ s \in Seq(Nat) /\ Says(r, s) /\ r.first <= now
      /\ r.violations \in Nat /\ r.first \in Nat /\ r.until \in Nat
  BY DEF BlockIInv, BlockTypes, Rec
<1>2. Window \in Nat /\ MaxViolations \in Nat /\ BlockTime \in Nat
  BY AbuseBlockConstants
<1>3. b \in Nat /\ (b # 0 => r.until # 0 \/ r.violations + 1 >= MaxViolations)
  BY <1>1, <1>2 DEF BlockedUntil
<1>4. abuseMap' = [abuseMap EXCEPT ![c] = IF ~Has(c) \/ WindowOver(c) THEN anew ELSE more]
  BY DEF RefuseRequest, Register
<1>5. offences' = [offences EXCEPT ![c] = Append(s, now)] /\ now' = now
  BY DEF RefuseRequest
<1> HIDE DEF b
<1>6. anew \in Rec /\ more \in Rec
  BY <1>1, <1>3 DEF Rec
<1>7. Says(anew, Append(s, now))
  BY <1>1, Restarted
<1>8. Has(c) /\ ~WindowOver(c) => Says(more, Append(s, now))
  <2> SUFFICES ASSUME Has(c), ~WindowOver(c) PROVE Says(more, Append(s, now))
    OBVIOUS
  <2>1. now <= r.first + Window
    BY <1>1, <1>2 DEF WindowOver
  <2> QED
    BY <1>1, <1>3, <2>1, Continued DEF Has
<1>9. anew.first <= now /\ more.first <= now
  BY <1>1
<1> HIDE DEF anew, more, r, s
<1>10. /\ abuseMap' \in [Clients -> Rec]
       /\ abuseMap'[c].first <= now /\ Says(abuseMap'[c], Append(s, now))
       /\ \A d \in Clients : d # c => abuseMap'[d] = abuseMap[d]
  BY <1>4, <1>6, <1>7, <1>8, <1>9 DEF BlockIInv, BlockTypes
<1>11. /\ offences' \in [Clients -> Seq(Nat)] /\ offences'[c] = Append(s, now)
       /\ \A d \in Clients : d # c => offences'[d] = offences[d]
  BY <1>1, <1>5, AppendProperties DEF BlockIInv, BlockTypes
<1>12. ASSUME NEW d \in Clients
       PROVE  abuseMap'[d].first <= now' /\ Says(abuseMap'[d], offences'[d])
  BY <1>5, <1>10, <1>11 DEF BlockIInv, BlockTypes
<1> QED
  BY <1>1, <1>5, <1>10, <1>11, <1>12 DEF BlockIInv, BlockTypes

LEMMA StepBlockIInv == BlockIInv /\ [BlockNext]_blockVars => BlockIInv'
<1> SUFFICES ASSUME BlockIInv, [BlockNext]_blockVars PROVE BlockIInv'
  OBVIOUS
<1>1. CASE Tick
  <2>1. abuseMap' = abuseMap /\ offences' = offences /\ now' = now + 1
    BY <1>1 DEF Tick
  <2>2. \A c \in Clients : abuseMap[c].first \in Nat
    BY DEF BlockIInv, BlockTypes, Rec
  <2> QED
    BY <2>1, <2>2 DEF BlockIInv, BlockTypes
<1>2. ASSUME NEW c \in Clients, LetIn(c) PROVE BlockIInv'
  BY <1>2, LetInBlockIInv
<1>3. ASSUME NEW c \in Clients, Serve(c) PROVE BlockIInv'
  BY <1>3 DEF Serve, BlockIInv, BlockTypes
<1>4. ASSUME NEW c \in Clients, RefuseRequest(c) PROVE BlockIInv'
  BY <1>4, RefuseBlockIInv
<1>5. CASE UNCHANGED blockVars
  BY <1>5 DEF blockVars, BlockIInv, BlockTypes
<1> QED
  BY <1>1, <1>2, <1>3, <1>4, <1>5 DEF BlockNext

------------------------------------------------------------------------------
(* BlockTypes *)

LEMMA RecordTypes ==
  ASSUME BlockIInv, BlockTypeOK, now' \in 0..MaxTime, NEW c \in Clients, RefuseRequest(c)
  PROVE  abuseMap' \in [Clients -> [violations : Nat, first : 0..MaxTime, until : 0..(MaxTime + BlockTime)]]
<1> DEFINE R == [violations : Nat, first : 0..MaxTime, until : 0..(MaxTime + BlockTime)]
           r == abuseMap[c]
           b == BlockedUntil(c, r.violations + 1)
           anew == [violations |-> 1, first |-> now, until |-> 0]
           more == [violations |-> r.violations + 1, first |-> r.first, until |-> b]
<1>1. MaxTime \in Nat /\ BlockTime \in Nat /\ now \in 0..MaxTime
  BY AbuseBlockConstants DEF BlockTypeOK
<1>2. /\ r.violations \in Nat /\ r.first \in 0..MaxTime /\ r.until \in 0..(MaxTime + BlockTime)
      /\ abuseMap \in [Clients -> R]
  BY DEF BlockTypeOK
<1>3. b \in 0..(MaxTime + BlockTime)
  BY <1>1, <1>2 DEF BlockedUntil
<1>4. abuseMap' = [abuseMap EXCEPT ![c] = IF ~Has(c) \/ WindowOver(c) THEN anew ELSE more]
  BY DEF RefuseRequest, Register
<1> HIDE DEF b
<1>5. anew \in R /\ more \in R
  BY <1>1, <1>2, <1>3
<1> HIDE DEF anew, more, R
<1>6. abuseMap' \in [Clients -> R]
  BY <1>2, <1>4, <1>5
<1> QED
  BY <1>6 DEF R

LEMMA BlockTypeStep == BlockIInv /\ BlockTypeOK /\ [BlockNext]_blockVars => BlockTypeOK'
<1> SUFFICES ASSUME BlockIInv, BlockTypeOK, [BlockNext]_blockVars PROVE BlockTypeOK'
  OBVIOUS
<1>1. /\ MaxTime \in Nat /\ BlockTime \in Nat /\ now \in Nat /\ most \in Nat
      /\ offences \in [Clients -> Seq(Nat)]
  BY AbuseBlockConstants DEF BlockTypeOK, BlockIInv, BlockTypes
<1>2. CASE Tick
  <2>1. /\ now < MaxTime /\ now' = now + 1 /\ most' = most /\ abuseMap' = abuseMap
        /\ inside' = inside /\ offences' = offences
    BY <1>2 DEF Tick
  <2>2. \A c \in Clients : \A i \in DOMAIN offences[c] : offences[c][i] \in 0..(now + 1)
    BY <1>1 DEF BlockTypeOK
  <2> QED
    BY <1>1, <2>1, <2>2 DEF BlockTypeOK
<1>3. ASSUME NEW c \in Clients, LetIn(c) PROVE BlockTypeOK'
  <2>1. NoViolations \in [violations : Nat, first : 0..MaxTime, until : 0..(MaxTime + BlockTime)]
    BY <1>1 DEF NoViolations
  <2>2. abuseMap' \in [Clients -> [violations : Nat, first : 0..MaxTime, until : 0..(MaxTime + BlockTime)]]
    BY <1>3, <2>1 DEF LetIn, BlockTypeOK
  <2>3. inside' \in [Clients -> 0..most]
    BY <1>1, <1>3 DEF LetIn, BlockTypeOK
  <2> QED
    BY <1>3, <2>2, <2>3 DEF LetIn, BlockTypeOK
<1>4. ASSUME NEW c \in Clients, Serve(c) PROVE BlockTypeOK'
  BY <1>1, <1>4 DEF Serve, BlockTypeOK
<1>5. ASSUME NEW c \in Clients, RefuseRequest(c) PROVE BlockTypeOK'
  <2>1. /\ now' = now /\ most' = most /\ now \in 0..MaxTime
        /\ offences' = [offences EXCEPT ![c] = Append(@, now)]
    BY <1>5 DEF RefuseRequest, BlockTypeOK
  <2>2. abuseMap' \in [Clients -> [violations : Nat, first : 0..MaxTime, until : 0..(MaxTime + BlockTime)]]
    BY <1>5, <2>1, RecordTypes
  <2>3. inside' \in [Clients -> 0..most]
    BY <1>1, <1>5 DEF RefuseRequest, BlockTypeOK
  <2>4. ASSUME NEW d \in Clients, NEW i \in DOMAIN offences'[d] PROVE offences'[d][i] \in 0..now
    <3>1. CASE d # c
      BY <2>1, <3>1 DEF BlockTypeOK
    <3>2. CASE d = c
      <4>1. offences'[c] = Append(offences[c], now)
        BY <1>1, <2>1
      <4>2. i \in 1..(Len(offences[c]) + 1) /\ DOMAIN offences[c] = 1..Len(offences[c])
        BY <1>1, <3>2, <4>1, AppendProperties, LenProperties
      <4>3. CASE i = Len(offences[c]) + 1
        BY <1>1, <3>2, <4>1, <4>3, AppendProperties
      <4>4. CASE i \in 1..Len(offences[c])
        BY <1>1, <3>2, <4>1, <4>2, <4>4, AppendProperties DEF BlockTypeOK
      <4>5. Len(offences[c]) \in Nat
        BY <1>1, LenProperties
      <4> QED
        BY <4>2, <4>3, <4>4, <4>5
    <3> QED
      BY <3>1, <3>2
  <2> QED
    BY <2>1, <2>2, <2>3, <2>4 DEF BlockTypeOK
<1>6. CASE UNCHANGED blockVars
  BY <1>6 DEF blockVars, BlockTypeOK
<1> QED
  BY <1>2, <1>3, <1>4, <1>5, <1>6 DEF BlockNext

\* Well-typed records, and a block only for MaxViolations violations within one
\* window (registerAbusiveClient), however the requests of a client overlap.
THEOREM BlocksAreEarned == BlockSpec => []AbuseInvariant
<1>1. BlockInit => BlockIInv
  BY InitBlockIInv
<1>2. BlockIInv /\ [BlockNext]_blockVars => BlockIInv'
  BY StepBlockIInv
<1>3. BlockIInv => OnlyRepeatedOffencesBlock
  BY BlockedForRepetition DEF BlockIInv, BlockTypes, OnlyRepeatedOffencesBlock
<1>4. BlockInit => BlockTypeOK
  BY AbuseBlockConstants DEF BlockInit, BlockTypeOK, NoViolations
<1>5. BlockIInv /\ BlockTypeOK /\ [BlockNext]_blockVars => BlockTypeOK'
  BY BlockTypeStep
<1> QED
  BY <1>1, <1>2, <1>3, <1>4, <1>5, PTL DEF BlockSpec, AbuseInvariant

\* The record is started anew by a violation that comes a window after the last
\* one, so the client is not blocked.
LEMMA LongQuietRestarts ==
  ASSUME BlockIInv, NEW c \in Clients, RefuseRequest(c),
         \A i \in DOMAIN offences[c] : now - offences[c][i] > Window
  PROVE  abuseMap'[c].until = 0
<1> DEFINE r == abuseMap[c]
           s == offences[c]
<1>1. /\ r \in Rec /\ s \in Seq(Nat) /\ Says(r, s) /\ now \in Nat
      /\ r.violations \in Nat /\ r.first \in Nat /\ Window \in Nat
      /\ Len(s) \in Nat /\ DOMAIN s = 1..Len(s)
  BY AbuseBlockConstants, LenProperties DEF BlockIInv, BlockTypes, Rec
<1>2. ~Has(c) \/ WindowOver(c)
  <2> SUFFICES ASSUME Has(c) PROVE WindowOver(c)
    OBVIOUS
  <2>1. r.violations > 0 /\ r.violations <= Len(s) /\ s[Len(s) - r.violations + 1] = r.first
    BY <1>1 DEF Says, Has
  <2>2. Len(s) - r.violations + 1 \in DOMAIN s
    BY <1>1, <2>1
  <2>3. now - s[Len(s) - r.violations + 1] > Window
    BY <2>2
  <2> QED
    BY <2>1, <2>3 DEF WindowOver
<1>3. abuseMap'[c] = [violations |-> 1, first |-> now, until |-> 0]
  BY <1>2 DEF RefuseRequest, Register, BlockIInv, BlockTypes
<1> QED
  BY <1>3

\* A client that behaves for a window after its last violation is not blocked by
\* the next one.
THEOREM OffencesExpire == BlockSpec => OldOffencesAreForgotten
<1> DEFINE Step == \A c \in Clients :
             /\ offences'[c] # offences[c]
             /\ \A i \in DOMAIN offences[c] : now - offences[c][i] > Window
             => abuseMap'[c].until = 0
<1>1. BlockInit => BlockIInv
  BY InitBlockIInv
<1>2. BlockIInv /\ [BlockNext]_blockVars => BlockIInv'
  BY StepBlockIInv
<1>3. BlockIInv /\ [BlockNext]_blockVars => [Step]_blockVars
  <2> SUFFICES ASSUME BlockIInv, BlockNext, NEW c \in Clients, offences'[c] # offences[c],
                      \A i \in DOMAIN offences[c] : now - offences[c][i] > Window
               PROVE  abuseMap'[c].until = 0
    OBVIOUS
  <2>1. RefuseRequest(c)
    BY DEF BlockNext, Tick, LetIn, Serve, RefuseRequest, BlockIInv, BlockTypes
  <2> QED
    BY <2>1, LongQuietRestarts
<1> QED
  BY <1>1, <1>2, <1>3, PTL DEF BlockSpec, OldOffencesAreForgotten

\* Whoever has one request at a time has none under way while it is blocked, because
\* the request whose refusal blocked it is over; and no block is longer than blockMs.
Waits ==
  \A c \in Clients :
    /\ Blocked(c) /\ most <= 1 => inside[c] = 0
    /\ abuseMap[c].until <= now + BlockTime

LEMMA InitWaits == BlockInit => Waits
BY AbuseBlockConstants DEF BlockInit, Waits, NoViolations

LEMMA Numbers ==
  ASSUME BlockIInv, BlockTypeOK
  PROVE  /\ now \in Nat /\ BlockTime \in Nat /\ most \in Nat
         /\ \A c \in Clients : abuseMap[c].until \in Nat /\ inside[c] \in 0..most
BY AbuseBlockConstants DEF BlockIInv, BlockTypes, BlockTypeOK, Rec

\* What a violation makes of the end of a block.
LEMMA UntilOf ==
  ASSUME BlockIInv, BlockTypeOK, Waits, NEW c \in Clients, RefuseRequest(c)
  PROVE  /\ abuseMap'[c].until \in {0, abuseMap[c].until, now + BlockTime}
         /\ Blocked(c) /\ ~WindowOver(c) => abuseMap'[c].until = now + BlockTime
<1> DEFINE r == abuseMap[c]
           n == r.violations + 1
<1>1. /\ r \in Rec /\ Says(r, offences[c]) /\ abuseMap \in [Clients -> Rec]
      /\ r.violations \in Nat /\ r.until \in Nat /\ now \in Nat
  BY DEF BlockIInv, BlockTypes, Rec
<1>2. abuseMap'[c] = IF ~Has(c) \/ WindowOver(c) THEN [violations |-> 1, first |-> now, until |-> 0]
                     ELSE [violations |-> n, first |-> r.first, until |-> BlockedUntil(c, n)]
  BY <1>1 DEF RefuseRequest, Register
<1>3. BlockedUntil(c, n) \in {r.until, now + BlockTime}
  BY DEF BlockedUntil
<1>4. ASSUME Blocked(c) PROVE Has(c) /\ BlockedUntil(c, n) = now + BlockTime
  <2>1. r.until # 0
    BY <1>1, <1>4 DEF Blocked
  <2>2. r.violations >= MaxViolations
    BY <1>1, <2>1 DEF Says
  <2>3. n >= MaxViolations
    BY <1>1, <2>2, AbuseBlockConstants
  <2> QED
    BY <2>1, <2>3 DEF Has, NoViolations, BlockedUntil
<1> HIDE DEF n, r
<1> QED
  BY <1>2, <1>3, <1>4 DEF r

LEMMA StepWaits == BlockIInv /\ BlockTypeOK /\ Waits /\ [BlockNext]_blockVars => Waits'
<1> SUFFICES ASSUME BlockIInv, BlockTypeOK, Waits, [BlockNext]_blockVars PROVE Waits'
  OBVIOUS
<1>1. CASE Tick
  BY <1>1, Numbers DEF Tick, Waits, Blocked
<1>2. ASSUME NEW c \in Clients, LetIn(c) PROVE Waits'
  <2>1. /\ ~Blocked(c) /\ abuseMap'[c].until \in {0, abuseMap[c].until} /\ now' = now /\ most' = most
        /\ \A d \in Clients : d # c => abuseMap'[d] = abuseMap[d] /\ inside'[d] = inside[d]
    BY <1>2 DEF LetIn, MayEnter, NoViolations, BlockIInv, BlockTypes, BlockTypeOK
  <2> QED
    BY <2>1, Numbers DEF Waits, Blocked
<1>3. ASSUME NEW c \in Clients, Serve(c) PROVE Waits'
  <2>1. /\ inside[c] > 0 /\ inside'[c] = inside[c] - 1 /\ now' = now /\ most' = most /\ abuseMap' = abuseMap
        /\ \A d \in Clients : d # c => inside'[d] = inside[d]
    BY <1>3 DEF Serve, BlockTypeOK
  <2> QED
    BY <2>1, Numbers DEF Waits, Blocked
<1>4. ASSUME NEW c \in Clients, RefuseRequest(c) PROVE Waits'
  <2>1. /\ inside[c] > 0 /\ inside'[c] = inside[c] - 1 /\ now' = now /\ most' = most
        /\ \A d \in Clients : d # c => abuseMap'[d] = abuseMap[d] /\ inside'[d] = inside[d]
    BY <1>4 DEF RefuseRequest, Register, BlockTypeOK
  <2>2. abuseMap'[c].until \in {0, abuseMap[c].until, now + BlockTime}
    BY <1>4, UntilOf
  <2>3. most <= 1 => inside'[c] = 0
    BY <2>1, Numbers
  <2> QED
    BY <2>1, <2>2, <2>3, Numbers DEF Waits, Blocked
<1>5. CASE UNCHANGED blockVars
  BY <1>5 DEF blockVars, Waits, Blocked
<1> QED
  BY <1>1, <1>2, <1>3, <1>4, <1>5 DEF BlockNext

\* temporaryIpBlockMiddleware and registerAbusiveClient: a block that is not over ends
\* only through the refusal, after the window, of a request that was let in before it.
THEOREM BlocksLast == BlockSpec => BlockLasts
<1> DEFINE Step == \A c \in Clients :
             Blocked(c) /\ abuseMap'[c].until < abuseMap[c].until => most > 1 /\ WindowOver(c)
<1>1. BlockInit => BlockIInv
  BY InitBlockIInv
<1>2. BlockIInv /\ [BlockNext]_blockVars => BlockIInv'
  BY StepBlockIInv
<1>3. BlockInit => BlockTypeOK
  BY AbuseBlockConstants DEF BlockInit, BlockTypeOK, NoViolations
<1>4. BlockIInv /\ BlockTypeOK /\ [BlockNext]_blockVars => BlockTypeOK'
  BY BlockTypeStep
<1>5. BlockIInv /\ BlockTypeOK /\ Waits /\ [BlockNext]_blockVars => [Step]_blockVars
  <2> SUFFICES ASSUME BlockIInv, BlockTypeOK, Waits, BlockNext, NEW c \in Clients,
                      Blocked(c), abuseMap'[c].until < abuseMap[c].until
               PROVE  most > 1 /\ WindowOver(c)
    OBVIOUS
  <2>1. RefuseRequest(c)
    <3>1. abuseMap'[c] # abuseMap[c]
      BY Numbers
    <3> QED
      BY <3>1 DEF BlockNext, Tick, LetIn, MayEnter, Serve, RefuseRequest, Register, BlockIInv, BlockTypes
  <2>2. inside[c] > 0 /\ most > 1
    BY <2>1, Numbers DEF RefuseRequest, Waits
  <2>3. WindowOver(c)
    <3> SUFFICES ASSUME ~WindowOver(c) PROVE FALSE
      OBVIOUS
    <3>1. abuseMap'[c].until = now + BlockTime
      BY <2>1, UntilOf
    <3> QED
      BY <3>1, Numbers DEF Waits
  <2> QED
    BY <2>2, <2>3
<1> QED
  BY <1>1, <1>2, <1>3, <1>4, <1>5, InitWaits, StepWaits, PTL DEF BlockSpec, BlockLasts
==============================================================================
