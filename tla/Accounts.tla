------------------------------- MODULE Accounts -------------------------------
(***************************************************************************)
(* User accounts: registration, the one-time codes that verify an address   *)
(* or reset a password, login and the tokens it leaves, profiles and their  *)
(* deletion, and the administration of accounts.                            *)
(*                                                                         *)
(* A request is a process: every query, bcrypt call and e-mail it awaits is *)
(* a step of its own, a transaction is one step.  Codes are numbered in the *)
(* order of createdAt; expiresAt and the resend cooldown are kept as live   *)
(* and recent.  A code is entered by somebody who has read it in a mail.    *)
(* isActive is left out: no code in src/ clears it.                         *)
(***************************************************************************)
EXTENDS Naturals, FiniteSets

CONSTANTS
  Rows,            \* rows of users that registrations can create
  Supers,          \* rows the seed created, with role SUPER_ADMIN
  Addresses,       \* e-mail addresses people register with
  Passwords,       \* passwords people choose
  Handlers,        \* requests being served
  MaxCodes,        \* bound: codes issued in a behaviour
  Scenarios,       \* the values of scenario
  NoUser, NoAddress, NoPassword

Users == Rows \cup Supers
Codes == 1..MaxCodes

Admin == {"ADMIN", "SUPER_ADMIN"}
PublicOps == {"createUser", "verifyEmail", "resend", "forgot", "reset"}
CustomerOps == {"updateCustomerProfile", "deleteCustomerProfile"}
SuperOps == {"createAdmin", "updateAdminById", "deactivateAdmin", "restoreAdmin"}
OwnOps == CustomerOps \cup {"updateOwnProfile", "changeOwnPassword"}
AdminOps == {"updateOwnProfile", "changeOwnPassword", "deactivateUser", "restoreUser", "resolveIssue"}
CodeTypes == {"EMAIL_VERIFICATION", "PASSWORD_RESET"}
Operations == {"login"} \cup PublicOps \cup CustomerOps \cup SuperOps \cup AdminOps

\* What happens in a behaviour: the operations clients call, bounds on requests
\* at a time, accounts and codes, whether password-reset requests overlap,
\* whether a request may stop between any two steps or meet a failing query,
\* and the types of codes for which time passes.
Scenario == [ops : SUBSET Operations, requests : Nat, accounts : Nat, codes : 0..MaxCodes,
             passwords : SUBSET Passwords, addresses : SUBSET Addresses,
             resetsOverlap : BOOLEAN, stops : BOOLEAN, ages : SUBSET CodeTypes]

ASSUME AccountConstants ==
  /\ MaxCodes \in Nat /\ Scenarios \subseteq Scenario
  /\ Rows \cap Supers = {} /\ NoUser \notin Users
  /\ NoAddress \notin Addresses /\ NoPassword \notin Passwords

VARIABLES
  role,      \* users.role, NONE for a row that is not there
  email,     \* users.email, NoAddress once anonymised (or not there)
  password,  \* users.password, NoPassword for the hash of a deleted account
  profile,   \* users.name and phone: personal or anonymous
  verified,  \* users.isEmailVerified
  deleted,   \* users.isDeleted
  code,      \* otps
  issued,    \* how many codes there are
  read,      \* the codes that reached a mailbox
  tokens,    \* the accounts somebody holds a token of
  log,       \* audit_logs (action and entity)
  job,       \* what each request is doing
  scenario   \* fixed by the initial state

userVars == <<role, email, password, profile, verified, deleted>>
codeVars == <<code, issued>>
vars == <<userVars, codeVars, read, tokens, log, job, scenario>>

Code == [owner : Users \cup {NoUser}, type : {"none"} \cup CodeTypes,
         used : BOOLEAN, live : BOOLEAN, recent : BOOLEAN]
NoRecord == [owner |-> NoUser, type |-> "none", used |-> FALSE, live |-> FALSE, recent |-> FALSE]

Steps == {"idle", "account", "create", "code", "consume", "issue", "clear", "mail", "disable",
          "actor", "target", "write", "audit"}
Job == [op : {"none"} \cup Operations, step : Steps, id : Users \cup {NoUser}, by : Users \cup {NoUser},
        email : Addresses \cup {NoAddress}, pw : Passwords \cup {NoPassword}, code : Codes \cup {0}]

Idle == [op |-> "none", step |-> "idle", id |-> NoUser, by |-> NoUser,
         email |-> NoAddress, pw |-> NoPassword, code |-> 0]
At(h, op, step) == job[h].op = op /\ job[h].step = step
Move(h, step) == job' = [job EXCEPT ![h].step = step]
Finish(h) == job' = [job EXCEPT ![h] = Idle]

TypeOK ==
  /\ role \in [Users -> {"NONE", "CUSTOMER", "ADMIN", "SUPER_ADMIN"}]
  /\ email \in [Users -> Addresses \cup {NoAddress}]
  /\ password \in [Users -> Passwords \cup {NoPassword}]
  /\ profile \in [Users -> {"personal", "anonymous"}]
  /\ verified \in [Users -> BOOLEAN] /\ deleted \in [Users -> BOOLEAN]
  /\ code \in [Codes -> Code] /\ issued \in 0..MaxCodes
  /\ read \subseteq Codes /\ tokens \subseteq Users
  /\ log \subseteq [action : AdminOps, id : Users]
  /\ job \in [Handlers -> Job] /\ scenario \in Scenarios

Init ==
  /\ scenario \in Scenarios
  /\ role = [i \in Users |-> IF i \in Supers THEN "SUPER_ADMIN" ELSE "NONE"]
  /\ email = [i \in Users |-> NoAddress]
  /\ \E p \in scenario.passwords : password = [i \in Users |-> p]
  /\ profile = [i \in Users |-> "personal"]
  /\ verified = [i \in Users |-> i \in Supers]
  /\ deleted = [i \in Users |-> FALSE]
  /\ code = [c \in Codes |-> NoRecord] /\ issued = 0 /\ read = {}
  /\ tokens = Supers /\ log = {}
  /\ job = [h \in Handlers |-> Idle]

Exists(i) == role[i] # "NONE"
Current(i) == Exists(i) /\ ~deleted[i]
Owner(e) == {i \in Users : Exists(i) /\ email[i] = e}

------------------------------------------------------------------------------
(* One-time codes *)

Unused(i, type) == {c \in 1..issued : code[c].owner = i /\ code[c].type = type /\ ~code[c].used}
Latest(S, c) == c \in S /\ \A d \in S : d <= c
Spend(S) == [c \in Codes |-> IF c \in S THEN [code[c] EXCEPT !.used = TRUE] ELSE code[c]]
\* The cooldown is asked only of verification codes.
NewCode(i, type) ==
  [owner |-> i, type |-> type, used |-> FALSE, live |-> TRUE, recent |-> type = "EMAIL_VERIFICATION"]

\* A new code for user i of this type, after the codes in old are spent.
Issue(h, i, type, old) ==
  /\ issued < scenario.codes
  /\ issued' = issued + 1
  /\ code' = [Spend(old) EXCEPT ![issued + 1] = NewCode(i, type)]
  /\ job' = [job EXCEPT ![h] = [op |-> @.op, step |-> "mail", id |-> i, by |-> @.by,
                                email |-> @.email, pw |-> @.pw, code |-> issued + 1]]

\* A code expires in the order of creation among those of its type.
Expire(c) ==
  /\ code[c].live /\ code[c].type \in scenario.ages
  /\ \A d \in 1..(c - 1) : code[d].type = code[c].type => ~code[d].live
  /\ code' = [code EXCEPT ![c].live = FALSE]
  /\ UNCHANGED <<userVars, issued, read, tokens, log, job, scenario>>

CooldownPasses(c) ==
  /\ code[c].recent /\ code[c].type \in scenario.ages
  /\ \A d \in 1..(c - 1) : code[d].type = code[c].type => ~code[d].recent
  /\ code' = [code EXCEPT ![c].recent = FALSE]
  /\ UNCHANGED <<userVars, issued, read, tokens, log, job, scenario>>

------------------------------------------------------------------------------
(* Registration and verification *)

Begin(h, op, step, i, by, e, p) ==
  /\ job[h] = Idle /\ op \in scenario.ops
  /\ Cardinality({g \in Handlers : job[g] # Idle}) < scenario.requests
  /\ job' = [job EXCEPT ![h] = [op |-> op, step |-> step, id |-> i, by |-> by,
                                email |-> e, pw |-> p, code |-> 0]]
  /\ UNCHANGED <<userVars, codeVars, read, tokens, log, scenario>>

RegisterRead(h, e, p) ==
  Owner(e) = {} /\ Begin(h, "createUser", "create", NoUser, NoUser, e, p)

NewRow(h, i, r) ==
  /\ ~Exists(i) /\ i \in Rows
  /\ Cardinality({j \in Rows : Exists(j)}) < scenario.accounts
  /\ Owner(job[h].email) = {}
  /\ role' = [role EXCEPT ![i] = r]
  /\ email' = [email EXCEPT ![i] = job[h].email]
  /\ password' = [password EXCEPT ![i] = job[h].pw]
  /\ UNCHANGED <<profile, verified, deleted>>

\* The transaction: the unique key on email refuses the second of two.
RegisterCreate(h, i) ==
  /\ At(h, "createUser", "create")
  /\ NewRow(h, i, "CUSTOMER")
  /\ Issue(h, i, "EMAIL_VERIFICATION", {})
  /\ UNCHANGED <<read, tokens, log, scenario>>

MailSent(h) ==
  /\ job[h].step = "mail"
  /\ read' = read \cup {job[h].code}
  /\ Finish(h)
  /\ UNCHANGED <<userVars, codeVars, tokens, log, scenario>>

\* Mistake: a verification code that was not delivered is kept.
KeepUndelivered(h) == "idle"
\* A send that fails, or whose answer is lost after the mail was delivered.
\* Only the verification code is disabled then.
AfterFailure(h) == IF job[h].op = "forgot" THEN "idle" ELSE "disable"

MailFails(h) ==
  /\ job[h].step = "mail"
  /\ read' \in {read, read \cup {job[h].code}}
  /\ IF AfterFailure(h) = "idle" THEN Finish(h) ELSE Move(h, "disable")
  /\ UNCHANGED <<userVars, codeVars, tokens, log, scenario>>

Disable(h) ==
  /\ job[h].step = "disable"
  /\ code' = Spend({job[h].code})
  /\ Finish(h)
  /\ UNCHANGED <<userVars, issued, read, tokens, log, scenario>>

FindAccount(h, op, step, e, p) ==
  \E i \in Owner(e) : ~deleted[i] /\ Begin(h, op, step, i, NoUser, e, p)

VerifyRead(h, e) ==
  (\E i \in Owner(e) : ~verified[i]) /\ FindAccount(h, "verifyEmail", "code", e, NoPassword)
ResendRead(h, e) ==
  (\E i \in Owner(e) : ~verified[i]) /\ FindAccount(h, "resend", "issue", e, NoPassword)
ForgotRead(h, e) ==
  /\ scenario.resetsOverlap \/ \A g \in Handlers : job[g].op # "forgot"
  /\ FindAccount(h, "forgot", "clear", e, NoPassword)
ResetRead(h, e, p) == FindAccount(h, "reset", "code", e, p)

\* The code somebody entered is compared with the newest unused one.
CompareCode(h, type, x) ==
  /\ Latest(Unused(job[h].id, type), x) /\ code[x].live
  /\ job' = [job EXCEPT ![h] = [op |-> @.op, step |-> "consume", id |-> @.id, by |-> @.by,
                                email |-> @.email, pw |-> @.pw, code |-> x]]
  /\ UNCHANGED <<userVars, codeVars, read, tokens, log, scenario>>

VerifyCompare(h, x) ==
  At(h, "verifyEmail", "code") /\ x \in read /\ CompareCode(h, "EMAIL_VERIFICATION", x)

\* Mistake: the conditions of the earlier read are trusted.
TrustRead(c) == TRUE
\* updateMany with its conditions, inside the transaction.
Consumable(c) == ~code[c].used /\ code[c].live

VerifyConsume(h) ==
  LET i == job[h].id
  IN  /\ At(h, "verifyEmail", "consume")
      /\ ~verified[i] /\ Consumable(job[h].code)
      /\ verified' = [verified EXCEPT ![i] = TRUE]
      /\ code' = Spend({job[h].code} \cup Unused(i, "EMAIL_VERIFICATION"))
      /\ Finish(h)
      /\ UNCHANGED <<role, email, password, profile, deleted, issued, read, tokens, log, scenario>>

MayResend(i) ==
  /\ ~verified[i]
  /\ \A c \in Codes : Latest(Unused(i, "EMAIL_VERIFICATION"), c) => ~(code[c].live /\ code[c].recent)
\* Mistake: only expired codes are replaced, those past the cooldown stay.
OnlyExpired(i) == {c \in Unused(i, "EMAIL_VERIFICATION") : ~code[c].live}
Superseded(i) == Unused(i, "EMAIL_VERIFICATION")

ResendIssue(h) ==
  /\ At(h, "resend", "issue")
  /\ MayResend(job[h].id)
  /\ Issue(h, job[h].id, "EMAIL_VERIFICATION", Superseded(job[h].id))
  /\ UNCHANGED <<userVars, read, tokens, log, scenario>>

------------------------------------------------------------------------------
(* Forgotten passwords: no transaction around the two writes *)

\* Mistake: the reset clears codes of the wrong type.
ClearOther(i) == Unused(i, "EMAIL_VERIFICATION")
Cleared(i) == Unused(i, "PASSWORD_RESET")

ForgotClear(h) ==
  /\ At(h, "forgot", "clear")
  /\ code' = Spend(Cleared(job[h].id))
  /\ Move(h, "issue")
  /\ UNCHANGED <<userVars, issued, read, tokens, log, scenario>>

ForgotIssue(h) ==
  /\ At(h, "forgot", "issue")
  /\ Issue(h, job[h].id, "PASSWORD_RESET", {})
  /\ UNCHANGED <<userVars, read, tokens, log, scenario>>

ResetCompare(h, x) ==
  At(h, "reset", "code") /\ x \in read /\ CompareCode(h, "PASSWORD_RESET", x)

ResetConsume(h) ==
  /\ At(h, "reset", "consume")
  /\ Consumable(job[h].code)
  /\ code' = Spend({job[h].code})
  /\ password' = [password EXCEPT ![job[h].id] = job[h].pw]
  /\ Finish(h)
  /\ UNCHANGED <<role, email, profile, verified, deleted, issued, read, tokens, log, scenario>>

------------------------------------------------------------------------------
(* Tokens *)

Login(i, p) ==
  /\ "login" \in scenario.ops
  /\ email[i] # NoAddress \/ i \in Supers
  /\ Current(i) /\ password[i] = p
  /\ tokens' = tokens \cup {i}
  /\ UNCHANGED <<userVars, codeVars, read, log, job, scenario>>

\* authenticateUser reloads the account of the token; authorizeRoles looks at
\* the role it read.
MayCall(i, op) ==
  /\ Current(i)
  /\ role[i] \in IF op \in CustomerOps THEN {"CUSTOMER"}
                 ELSE IF op \in SuperOps THEN {"SUPER_ADMIN"} ELSE Admin

Targets(i, op) ==
  IF op \in OwnOps THEN {i} ELSE IF op = "createAdmin" THEN {NoUser} ELSE Users

Authenticate(h, i, op) ==
  /\ MayCall(i, op)
  /\ \E t \in Targets(i, op),
        e \in (IF op = "createAdmin" THEN scenario.addresses ELSE {NoAddress}),
        p \in (IF op \in {"createAdmin", "changeOwnPassword"} THEN scenario.passwords ELSE {NoPassword}) :
       Begin(h, op, "actor", t, i, e, p)

------------------------------------------------------------------------------
(* Profiles and the administration of accounts *)

\* getActiveCustomerById, getActiveAdminById and verifyActorPassword.  The
\* password entered is the actor's of this moment, p the one the payload sets.
ActorCheck(h) ==
  /\ job[h].step = "actor"
  /\ job[h].op # "resolveIssue" => Current(job[h].by)
  /\ Move(h, IF job[h].op \in OwnOps THEN "write" ELSE "target")
  /\ UNCHANGED <<userVars, codeVars, read, tokens, log, scenario>>

\* What each operation asks of the account it is about.
CreateAdminAllowed(e) == Owner(e) = {}
ManageAllowed(i) == Current(i) /\ role[i] = "ADMIN"
DeactivateAllowed(by, i) == Current(i) /\ role[i] = "ADMIN" /\ by # i
RestoreAllowed(i) == role[i] = "ADMIN" /\ deleted[i]
ResolveAllowed(i) == role[i] = "CUSTOMER"
\* Mistake: administrators manage each other.
AnyStatus(by, i) == Exists(i) /\ by # i /\ role[i] # "SUPER_ADMIN"
\* updateUserStatus: who may change the status of whom.
StatusAllowed(by, i) ==
  /\ Exists(i) /\ by # i /\ role[i] # "SUPER_ADMIN"
  /\ role[i] = "ADMIN" => role[by] = "SUPER_ADMIN"

TargetAllowed(op, by, i, e) ==
  CASE op = "createAdmin" -> CreateAdminAllowed(e)
    [] op = "updateAdminById" -> ManageAllowed(i)
    [] op = "deactivateAdmin" -> DeactivateAllowed(by, i)
    [] op = "restoreAdmin" -> RestoreAllowed(i)
    [] op = "resolveIssue" -> ResolveAllowed(i)
    [] OTHER -> StatusAllowed(by, i)

TargetCheck(h) ==
  /\ job[h].step = "target"
  /\ TargetAllowed(job[h].op, job[h].by, job[h].id, job[h].email)
  /\ Move(h, IF job[h].op = "resolveIssue" THEN "audit" ELSE "write")
  /\ UNCHANGED <<userVars, codeVars, read, tokens, log, scenario>>

CreateAdmin(h, i) ==
  /\ At(h, "createAdmin", "write")
  /\ NewRow(h, i, "ADMIN")
  /\ Finish(h)
  /\ UNCHANGED <<codeVars, read, tokens, log, scenario>>

\* The write is by id, without the conditions of the check.
WriteProfile(h, op) ==
  /\ At(h, op, "write")
  /\ profile' = [profile EXCEPT ![job[h].id] = "personal"]
  /\ Finish(h)
  /\ UNCHANGED <<role, email, password, verified, deleted, codeVars, read, tokens, log, scenario>>

UpdateCustomerProfile(h) == WriteProfile(h, "updateCustomerProfile")
UpdateOwnProfile(h) == WriteProfile(h, "updateOwnProfile")
UpdateAdminById(h) == WriteProfile(h, "updateAdminById")

ChangeOwnPassword(h) ==
  /\ At(h, "changeOwnPassword", "write")
  /\ password' = [password EXCEPT ![job[h].id] = job[h].pw]
  /\ Finish(h)
  /\ UNCHANGED <<role, email, profile, verified, deleted, codeVars, read, tokens, log, scenario>>

\* Mistake: the deleted account keeps its address.
KeepAddress(i) == email
Released(i) == [email EXCEPT ![i] = NoAddress]

DeleteCustomerProfile(h) ==
  LET i == job[h].id
  IN  /\ At(h, "deleteCustomerProfile", "write")
      /\ email' = Released(i)
      /\ password' = [password EXCEPT ![i] = NoPassword]
      /\ profile' = [profile EXCEPT ![i] = "anonymous"]
      /\ deleted' = [deleted EXCEPT ![i] = TRUE]
      /\ Finish(h)
      /\ UNCHANGED <<role, verified, codeVars, read, tokens, log, scenario>>

WriteStatus(h, op, status) ==
  /\ At(h, op, "write")
  /\ deleted' = [deleted EXCEPT ![job[h].id] = status]
  /\ UNCHANGED <<role, email, password, profile, verified, codeVars, read, tokens, log, scenario>>

DeactivateAdmin(h) == WriteStatus(h, "deactivateAdmin", TRUE) /\ Finish(h)
RestoreAdmin(h) == WriteStatus(h, "restoreAdmin", FALSE) /\ Finish(h)

\* Only updateUserStatus is audited, by a query of its own.
UpdateUserStatus(h) ==
  /\ \/ WriteStatus(h, "deactivateUser", TRUE)
     \/ WriteStatus(h, "restoreUser", FALSE)
  /\ Move(h, "audit")

Audit(h) ==
  /\ job[h].step = "audit"
  /\ log' = log \cup {[action |-> job[h].op, id |-> job[h].id]}
  /\ Finish(h)
  /\ UNCHANGED <<userVars, codeVars, read, tokens, scenario>>

\* A check or a query refuses the request, or (with stops) its process ends or the
\* query that disables a code fails, which is only logged.
Abandon(h) ==
  /\ job[h] # Idle
  /\ job[h].step \in {"mail", "disable", "audit"} => scenario.stops
  /\ Finish(h)
  /\ UNCHANGED <<userVars, codeVars, read, tokens, log, scenario>>

------------------------------------------------------------------------------
Public(h) ==
  \/ \E e \in scenario.addresses, p \in scenario.passwords : RegisterRead(h, e, p)
  \/ \E i \in Rows : RegisterCreate(h, i)
  \/ \E e \in scenario.addresses : VerifyRead(h, e) \/ ResendRead(h, e) \/ ForgotRead(h, e)
  \/ \E e \in scenario.addresses, p \in scenario.passwords : ResetRead(h, e, p)
  \/ \E x \in Codes : VerifyCompare(h, x) \/ ResetCompare(h, x)
  \/ MailSent(h) \/ MailFails(h) \/ Disable(h)
  \/ VerifyConsume(h) \/ ResendIssue(h)
  \/ ForgotClear(h) \/ ForgotIssue(h) \/ ResetConsume(h)

Protected(h) ==
  \/ \E i \in tokens, op \in scenario.ops \cap (CustomerOps \cup SuperOps \cup AdminOps) : Authenticate(h, i, op)
  \/ ActorCheck(h) \/ TargetCheck(h)
  \/ \E i \in Rows : CreateAdmin(h, i)
  \/ UpdateCustomerProfile(h) \/ UpdateOwnProfile(h) \/ UpdateAdminById(h)
  \/ ChangeOwnPassword(h) \/ DeleteCustomerProfile(h)
  \/ DeactivateAdmin(h) \/ RestoreAdmin(h) \/ UpdateUserStatus(h) \/ Audit(h)

Next ==
  \/ \E h \in Handlers : Public(h) \/ Protected(h) \/ Abandon(h)
  \/ \E i \in Users, p \in scenario.passwords : Login(i, p)
  \/ \E c \in Codes : Expire(c) \/ CooldownPasses(c)

Spec == Init /\ [][Next]_vars

------------------------------------------------------------------------------
(* Properties *)

\* However registrations, resends and verifications interleave, an account has
\* at most one verification code that could still be used.
OneLiveVerificationCode ==
  \A i \in Users : Cardinality(Unused(i, "EMAIL_VERIFICATION")) <= 1

\* A verified account has no verification code left, also when a resend read it
\* as unverified just before: a mail that still arrives carries a dead code.
VerifiedHasNoCode ==
  \A i \in Users : verified[i] => Unused(i, "EMAIL_VERIFICATION") = {}

\* A verification code whose mail failed is disabled once its request is over,
\* unless its process stopped or that query failed, so that the cooldown does not
\* keep the customer from asking for another.
UndeliveredCodeIsDead ==
  \A c \in 1..issued :
    (~scenario.stops /\ code[c].type = "EMAIL_VERIFICATION" /\ ~code[c].used /\ c \notin read)
      => \E h \in Handlers : job[h].code = c

Newest(i, type, c) == \A d \in 1..issued : code[d].owner = i /\ code[d].type = type => d <= c
SpentFor(i, type) == {c \in 1..issued : /\ code[c].owner = i /\ code[c].type = type
                                        /\ ~code[c].used /\ code'[c].used /\ code[c].live}

\* An address is verified only by spending the newest code of its account
\* while it is live: a code that a resend superseded verifies nothing, even if
\* it had been compared before.
VerifiedByNewestCode ==
  [][\A i \in Users : ~verified[i] /\ verified'[i] =>
       \E c \in SpentFor(i, "EMAIL_VERIFICATION") : Newest(i, "EMAIL_VERIFICATION", c)]_vars

\* A customer's deletion is for good as long as no request that began before it
\* is still running: not even an account that an administrator restores, with
\* tokens and codes of the time before, gets a usable password again.
DeletedPasswordStays ==
  [][\A i \in Rows : scenario.requests = 1 /\ Exists(i) /\ password[i] = NoPassword
       => password'[i] = NoPassword]_vars

\* A password of an account that nobody is logged in to changes only by
\* spending a live, unused reset code: one code resets once.  As long as
\* requests for a code do not overlap, it is the one sent last.
ResetByNewestCode ==
  [][\A i \in Rows : role[i] = "CUSTOMER" /\ password'[i] \notin {password[i], NoPassword} =>
       \E c \in SpentFor(i, "PASSWORD_RESET") :
         scenario.resetsOverlap \/ Newest(i, "PASSWORD_RESET", c)]_vars

\* Super administrators are never deactivated, by any route.
SuperAdminsStay == \A i \in Users : role[i] = "SUPER_ADMIN" => ~deleted[i]

\* What no interleaving may leave behind: a second usable verification code, one
\* that a verified account could be verified with, a super administrator without
\* an account.
AccountInvariant ==
  TypeOK /\ OneLiveVerificationCode /\ VerifiedHasNoCode /\ SuperAdminsStay

\* An administrator's account is deactivated or restored only by a super
\* administrator, whatever route is taken and whoever else is changed meanwhile.
AdminsAreManagedBySupers ==
  [][\A i \in Users : role[i] = "ADMIN" /\ deleted'[i] # deleted[i] =>
       \E h \in Handlers : /\ job[h].id = i /\ job'[h] # job[h]
                           /\ role[job[h].by] = "SUPER_ADMIN"]_vars
==============================================================================
