------------------------------- MODULE Accounts --------------------------------
(***************************************************************************)
(* Signing up and signing in (auth_service.py): a registration reads,      *)
(* inserts and mails in three steps, a login reads twice, and everything   *)
(* after that is a signed token with a subject, a purpose and an expiry.   *)
(* Signatures hold: only what was issued is ever presented.  Hashes of     *)
(* different passwords differ: they differ in the 72 bytes bcrypt looks at.*)
(***************************************************************************)
EXTENDS Integers

CONSTANTS Ids,                 \* of users and of agents
          Emails, Passwords,
          Calls,               \* slots for requests under way
          AccessTTL, VerifyTTL, AgentTTL,
          LastMoment           \* bound on the clock

ASSUME AccountsAssumption == "none" \notin Emails

VARIABLES accounts,            \* the users table
          agents,              \* the agents table: who registered each
          calls,               \* per slot: a register or a login, between awaits
          issued,              \* tokens
          moment,
          mailed, opened,      \* history: <<address, user>> of links
          signedIn             \* history: what a login was given

accountVars == <<accounts, agents, calls, issued, moment, mailed, opened, signedIn>>

NoAccount == [email |-> "none"]
NoCall    == [at |-> "none"]
Accounts  == {u \in Ids : accounts[u] # NoAccount}
ByEmail(e) == {u \in Accounts : accounts[u].email = e}

AccountsInit ==
  /\ accounts = [u \in Ids |-> NoAccount] /\ agents = [a \in Ids |-> "none"]
  /\ calls = [c \in Calls |-> NoCall]
  /\ issued = {} /\ moment = 0
  /\ mailed = {} /\ opened = {} /\ signedIn = {}

-----------------------------------------------------------------------------
(* _issue_token; an agent's subject has a prefix. *)
Token(sub, purpose, ttl) == [sub |-> sub, purpose |-> purpose, exp |-> moment + ttl]

(* Mutant: the purpose is not looked at. *)
Decodes_AnyPurpose(t, purpose) == moment < t.exp /\ t.purpose # "agent"

(* _decode_raw: an agent's subject is no UUID. *)
Decodes(t, purpose) == moment < t.exp /\ t.purpose # "agent" /\ t.purpose = purpose

(* current_user *)
Current(t) == Decodes(t, "access") /\ t.sub \in Accounts

Passes ==
  /\ moment < LastMoment /\ moment' = moment + 1
  /\ UNCHANGED <<accounts, agents, calls, issued, mailed, opened, signedIn>>

-----------------------------------------------------------------------------
(* register: nobody has the address, so far as this read says ... *)
Register(c, e, p) ==
  /\ calls[c] = NoCall /\ ByEmail(e) = {}
  /\ calls' = [calls EXCEPT ![c] = [at |-> "insert", email |-> e, password |-> p]]
  /\ UNCHANGED <<accounts, agents, issued, moment, mailed, opened, signedIn>>

(* users.email is UNIQUE. *)
Taken(e) == ByEmail(e) # {}

(* ... the insert finds out, as an IntegrityError that nothing catches ... *)
Insert(c, u) ==
  /\ calls[c].at = "insert"
  /\ accounts[u] = NoAccount /\ agents[u] = "none"
  /\ IF Taken(calls[c].email)
     THEN /\ calls' = [calls EXCEPT ![c] = NoCall] /\ UNCHANGED accounts
     ELSE /\ accounts' = [accounts EXCEPT ![u] =
                [email |-> calls[c].email, password |-> calls[c].password, verified |-> FALSE]]
          /\ calls' = [calls EXCEPT ![c] = [at |-> "mail", email |-> calls[c].email, user |-> u]]
  /\ UNCHANGED <<agents, issued, moment, mailed, opened, signedIn>>

(* ... and the link is mailed, once.  The SMTP sender raises: the account  *)
(* is there, and no link to it.                                            *)
Mail(c, sent) ==
  /\ calls[c].at = "mail"
  /\ calls' = [calls EXCEPT ![c] = NoCall]
  /\ IF sent
     THEN /\ issued' = issued \union {Token(calls[c].user, "verify_email", VerifyTTL)}
          /\ mailed' = mailed \union {<<calls[c].email, calls[c].user>>}
     ELSE UNCHANGED <<issued, mailed>>
  /\ UNCHANGED <<accounts, agents, moment, opened, signedIn>>

(* verify_email and mark_verified, which updates no row if there is none. *)
VerifyEmail(t) ==
  /\ Decodes(t, "verify_email")
  /\ accounts' = [u \in Ids |-> IF u = t.sub /\ u \in Accounts
                                THEN [accounts[u] EXCEPT !.verified = TRUE] ELSE accounts[u]]
  /\ opened' = opened \union {m \in mailed : m[2] = t.sub}
  /\ UNCHANGED <<agents, calls, issued, moment, mailed, signedIn>>

-----------------------------------------------------------------------------
(* login: the hash is read by address, then the user is. *)
CheckPassword(c, e, p) ==
  /\ calls[c] = NoCall
  /\ \E u \in ByEmail(e) : accounts[u].password = p
  /\ calls' = [calls EXCEPT ![c] = [at |-> "login", email |-> e, password |-> p]]
  /\ UNCHANGED <<accounts, agents, issued, moment, mailed, opened, signedIn>>

Login(c) ==
  /\ calls[c].at = "login"
  /\ calls' = [calls EXCEPT ![c] = NoCall]
  /\ LET users == {u \in ByEmail(calls[c].email) : accounts[u].verified}
     IN  /\ issued' = issued \union {Token(u, "access", AccessTTL) : u \in users}
         /\ signedIn' = signedIn \union {[user |-> u, email |-> calls[c].email,
                                          password |-> calls[c].password] : u \in users}
  /\ UNCHANGED <<accounts, agents, moment, mailed, opened>>

Refresh(t) ==
  /\ Current(t)
  /\ issued' = issued \union {Token(t.sub, "access", AccessTTL)}
  /\ UNCHANGED <<accounts, agents, calls, moment, mailed, opened, signedIn>>

(* POST /agents/register *)
RegisterAgent(t, a) ==
  /\ Current(t) /\ agents[a] = "none" /\ a \notin Accounts
  /\ agents' = [agents EXCEPT ![a] = t.sub]
  /\ issued' = issued \union {Token(a, "agent", AgentTTL)}
  /\ UNCHANGED <<accounts, calls, moment, mailed, opened, signedIn>>

AccountsNext ==
  \/ Passes
  \/ \E c \in Calls :
       \/ \E e \in Emails, p \in Passwords : Register(c, e, p) \/ CheckPassword(c, e, p)
       \/ \E u \in Ids : Insert(c, u)
       \/ \E sent \in BOOLEAN : Mail(c, sent)
       \/ Login(c)
  \/ \E t \in issued :
       VerifyEmail(t) \/ Refresh(t) \/ \E a \in Ids : RegisterAgent(t, a)

AccountsSpec == AccountsInit /\ [][AccountsNext]_accountVars

-----------------------------------------------------------------------------
(* Whatever registrations, logins and links overlap: an address has one    *)
(* account; a token that passes as a user's, however often it was renewed, *)
(* goes back to a login with that account's address and the password it    *)
(* was registered with, after the link mailed to the address was opened;   *)
(* and an agent was registered by a user who had signed in                 *)
(* (auth_service.py:133-184).                                              *)
SignInHonest ==
  /\ \A u, v \in Accounts : accounts[u].email = accounts[v].email => u = v
  /\ \A s \in signedIn :
       /\ accounts[s.user].email = s.email /\ accounts[s.user].password = s.password
       /\ <<s.email, s.user>> \in opened
  /\ \A t \in issued : Current(t) => \E s \in signedIn : s.user = t.sub
  /\ \A a \in Ids : agents[a] # "none" => \E s \in signedIn : s.user = agents[a]
=============================================================================
