---------------------------- MODULE ApiServicesProofs ----------------------------
(***************************************************************************)
(* What the API server's services keep, for any values of their constants: *)
(* who may be signed in (Accounts), what a Google credential's row says    *)
(* (OAuthTokens), the limiter and the nonces (RequestGuards), the skills   *)
(* page (SkillLibrary) and the parser of a streamed answer                 *)
(* (RationaleStream).  Each is proved of its own specification.            *)
(***************************************************************************)
EXTENDS Accounts, OAuthTokens, RequestGuards, SkillLibrary, RationaleStream, TLAPS,
        FiniteSetTheorems, WellFoundedInduction, SequenceTheorems

-----------------------------------------------------------------------------
(* Accounts, for any number of users, calls and tokens and any lifetimes.  *)
(* AccountsInv follows a password from the registration to the sign-in:    *)
(* what each call under way has read stays true of the accounts, because   *)
(* an account's address and password never change.                         *)

Account == [email : Emails, password : Passwords, verified : BOOLEAN]

CallTypes ==
  {NoCall}
    \union [at : {"insert", "login"}, email : Emails, password : Passwords]
    \union [at : {"mail"}, email : Emails, user : Ids]

(* The shape of the tables, and of what is under way. *)
AccountsTypeOK ==
  /\ accounts \in [Ids -> Account \union {NoAccount}]
  /\ agents = [a \in Ids |-> agents[a]]
  /\ calls \in [Calls -> CallTypes]
  /\ \A t \in issued : t.sub \in Ids

OneAccountEach ==
  \A u, v \in Accounts : accounts[u].email = accounts[v].email => u = v

(* What a call has read and will use. *)
CallHolds(c) ==
  /\ calls[c].at = "mail" =>
       calls[c].user \in Accounts /\ accounts[calls[c].user].email = calls[c].email
  /\ calls[c].at = "login" =>
       \E u \in ByEmail(calls[c].email) : accounts[u].password = calls[c].password

CallsHold == \A c \in Calls : CallHolds(c)

(* A link went to the address of the account it verifies. *)
LinksHold ==
  /\ \A t \in issued : t.purpose = "verify_email" =>
       t.sub \in Accounts /\ <<accounts[t.sub].email, t.sub>> \in mailed
  /\ \A u \in Accounts : accounts[u].verified => <<accounts[u].email, u>> \in opened

LoginsHold ==
  \A s \in signedIn :
    /\ s.user \in Accounts
    /\ accounts[s.user].email = s.email /\ accounts[s.user].password = s.password
    /\ <<s.email, s.user>> \in opened

TokensHold ==
  /\ \A t \in issued : t.purpose = "access" => \E s \in signedIn : s.user = t.sub
  /\ \A a \in Ids : agents[a] # "none" => \E s \in signedIn : s.user = agents[a]

AccountsInv ==
  /\ AccountsTypeOK /\ OneAccountEach /\ CallsHold
  /\ LinksHold /\ LoginsHold /\ TokensHold

-----------------------------------------------------------------------------
LEMMA AccountOrNone ==
  ASSUME AccountsTypeOK, NEW u \in Ids
  PROVE  accounts[u] # NoAccount <=> accounts[u] \in Account
  BY AccountsAssumption DEF AccountsTypeOK, Account, NoAccount

LEMMA CallShapes ==
  ASSUME AccountsTypeOK, NEW c \in Calls
  PROVE  /\ calls[c].at \in {"insert", "login"} =>
              calls[c].email \in Emails /\ calls[c].password \in Passwords
         /\ calls[c].at = "mail" => calls[c].email \in Emails /\ calls[c].user \in Ids
  <1>1. calls[c] \in CallTypes
    BY DEF AccountsTypeOK
  <1>2. CASE calls[c] = NoCall
    BY <1>2 DEF NoCall
  <1>3. CASE calls[c] \in [at : {"insert", "login"}, email : Emails, password : Passwords]
    BY <1>3
  <1>4. CASE calls[c] \in [at : {"mail"}, email : Emails, user : Ids]
    BY <1>4
  <1>5. QED
    BY <1>1, <1>2, <1>3, <1>4 DEF CallTypes

LEMMA InvStarts == AccountsInit => AccountsInv
  <1> SUFFICES ASSUME AccountsInit PROVE AccountsInv
    OBVIOUS
  <1>1. AccountsTypeOK
    BY DEF AccountsInit, AccountsTypeOK, CallTypes
  <1>2. Accounts = {}
    BY DEF AccountsInit, Accounts
  <1>3. \A c \in Calls : calls[c].at = "none"
    BY DEF AccountsInit, NoCall
  <1>4. QED
    BY <1>1, <1>2, <1>3
       DEF AccountsInit, AccountsInv, OneAccountEach, CallsHold, CallHolds, LinksHold, LoginsHold, TokensHold

LEMMA PassesKeeps ==
  ASSUME AccountsInv, Passes \/ UNCHANGED accountVars
  PROVE  AccountsInv'
  <1>1. /\ accounts' = accounts /\ agents' = agents /\ calls' = calls /\ issued' = issued
        /\ mailed' = mailed /\ opened' = opened /\ signedIn' = signedIn
    BY DEF Passes, accountVars
  <1>2. Accounts' = Accounts /\ \A e : ByEmail(e)' = ByEmail(e)
    BY <1>1 DEF Accounts, ByEmail
  <1>3. QED
    BY <1>1, <1>2 DEF AccountsInv, AccountsTypeOK, OneAccountEach, CallsHold, CallHolds, LinksHold,
                      LoginsHold, TokensHold, Accounts, ByEmail

LEMMA RegisterKeeps ==
  ASSUME AccountsInv, NEW c \in Calls, NEW e \in Emails, NEW p \in Passwords,
         Register(c, e, p)
  PROVE  AccountsInv'
  <1>1. /\ accounts' = accounts /\ agents' = agents /\ issued' = issued
        /\ mailed' = mailed /\ opened' = opened /\ signedIn' = signedIn
    BY DEF Register
  <1>2. AccountsTypeOK'
    BY <1>1 DEF Register, AccountsInv, AccountsTypeOK, CallTypes
  <1>3. \A d \in Calls : calls'[d].at # "insert" => calls'[d] = calls[d]
    BY DEF Register, AccountsInv, AccountsTypeOK
  <1>4. CallsHold'
    BY <1>1, <1>3 DEF AccountsInv, CallsHold, CallHolds, Accounts, ByEmail
  <1>5. QED
    BY <1>1, <1>2, <1>4 DEF AccountsInv, OneAccountEach, LinksHold, LoginsHold, TokensHold, Accounts

LEMMA CheckPasswordKeeps ==
  ASSUME AccountsInv, NEW c \in Calls, NEW e \in Emails, NEW p \in Passwords,
         CheckPassword(c, e, p)
  PROVE  AccountsInv'
  <1>1. /\ accounts' = accounts /\ agents' = agents /\ issued' = issued
        /\ mailed' = mailed /\ opened' = opened /\ signedIn' = signedIn
    BY DEF CheckPassword
  <1>2. AccountsTypeOK'
    BY <1>1 DEF CheckPassword, AccountsInv, AccountsTypeOK, CallTypes
  <1>3. /\ calls'[c] = [at |-> "login", email |-> e, password |-> p]
        /\ \A d \in Calls : d # c => calls'[d] = calls[d]
        /\ \E u \in ByEmail(e) : accounts[u].password = p
    BY DEF CheckPassword, AccountsInv, AccountsTypeOK
  <1>4. CallsHold'
    BY <1>1, <1>3 DEF AccountsInv, CallsHold, CallHolds, Accounts, ByEmail
  <1>5. QED
    BY <1>1, <1>2, <1>4 DEF AccountsInv, OneAccountEach, LinksHold, LoginsHold, TokensHold, Accounts

(* An account that is there keeps its address and its password, and a new  *)
(* one is not yet verified.                                                *)
LEMMA InsertKeeps ==
  ASSUME AccountsInv, NEW c \in Calls, NEW u \in Ids, Insert(c, u)
  PROVE  AccountsInv'
  <1>0. AccountsTypeOK
    BY DEF AccountsInv
  <1>1. /\ agents' = agents /\ issued' = issued
        /\ mailed' = mailed /\ opened' = opened /\ signedIn' = signedIn
    BY DEF Insert
  <1> DEFINE e == calls[c].email
             p == calls[c].password
  <1>2. e \in Emails /\ p \in Passwords
    BY <1>0, CallShapes DEF Insert
  <1>3. CASE Taken(e)
    <2>1. accounts' = accounts /\ calls' = [calls EXCEPT ![c] = NoCall]
      BY <1>3 DEF Insert
    <2>2. AccountsTypeOK'
      BY <1>0, <1>1, <2>1 DEF AccountsTypeOK, CallTypes
    <2>3. calls'[c].at = "none" /\ \A d \in Calls : d # c => calls'[d] = calls[d]
      BY <1>0, <2>1 DEF AccountsTypeOK, NoCall
    <2>4. CallsHold'
      BY <2>1, <2>3 DEF AccountsInv, CallsHold, CallHolds, Accounts, ByEmail
    <2>5. QED
      BY <1>1, <2>1, <2>2, <2>4
         DEF AccountsInv, OneAccountEach, LinksHold, LoginsHold, TokensHold, Accounts
  <1>4. CASE ~Taken(e)
    <2> DEFINE new == [email |-> e, password |-> p, verified |-> FALSE]
    <2>1. /\ accounts' = [accounts EXCEPT ![u] = new]
          /\ calls' = [calls EXCEPT ![c] = [at |-> "mail", email |-> e, user |-> u]]
          /\ accounts[u] = NoAccount
      BY <1>4 DEF Insert
    <2>2. new \in Account
      BY <1>2 DEF Account
    <2>3. AccountsTypeOK'
      BY <1>0, <1>1, <1>2, <2>1, <2>2 DEF AccountsTypeOK, CallTypes
    <2>4. /\ accounts'[u] = new
          /\ \A v \in Ids : v # u => accounts'[v] = accounts[v]
      BY <1>0, <2>1 DEF AccountsTypeOK
    <2>5. new # NoAccount
      BY <1>2, AccountsAssumption DEF NoAccount
    <2>6. Accounts' = Accounts \union {u} /\ u \notin Accounts
      BY <2>1, <2>4, <2>5 DEF Accounts
    <2>7. \A v \in Accounts : v \in Ids /\ v # u /\ accounts'[v] = accounts[v]
                              /\ accounts[v].email # e
      BY <1>4, <2>4, <2>6 DEF Accounts, Taken, ByEmail
    <2>8. accounts'[u].email = e /\ ~accounts'[u].verified
      BY <2>4
    <2>9. /\ calls'[c].at = "mail" /\ calls'[c].email = e /\ calls'[c].user = u
          /\ \A d \in Calls : d # c => calls'[d] = calls[d]
      BY <1>0, <2>1 DEF AccountsTypeOK
    <2> HIDE DEF new, e, p
    <2>10. OneAccountEach'
      BY <2>6, <2>7, <2>8 DEF AccountsInv, OneAccountEach
    <2>11. CallsHold'
      <3>1. \A f : \A v \in ByEmail(f) : v \in ByEmail(f)' /\ accounts'[v] = accounts[v]
        BY <2>6, <2>7 DEF ByEmail
      <3>2. ASSUME NEW d \in Calls, d # c PROVE CallHolds(d)'
        <4>1. calls'[d] = calls[d] /\ CallHolds(d)
          BY <2>9, <3>2 DEF AccountsInv, CallsHold
        <4>2. QED
          BY <2>6, <2>7, <3>1, <4>1 DEF CallHolds
      <3>3. CallHolds(c)'
        BY <2>6, <2>8, <2>9 DEF CallHolds
      <3>4. QED
        BY <3>2, <3>3 DEF CallsHold
    <2>12. LinksHold'
      BY <1>1, <2>6, <2>7, <2>8 DEF AccountsInv, LinksHold
    <2>13. LoginsHold'
      BY <1>1, <2>6, <2>7 DEF AccountsInv, LoginsHold
    <2>14. TokensHold'
      BY <1>1 DEF AccountsInv, TokensHold
    <2>15. QED
      BY <2>3, <2>10, <2>11, <2>12, <2>13, <2>14 DEF AccountsInv
  <1>5. QED
    BY <1>3, <1>4

LEMMA MailKeeps ==
  ASSUME AccountsInv, NEW c \in Calls, NEW arrives \in BOOLEAN, Mail(c, arrives)
  PROVE  AccountsInv'
  <1>0. AccountsTypeOK /\ calls[c].at = "mail"
    BY DEF AccountsInv, Mail
  <1>1. /\ accounts' = accounts /\ agents' = agents
        /\ opened' = opened /\ signedIn' = signedIn
        /\ calls' = [calls EXCEPT ![c] = NoCall]
    BY DEF Mail
  <1> DEFINE link  == Token(calls[c].user, "verify_email", VerifyTTL)
             entry == <<calls[c].email, calls[c].user>>
  <1>2. \/ issued' = issued \union {link} /\ mailed' = mailed \union {entry}
        \/ issued' = issued /\ mailed' = mailed
    BY DEF Mail
  <1>3. link.sub = calls[c].user /\ link.purpose = "verify_email"
    BY DEF Token
  <1>4. /\ calls[c].user \in Ids /\ calls[c].user \in Accounts
        /\ accounts[calls[c].user].email = calls[c].email
    BY <1>0, CallShapes DEF AccountsInv, CallsHold, CallHolds
  <1> HIDE DEF link
  <1>5. AccountsTypeOK'
    BY <1>0, <1>1, <1>2, <1>3, <1>4 DEF AccountsTypeOK, CallTypes
  <1>6. calls'[c].at = "none" /\ \A d \in Calls : d # c => calls'[d] = calls[d]
    BY <1>0, <1>1 DEF AccountsTypeOK, NoCall
  <1>7. CallsHold'
    BY <1>1, <1>6 DEF AccountsInv, CallsHold, CallHolds, Accounts, ByEmail
  <1>8. LinksHold'
    BY <1>1, <1>2, <1>3, <1>4 DEF AccountsInv, LinksHold, Accounts
  <1>9. QED
    BY <1>1, <1>2, <1>3, <1>5, <1>7, <1>8
       DEF AccountsInv, OneAccountEach, LoginsHold, TokensHold, Accounts

LEMMA VerifyEmailKeeps ==
  ASSUME AccountsInv, NEW t \in issued, VerifyEmail(t)
  PROVE  AccountsInv'
  <1>0. AccountsTypeOK
    BY DEF AccountsInv
  <1>1. /\ agents' = agents /\ calls' = calls /\ issued' = issued
        /\ mailed' = mailed /\ signedIn' = signedIn
        /\ opened' = opened \union {m \in mailed : m[2] = t.sub}
    BY DEF VerifyEmail
  <1>2. accounts' = [u \in Ids |-> IF u = t.sub /\ u \in Accounts
                                   THEN [accounts[u] EXCEPT !.verified = TRUE] ELSE accounts[u]]
    BY DEF VerifyEmail
  <1>3. ASSUME NEW u \in Accounts
        PROVE  /\ u \in Ids /\ accounts'[u] \in Account
               /\ accounts'[u].email = accounts[u].email
               /\ accounts'[u].password = accounts[u].password
               /\ u # t.sub => accounts'[u] = accounts[u]
    <2>1. u \in Ids /\ accounts[u] \in Account
      BY <1>0, AccountOrNone DEF Accounts
    <2>2. QED
      BY <1>2, <2>1 DEF Account
  <1>4. ASSUME NEW u \in Ids, u \notin Accounts PROVE accounts'[u] = NoAccount
    BY <1>2, <1>4 DEF Accounts
  <1>5. AccountsTypeOK'
    <2>1. accounts' = [u \in Ids |-> accounts'[u]]
      BY <1>2
    <2>2. \A u \in Ids : accounts'[u] \in Account \union {NoAccount}
      BY <1>3, <1>4
    <2> QED
      BY <1>0, <1>1, <2>1, <2>2 DEF AccountsTypeOK
  <1>6. Accounts' = Accounts
    <2>1. \A u \in Ids : u \in Accounts => accounts'[u] # NoAccount
      BY <1>3, AccountsAssumption DEF Account, NoAccount
    <2>2. QED
      BY <1>4, <2>1 DEF Accounts
  <1>7. \A e : ByEmail(e)' = ByEmail(e)
    BY <1>3, <1>6 DEF ByEmail
  <1>8. OneAccountEach'
    BY <1>3, <1>6 DEF AccountsInv, OneAccountEach
  <1>9. CallsHold'
    <2>1. \A e : \A u \in ByEmail(e) : accounts'[u].password = accounts[u].password
      BY <1>3 DEF ByEmail
    <2>2. QED
      BY <1>1, <1>3, <1>6, <1>7, <2>1 DEF AccountsInv, CallsHold, CallHolds
  <1>10. LinksHold'
    <2>1. t.purpose = "verify_email"
      BY DEF VerifyEmail, Decodes
    <2>2. t.sub \in Accounts /\ <<accounts[t.sub].email, t.sub>> \in mailed
      BY <2>1 DEF AccountsInv, LinksHold
    <2>3. <<accounts[t.sub].email, t.sub>> \in opened'
      BY <1>1, <2>2
    <2>4. \A u \in Accounts : accounts'[u].verified => <<accounts'[u].email, u>> \in opened'
      BY <1>1, <1>3, <2>3 DEF AccountsInv, LinksHold
    <2>5. QED
      BY <1>1, <1>3, <1>6, <2>4 DEF AccountsInv, LinksHold
  <1>11. LoginsHold'
    BY <1>1, <1>3, <1>6 DEF AccountsInv, LoginsHold
  <1>12. TokensHold'
    BY <1>1 DEF AccountsInv, TokensHold
  <1>13. QED
    BY <1>5, <1>8, <1>9, <1>10, <1>11, <1>12 DEF AccountsInv

LEMMA LoginKeeps ==
  ASSUME AccountsInv, NEW c \in Calls, Login(c)
  PROVE  AccountsInv'
  <1>0. AccountsTypeOK /\ calls[c].at = "login"
    BY DEF AccountsInv, Login
  <1> DEFINE users == {u \in ByEmail(calls[c].email) : accounts[u].verified}
             entry(u) == [user |-> u, email |-> calls[c].email, password |-> calls[c].password]
  <1>1. /\ accounts' = accounts /\ agents' = agents
        /\ mailed' = mailed /\ opened' = opened
        /\ calls' = [calls EXCEPT ![c] = NoCall]
    BY DEF Login
  <1>2. /\ issued' = issued \union {Token(u, "access", AccessTTL) : u \in users}
        /\ signedIn' = signedIn \union {entry(u) : u \in users}
    BY DEF Login
  <1>3. ASSUME NEW u \in users
        PROVE  /\ u \in Accounts /\ u \in Ids
               /\ accounts[u].email = calls[c].email
               /\ accounts[u].password = calls[c].password
               /\ <<calls[c].email, u>> \in opened
    <2>1. u \in Accounts /\ u \in Ids /\ accounts[u].email = calls[c].email /\ accounts[u].verified
      BY DEF ByEmail, Accounts
    <2>2. PICK v \in ByEmail(calls[c].email) : accounts[v].password = calls[c].password
      BY <1>0 DEF AccountsInv, CallsHold, CallHolds
    <2>3. v = u
      BY <2>1, <2>2 DEF AccountsInv, OneAccountEach, ByEmail
    <2>4. QED
      BY <2>1, <2>2, <2>3 DEF AccountsInv, LinksHold
  <1> HIDE DEF users
  <1>4. \A t \in issued' : t \in issued \/ \E u \in users :
          t.sub = u /\ t.purpose = "access" /\ \E s \in signedIn' : s.user = u
    <2>1. \A u \in users : entry(u) \in signedIn' /\ entry(u).user = u
      BY <1>2
    <2>2. \A u \in users : Token(u, "access", AccessTTL).sub = u
                          /\ Token(u, "access", AccessTTL).purpose = "access"
      BY DEF Token
    <2>3. ASSUME NEW t \in issued', t \notin issued
          PROVE  \E u \in users : t = Token(u, "access", AccessTTL)
      BY <1>2, <2>3
    <2>4. ASSUME NEW t \in issued', t \notin issued
          PROVE  \E u \in users :
                   t.sub = u /\ t.purpose = "access" /\ \E s \in signedIn' : s.user = u
      <3>1. PICK u \in users : t = Token(u, "access", AccessTTL)
        BY <2>3, <2>4
      <3>2. t.sub = u /\ t.purpose = "access"
        BY <2>2, <3>1
      <3>3. QED
        BY <2>1, <3>2
    <2>5. QED
      BY <2>4
  <1>5. AccountsTypeOK'
    BY <1>0, <1>1, <1>3, <1>4 DEF AccountsTypeOK, CallTypes
  <1>6. calls'[c].at = "none" /\ \A d \in Calls : d # c => calls'[d] = calls[d]
    BY <1>0, <1>1 DEF AccountsTypeOK, NoCall
  <1>7. CallsHold'
    BY <1>1, <1>6 DEF AccountsInv, CallsHold, CallHolds, Accounts, ByEmail
  <1>8. LinksHold'
    BY <1>1, <1>4 DEF AccountsInv, LinksHold, Accounts
  <1>9. LoginsHold'
    <2>1. \A s \in signedIn' : s \in signedIn \/ \E u \in users :
            s.user = u /\ s.email = calls[c].email /\ s.password = calls[c].password
      BY <1>2
    <2>2. Accounts' = Accounts
      BY <1>1 DEF Accounts
    <2>3. QED
      BY <1>1, <1>3, <2>1, <2>2 DEF AccountsInv, LoginsHold
  <1>10. TokensHold'
    BY <1>1, <1>2, <1>4 DEF AccountsInv, TokensHold
  <1>11. QED
    BY <1>1, <1>5, <1>7, <1>8, <1>9, <1>10 DEF AccountsInv, OneAccountEach, Accounts

(* A token that passes as a user's is an access token, so it goes back to  *)
(* a login; what it is exchanged for goes back to the same one.            *)
LEMMA RefreshKeeps ==
  ASSUME AccountsInv, NEW t \in issued, Refresh(t)
  PROVE  AccountsInv'
  <1>1. /\ accounts' = accounts /\ agents' = agents /\ calls' = calls
        /\ mailed' = mailed /\ opened' = opened /\ signedIn' = signedIn
        /\ issued' = issued \union {Token(t.sub, "access", AccessTTL)}
    BY DEF Refresh
  <1>2. t.sub \in Ids /\ \E s \in signedIn : s.user = t.sub
    BY DEF Refresh, Current, Decodes, AccountsInv, AccountsTypeOK, TokensHold
  <1>3. \A x \in issued' : x \in issued \/ (x.sub = t.sub /\ x.purpose = "access")
    BY <1>1 DEF Token
  <1>4. AccountsTypeOK'
    BY <1>1, <1>2, <1>3 DEF AccountsInv, AccountsTypeOK
  <1>5. LinksHold' /\ TokensHold'
    BY <1>1, <1>2, <1>3 DEF AccountsInv, LinksHold, TokensHold, Accounts
  <1>6. QED
    BY <1>1, <1>4, <1>5 DEF AccountsInv, OneAccountEach, CallsHold, CallHolds, LoginsHold, Accounts, ByEmail

LEMMA RegisterAgentKeeps ==
  ASSUME AccountsInv, NEW t \in issued, NEW a \in Ids, RegisterAgent(t, a)
  PROVE  AccountsInv'
  <1>1. /\ accounts' = accounts /\ calls' = calls
        /\ mailed' = mailed /\ opened' = opened /\ signedIn' = signedIn
        /\ issued' = issued \union {Token(a, "agent", AgentTTL)}
        /\ agents' = [agents EXCEPT ![a] = t.sub]
    BY DEF RegisterAgent
  <1>2. \E s \in signedIn : s.user = t.sub
    BY DEF RegisterAgent, Current, Decodes, AccountsInv, TokensHold
  <1>3. \A x \in issued' : x \in issued \/ (x.sub = a /\ x.purpose = "agent")
    BY <1>1 DEF Token
  <1>4. agents'[a] = t.sub /\ \A b \in Ids : b # a => agents'[b] = agents[b]
    BY <1>1 DEF AccountsInv, AccountsTypeOK
  <1>5. agents' = [b \in Ids |-> agents'[b]]
    BY <1>1 DEF AccountsInv, AccountsTypeOK
  <1>6. AccountsTypeOK'
    BY <1>1, <1>3, <1>5 DEF AccountsInv, AccountsTypeOK
  <1>7. LinksHold' /\ TokensHold'
    BY <1>1, <1>2, <1>3, <1>4 DEF AccountsInv, LinksHold, TokensHold, Accounts
  <1>8. QED
    BY <1>1, <1>6, <1>7 DEF AccountsInv, OneAccountEach, CallsHold, CallHolds, LoginsHold, Accounts, ByEmail

LEMMA InvKept == AccountsInv /\ [AccountsNext]_accountVars => AccountsInv'
  <1> SUFFICES ASSUME AccountsInv, [AccountsNext]_accountVars PROVE AccountsInv'
    OBVIOUS
  <1>1. CASE Passes \/ UNCHANGED accountVars
    BY <1>1, PassesKeeps
  <1>2. CASE \E c \in Calls, e \in Emails, p \in Passwords : Register(c, e, p) \/ CheckPassword(c, e, p)
    BY <1>2, RegisterKeeps, CheckPasswordKeeps
  <1>3. CASE \E c \in Calls, u \in Ids : Insert(c, u)
    BY <1>3, InsertKeeps
  <1>4. CASE \E c \in Calls, arrives \in BOOLEAN : Mail(c, arrives)
    BY <1>4, MailKeeps
  <1>5. CASE \E c \in Calls : Login(c)
    BY <1>5, LoginKeeps
  <1>6. CASE \E t \in issued : VerifyEmail(t) \/ Refresh(t) \/ \E a \in Ids : RegisterAgent(t, a)
    BY <1>6, VerifyEmailKeeps, RefreshKeeps, RegisterAgentKeeps
  <1>7. QED
    BY <1>1, <1>2, <1>3, <1>4, <1>5, <1>6 DEF AccountsNext

LEMMA InvIsHonest == AccountsInv => SignInHonest
  BY DEF AccountsInv, OneAccountEach, LoginsHold, TokensHold, SignInHonest, Current, Decodes

(* Whatever calls overlap, each of them keeps what it has read true; so an *)
(* address has one account and a sign-in the password of that account.     *)
THEOREM AccountsInvariant == AccountsSpec => []AccountsInv
  <1>1. QED
    BY InvStarts, InvKept, PTL DEF AccountsSpec

(* Nobody is signed in, and no agent registered, but by the password the   *)
(* account was registered with and after its link was opened.              *)
THEOREM SignInsAreHonest == AccountsSpec => []SignInHonest
  <1>1. QED
    BY AccountsInvariant, InvIsHonest, PTL

-----------------------------------------------------------------------------
(* One Google credential: TokensInv. *)

Places == {"idle", "wait", "locked", "call", "called", "refused", "answered", "write", "flag",
           "done", "failed"}

(* All nodes being in one process, its lock lets one of them past.         *)
LEMMA OneTurn ==
  ASSUME TokensInv, Undisturbed, NEW m \in Nodes, NEW n \in Nodes, Holds(m), Holds(n)
  PROVE  m = n
  <1> DEFINE live == {proc[k] : k \in Nodes}
  <1>1. live \subseteq Processes
    BY DEF TokensInv, TokensTypeOK
  <1>2. IsFiniteSet(live)
    BY <1>1, FS_Subset, TokensAssumption
  <1>3. Cardinality(live) = 1
    BY DEF Undisturbed
  <1>4. proc[m] \in live /\ proc[n] \in live
    OBVIOUS
  <1> HIDE DEF live
  <1>5. proc[m] = proc[n]
    BY <1>2, <1>3, <1>4, FS_Singleton
  <1>6. QED
    BY <1>5 DEF TokensInv

LEMMA TokensInvStarts == TokensInit => TokensInv
  <1> SUFFICES ASSUME TokensInit PROVE TokensInv
    OBVIOUS
  <1> USE TokensAssumption DEF TokensInit, NoToken
  <1>1. TokensTypeOK
    <2>1. 0 \in 0..MaxTokens /\ Blank \in Metadata
      BY DEF Metadata, Blank
    <2>2. row \in [state : {"none", "live", "deleted"}, refresh : 0..MaxTokens, md : Metadata]
      BY <2>1
    <2>3. answer \in [Nodes \union {"api"} -> [access : 0..MaxTokens, refresh : 0..MaxTokens]]
      BY <2>1 DEF NoAnswer
    <2>4. copy \in [Nodes \union {"api"} -> Metadata]
      BY <2>1
    <2>5. lock \in [Processes -> Nodes \union {Free}] /\ sent \in [Nodes -> 0..MaxTokens]
      BY <2>1
    <2>6. pc \in [Nodes -> {"idle", "wait", "locked", "call", "called", "refused",
                            "answered", "write", "flag", "done", "failed"}]
      OBVIOUS
    <2>7. QED
      BY <2>1, <2>2, <2>3, <2>4, <2>5, <2>6 DEF TokensTypeOK
  <1>2. RowInv /\ \A n \in Nodes : Holds(n) => lock[proc[n]] = n
    BY DEF RowInv, Live, Holds
  <1>3. TurnsInv
    BY DEF TurnsInv, RefreshInv, Refreshing, Live, Settled
  <1>4. QED
    BY <1>1, <1>2, <1>3 DEF TokensInv

(* The node that holds the lock moves on or leaves.                        *)
LEMMA HolderMoves ==
  ASSUME TokensInv, NEW n \in Nodes, Holds(n), NEW l \in Places, At(n, l),
         UNCHANGED <<proc, consent>>,
         lock' = lock \/ (Release(n) /\ l \notin {"locked", "call", "called", "refused", "answered",
                                                  "write", "flag"})
  PROVE  /\ pc' \in [Nodes -> Places] /\ lock' \in [Processes -> Nodes \union {Free}] /\ pc'[n] = l
         /\ \A m \in Nodes : Holds(m)' => lock'[proc'[m]] = m
         /\ Undisturbed => \A m \in Nodes : m # n => pc'[m] = pc[m] /\ ~Holds(m)'
         /\ Undisturbed => (Refreshing' <=> l \in {"call", "called", "refused", "answered", "write", "flag"})
         /\ Undisturbed => \A m \in Nodes : m # n => RefreshInv(m)'
         /\ consent # "idle" => ~Undisturbed \/ pc[n] = "locked"
  <1>0. /\ pc \in [Nodes -> Places] /\ lock \in [Processes -> Nodes \union {Free}]
        /\ proc \in [Nodes -> Processes] /\ pc' = [pc EXCEPT ![n] = l]
    BY DEF TokensInv, TokensTypeOK, At, Places
  <1>1. pc' \in [Nodes -> Places] /\ pc'[n] = l /\ \A m \in Nodes : m # n => pc'[m] = pc[m]
    BY <1>0
  <1>2. lock' \in [Processes -> Nodes \union {Free}]
    BY <1>0 DEF Release
  <1>3. \A m \in Nodes : m # n => (Holds(m)' <=> Holds(m))
    BY <1>1 DEF Holds
  <1>4. lock[proc[n]] = n /\ \A m \in Nodes : Holds(m) => lock[proc[m]] = m
    BY DEF TokensInv
  <1>5. ASSUME NEW m \in Nodes, Holds(m)'
        PROVE  lock'[proc'[m]] = m
    <2>1. CASE m = n
      BY <1>1, <1>4, <1>5, <2>1 DEF Holds
    <2>2. CASE m # n
      <3>1. lock[proc[m]] = m /\ proc[m] # proc[n]
        BY <1>3, <1>4, <1>5, <2>2
      <3>2. QED
        BY <1>0, <3>1 DEF Release
    <2>3. QED
      BY <2>1, <2>2
  <1>6. Undisturbed => \A m \in Nodes : m # n => ~Holds(m)'
    BY <1>3, OneTurn
  <1>7. Undisturbed => (Refreshing' <=> l \in {"call", "called", "refused", "answered", "write", "flag"})
    BY <1>1, <1>6 DEF Refreshing, Holds
  <1>8. \A m \in Nodes : ~Holds(m)' => RefreshInv(m)'
    BY DEF Holds, RefreshInv
  <1>9. consent # "idle" => ~Undisturbed \/ pc[n] = "locked"
    BY DEF TokensInv, TurnsInv, Refreshing, Holds
  <1>10. QED
    BY <1>1, <1>2, <1>5, <1>6, <1>7, <1>8, <1>9

(* A step that leaves the row and Google as they are. *)
LEMMA NeedKeeps ==
  ASSUME TokensInv, NEW n \in Nodes, Need(n)
  PROVE  TokensInv'
  <1>1. PICK l \in {"failed", "done", "wait"} : At(n, l)
    BY DEF Need
  <1>2. /\ pc[n] \in {"idle", "done", "failed"} /\ pc \in [Nodes -> Places]
        /\ pc' = [pc EXCEPT ![n] = l]
        /\ UNCHANGED <<proc, row, valid, given, sent, answer, copy, lock, consent, overlapped, lost>>
    BY <1>1 DEF Need, At, TokensInv, TokensTypeOK, Places
  <1>3. pc' \in [Nodes -> Places] /\ \A m \in Nodes : m # n => pc'[m] = pc[m]
    BY <1>2 DEF Places
  <1>4. pc'[n] = l
    BY <1>2
  <1>5. \A m \in Nodes : Holds(m)' <=> Holds(m)
    BY <1>2, <1>3, <1>4 DEF Holds
  <1>6. Refreshing' <=> Refreshing
    BY <1>2, <1>3, <1>4 DEF Refreshing
  <1>7. TokensTypeOK'
    BY <1>2, <1>3 DEF TokensInv, TokensTypeOK, Places
  <1>8. RowInv' /\ (Undisturbed' <=> Undisturbed) /\ (Live' <=> Live)
    BY <1>2 DEF TokensInv, RowInv, Live, Undisturbed
  <1>9. ASSUME TurnsInv PROVE TurnsInv'
    <2>1. \A m \in Nodes : RefreshInv(m)'
      BY <1>2, <1>3, <1>4, <1>9 DEF TurnsInv, RefreshInv, Live, InStep, KeptRefresh
    <2>2. QED
      BY <1>2, <1>6, <1>9, <2>1 DEF TurnsInv, Live, InStep, KeptRefresh, Settled
  <1>10. QED
    BY <1>2, <1>5, <1>7, <1>8, <1>9 DEF TokensInv

LEMMA TakeLockKeeps ==
  ASSUME TokensInv, NEW n \in Nodes, TakeLock(n)
  PROVE  TokensInv'
  <1>1. /\ pc[n] = "wait" /\ lock[proc[n]] = Free /\ pc \in [Nodes -> Places]
        /\ lock \in [Processes -> Nodes \union {Free}] /\ proc \in [Nodes -> Processes]
        /\ pc' = [pc EXCEPT ![n] = "locked"] /\ lock' = [lock EXCEPT ![proc[n]] = n]
        /\ UNCHANGED <<proc, row, valid, given, sent, answer, copy, consent, overlapped, lost>>
    BY DEF TakeLock, At, TokensInv, TokensTypeOK, Places
  <1>2. pc' \in [Nodes -> Places] /\ \A m \in Nodes : m # n => pc'[m] = pc[m]
    BY <1>1 DEF Places
  <1>3. pc'[n] = "locked"
    BY <1>1
  <1>4. ASSUME NEW m \in Nodes, Holds(m)' PROVE lock'[proc'[m]] = m
    <2>1. CASE m = n
      BY <1>1, <2>1
    <2>2. CASE m # n
      <3>1. Holds(m) /\ lock[proc[m]] = m
        BY <1>2, <1>4, <2>2 DEF TokensInv, Holds
      <3>2. proc[m] # proc[n]
        BY <1>1, <3>1, TokensAssumption DEF Free
      <3>3. QED
        BY <1>1, <3>1, <3>2
    <2>3. QED
      BY <2>1, <2>2
  <1>5. Refreshing' <=> Refreshing
    BY <1>1, <1>2, <1>3 DEF Refreshing
  <1>6. TokensTypeOK'
    BY <1>1, <1>2 DEF TokensInv, TokensTypeOK, Places
  <1>7. RowInv' /\ (Undisturbed' <=> Undisturbed) /\ (Live' <=> Live)
    BY <1>1 DEF TokensInv, RowInv, Live, Undisturbed
  <1>8. ASSUME TurnsInv PROVE TurnsInv'
    <2>1. \A m \in Nodes : RefreshInv(m)'
      BY <1>1, <1>2, <1>3, <1>8 DEF TurnsInv, RefreshInv, Live, InStep, KeptRefresh
    <2>2. QED
      BY <1>1, <1>5, <1>8, <2>1 DEF TurnsInv, Live, InStep, KeptRefresh, Settled
  <1>9. QED
    BY <1>4, <1>6, <1>7, <1>8 DEF TokensInv

LEMMA RereadKeeps ==
  ASSUME TokensInv, NEW n \in Nodes, Reread(n)
  PROVE  TokensInv'
  <1>0. /\ pc[n] = "locked" /\ Holds(n) /\ TokensTypeOK /\ RowInv
        /\ UNCHANGED <<proc, row, valid, given, answer, copy, consent, lost>>
    BY DEF Reread, Holds, TokensInv
  <1>1. CASE ~Live \/ row.md.fresh
    <2>1. PICK l \in {"done", "failed"} : At(n, l)
      BY <1>1 DEF Reread
    <2>2. Release(n) /\ UNCHANGED <<sent, overlapped>>
      BY <1>1 DEF Reread
    <2>3. l \in Places
      BY DEF Places
    <2>4. /\ pc' \in [Nodes -> Places] /\ lock' \in [Processes -> Nodes \union {Free}] /\ pc'[n] = l
          /\ \A m \in Nodes : Holds(m)' => lock'[proc'[m]] = m
          /\ Undisturbed => (Refreshing' <=> FALSE)
          /\ Undisturbed => \A m \in Nodes : m # n => RefreshInv(m)'
      BY <1>0, <2>1, <2>2, <2>3, HolderMoves
    <2>5. TokensTypeOK'
      BY <1>0, <2>2, <2>4 DEF TokensTypeOK, Places
    <2>6. RowInv' /\ (Undisturbed' <=> Undisturbed)
      BY <1>0, <2>2 DEF RowInv, Live, Undisturbed
    <2>7. ASSUME Undisturbed PROVE TurnsInv'
      <3>1. TurnsInv
        BY <2>7 DEF TokensInv
      <3>2. Undisturbed => ~Refreshing
        <4>1. \A m \in Nodes : Undisturbed /\ Holds(m) => m = n
          BY <1>0, OneTurn
        <4>2. QED
          BY <1>0, <4>1 DEF Refreshing, Holds
      <3>3. RefreshInv(n)'
        BY <2>1, <2>4 DEF RefreshInv
      <3>4. QED
        BY <1>0, <2>2, <2>4, <2>7, <3>1, <3>2, <3>3 DEF TurnsInv, Live, InStep, KeptRefresh, Settled
    <2>8. QED
      BY <2>4, <2>5, <2>6, <2>7 DEF TokensInv
  <1>2. CASE ~(~Live \/ row.md.fresh)
    <2>1. /\ At(n, "call") /\ UNCHANGED lock /\ sent' = [sent EXCEPT ![n] = row.refresh]
          /\ overlapped' = (overlapped \/ consent # "idle")
      BY <1>2 DEF Reread
    <2>2. "call" \in Places
      BY DEF Places
    <2>3. /\ pc' \in [Nodes -> Places] /\ lock' \in [Processes -> Nodes \union {Free}] /\ pc'[n] = "call"
          /\ \A m \in Nodes : Holds(m)' => lock'[proc'[m]] = m
          /\ Undisturbed => \A m \in Nodes : m # n => RefreshInv(m)'
      BY <1>0, <2>1, <2>2, HolderMoves
    <2>4. sent' \in [Nodes -> 0..MaxTokens] /\ sent'[n] = row.refresh
      BY <1>0, <2>1 DEF TokensTypeOK
    <2>5. TokensTypeOK'
      BY <1>0, <2>1, <2>3, <2>4 DEF TokensTypeOK, Places
    <2>6. RowInv' /\ (Undisturbed' => Undisturbed /\ consent = "idle")
      <3>1. RowInv'
        BY <1>0 DEF RowInv, Live
      <3>2. Undisturbed' => ~overlapped' /\ ~lost'
        BY DEF Undisturbed
      <3>3. ~overlapped' => ~overlapped /\ consent = "idle"
        BY <2>1
      <3>4. Undisturbed' /\ ~overlapped /\ ~lost => Undisturbed
        BY <1>0 DEF Undisturbed
      <3>5. QED
        BY <1>0, <3>1, <3>2, <3>3, <3>4
    <2>7. ASSUME Undisturbed, consent = "idle" PROVE TurnsInv'
      <3>1. TurnsInv
        BY <2>7 DEF TokensInv
      <3>2. ~Refreshing
        <4>1. \A m \in Nodes : Holds(m) => m = n
          BY <1>0, <2>7, OneTurn
        <4>2. QED
          BY <1>0, <4>1 DEF Refreshing, Holds
      <3>3. InStep
        BY <1>2, <2>7, <3>1, <3>2 DEF TurnsInv, Settled
      <3>4. RefreshInv(n)'
        BY <1>0, <1>2, <2>3, <2>4, <3>3 DEF RefreshInv, InStep, Live
      <3>5. Refreshing'
        BY <2>3 DEF Refreshing
      <3>6. QED
        BY <1>0, <2>3, <2>7, <3>4, <3>5 DEF TurnsInv, Settled
    <2>8. QED
      BY <2>3, <2>5, <2>6, <2>7 DEF TokensInv
  <1>3. QED
    BY <1>1, <1>2

LEMMA CallGoogleKeeps ==
  ASSUME TokensInv, NEW n \in Nodes, CallGoogle(n)
  PROVE  TokensInv'
  <1>0. /\ pc[n] = "call" /\ Holds(n) /\ TokensTypeOK /\ RowInv /\ At(n, "called")
        /\ UNCHANGED <<proc, row, valid, given, sent, answer, copy, lock, consent, overlapped, lost>>
    BY DEF CallGoogle, Holds, TokensInv
  <1>1. /\ pc' \in [Nodes -> Places] /\ pc'[n] = "called"
        /\ \A m \in Nodes : Holds(m)' => lock'[proc'[m]] = m
        /\ Undisturbed => Refreshing'
        /\ Undisturbed => \A m \in Nodes : m # n => RefreshInv(m)'
        /\ Undisturbed => consent = "idle"
    BY <1>0, HolderMoves DEF Places
  <1>2. TokensTypeOK'
    BY <1>0, <1>1 DEF TokensTypeOK, Places
  <1>3. RowInv' /\ (Undisturbed' <=> Undisturbed)
    BY <1>0 DEF RowInv, Live, Undisturbed
  <1>4. ASSUME Undisturbed PROVE TurnsInv'
    <2>1. RefreshInv(n)
      BY <1>4 DEF TokensInv, TurnsInv
    <2>2. RefreshInv(n)'
      BY <1>0, <1>1, <2>1 DEF RefreshInv, InStep, Live
    <2>3. QED
      BY <1>0, <1>1, <1>4, <2>2 DEF TurnsInv, Settled
  <1>5. QED
    BY <1>1, <1>2, <1>3, <1>4 DEF TokensInv

(* External: what a refusal means and what an answer brings.               *)
LEMMA GoogleRefreshesKeeps ==
  ASSUME TokensInv, NEW n \in Nodes, GoogleRefreshes(n)
  PROVE  TokensInv'
  <1>0. /\ pc[n] = "called" /\ Holds(n) /\ TokensTypeOK /\ RowInv
        /\ UNCHANGED <<proc, row, sent, copy, lock, consent, overlapped, lost>>
    BY DEF GoogleRefreshes, Holds, TokensInv
  <1>1. (Undisturbed' <=> Undisturbed) /\ (Live' <=> Live)
    BY <1>0 DEF Undisturbed, Live
  <1>2. Undisturbed => RefreshInv(n)
    BY DEF TokensInv, TurnsInv
  <1>3. CASE sent[n] = valid /\ valid # NoToken
    <2>1. PICK rotate \in BOOLEAN :
            /\ given + 2 <= MaxTokens
            /\ answer' = [answer EXCEPT ![n] = [access |-> given + 1,
                                               refresh |-> IF rotate THEN given + 2 ELSE NoToken]]
            /\ given' = given + (IF rotate THEN 2 ELSE 1)
            /\ valid' = IF rotate THEN IF rotate THEN given + 2 ELSE NoToken ELSE valid
            /\ At(n, "answered")
      BY <1>3 DEF GoogleRefreshes
    <2>2. /\ pc' \in [Nodes -> Places] /\ pc'[n] = "answered"
          /\ \A m \in Nodes : Holds(m)' => lock'[proc'[m]] = m
          /\ Undisturbed => Refreshing'
          /\ Undisturbed => \A m \in Nodes : m # n => RefreshInv(m)'
          /\ Undisturbed => consent = "idle"
      BY <1>0, <2>1, HolderMoves DEF Places
    <2>3. given \in 0..MaxTokens /\ given + 1 \in 0..MaxTokens /\ given + 2 \in 0..MaxTokens
      BY <1>0, <2>1, TokensAssumption DEF TokensTypeOK
    <2>4. given' \in 0..MaxTokens /\ valid' \in 0..MaxTokens
      BY <1>0, <2>1, <2>3 DEF TokensTypeOK, NoToken
    <2> DEFINE got == [access |-> given + 1, refresh |-> IF rotate THEN given + 2 ELSE NoToken]
    <2>5. got \in [access : 0..MaxTokens, refresh : 0..MaxTokens]
          /\ got.refresh = IF rotate THEN given + 2 ELSE NoToken
      <3> DEFINE new == IF rotate THEN given + 2 ELSE NoToken
      <3>1. new \in 0..MaxTokens
        BY <2>3, TokensAssumption DEF NoToken
      <3> HIDE DEF new
      <3>2. [access |-> given + 1, refresh |-> new] \in [access : 0..MaxTokens, refresh : 0..MaxTokens]
        BY <2>3, <3>1
      <3>3. got = [access |-> given + 1, refresh |-> new] /\ got.refresh = new
        BY DEF new
      <3>4. QED
        BY <3>2, <3>3 DEF new
    <2>6. /\ answer' \in [Nodes \union {"api"} -> [access : 0..MaxTokens, refresh : 0..MaxTokens]]
          /\ answer'[n] = got /\ answer'["api"] = answer["api"]
      <3> HIDE DEF got
      <3>1. answer' = [answer EXCEPT ![n] = got] /\ n # "api"
        BY <2>1, TokensAssumption DEF got
      <3>2. QED
        BY <1>0, <2>5, <3>1 DEF TokensTypeOK
    <2>7. TokensTypeOK'
      BY <1>0, <2>2, <2>4, <2>6 DEF TokensTypeOK, Places
    <2>8. RowInv'
      BY <1>0, <1>1, <2>6 DEF RowInv
    <2>9. ASSUME Undisturbed PROVE TurnsInv'
      <3>1. Live => row.refresh = valid
        BY <1>0, <1>2, <1>3, <2>9 DEF RefreshInv, InStep
      <3>2. ASSUME Live PROVE valid' = NoToken \/ valid' = KeptRefresh(n)'
        <4>1. CASE rotate = TRUE
          <5>1. valid' = given + 2 /\ got.refresh = given + 2 /\ given + 2 # NoToken
            BY <2>1, <2>3, <2>5, <4>1 DEF NoToken
          <5>2. QED
            BY <2>6, <5>1 DEF KeptRefresh
        <4>2. CASE rotate = FALSE
          <5>1. valid' = valid /\ got.refresh = NoToken /\ row'.refresh = row.refresh
            BY <1>0, <2>1, <2>5, <4>2
          <5>2. QED
            BY <2>6, <3>1, <3>2, <5>1 DEF KeptRefresh
        <4>3. QED
          BY <4>1, <4>2
      <3>3. RefreshInv(n)'
        BY <1>1, <2>2, <3>2 DEF RefreshInv
      <3>4. QED
        BY <1>0, <2>2, <2>9, <3>3 DEF TurnsInv, Settled
    <2>10. QED
      BY <1>1, <2>2, <2>7, <2>8, <2>9 DEF TokensInv
  <1>4. CASE ~(sent[n] = valid /\ valid # NoToken)
    <2>1. At(n, "refused") /\ UNCHANGED <<answer, given, valid>>
      BY <1>4 DEF GoogleRefreshes
    <2>2. /\ pc' \in [Nodes -> Places] /\ pc'[n] = "refused"
          /\ \A m \in Nodes : Holds(m)' => lock'[proc'[m]] = m
          /\ Undisturbed => Refreshing'
          /\ Undisturbed => \A m \in Nodes : m # n => RefreshInv(m)'
          /\ Undisturbed => consent = "idle"
      BY <1>0, <2>1, HolderMoves DEF Places
    <2>3. TokensTypeOK'
      BY <1>0, <2>1, <2>2 DEF TokensTypeOK, Places
    <2>4. RowInv'
      BY <1>0, <1>1, <2>1 DEF RowInv
    <2>5. ASSUME Undisturbed PROVE TurnsInv'
      <3>1. Live => valid = NoToken
        BY <1>0, <1>2, <1>4, <2>5 DEF RefreshInv, InStep
      <3>2. RefreshInv(n)'
        BY <1>1, <2>1, <2>2, <3>1 DEF RefreshInv
      <3>3. QED
        BY <1>0, <2>2, <2>5, <3>2 DEF TurnsInv, Settled
    <2>6. QED
      BY <1>1, <2>2, <2>3, <2>4, <2>5 DEF TokensInv
  <1>5. QED
    BY <1>3, <1>4

(* What a call has read and received goes with it; the callback's is kept. *)
LEMMA Forgotten ==
  ASSUME TokensTypeOK, NEW w \in Nodes \union {"api"}, Forget(w)
  PROVE  /\ sent' \in [Nodes -> 0..MaxTokens]
         /\ answer' \in [Nodes \union {"api"} -> [access : 0..MaxTokens, refresh : 0..MaxTokens]]
         /\ copy' \in [Nodes \union {"api"} -> Metadata]
         /\ \A v \in Nodes \union {"api"} : v # w => answer'[v] = answer[v] /\ copy'[v] = copy[v]
  <1>1. 0 \in 0..MaxTokens /\ Blank \in Metadata
        /\ NoAnswer \in [access : 0..MaxTokens, refresh : 0..MaxTokens]
    BY TokensAssumption DEF Metadata, Blank, NoAnswer, NoToken
  <1>2. sent' \in [Nodes -> 0..MaxTokens]
    BY <1>1 DEF Forget, TokensTypeOK, NoToken
  <1>3. QED
    BY <1>1, <1>2 DEF Forget, TokensTypeOK

LEMMA CallFailsKeeps ==
  ASSUME TokensInv, NEW n \in Nodes, CallFails(n)
  PROVE  TokensInv'
  <1>0. /\ pc[n] \in {"called", "answered"} /\ Holds(n) /\ TokensTypeOK /\ RowInv
        /\ At(n, "failed") /\ Release(n) /\ Forget(n) /\ lost' = (lost \/ pc[n] = "answered")
        /\ UNCHANGED <<proc, row, valid, given, consent, overlapped>>
    BY DEF CallFails, Holds, TokensInv
  <1>1. /\ pc' \in [Nodes -> Places] /\ lock' \in [Processes -> Nodes \union {Free}] /\ pc'[n] = "failed"
        /\ \A m \in Nodes : Holds(m)' => lock'[proc'[m]] = m
        /\ Undisturbed => \A m \in Nodes : m # n => RefreshInv(m)'
        /\ Undisturbed => consent = "idle"
    BY <1>0, HolderMoves DEF Places
  <1>2. n # "api" /\ lost \in BOOLEAN
    BY <1>0, TokensAssumption DEF TokensTypeOK
  <1>3. TokensTypeOK'
    BY <1>0, <1>1, <1>2, Forgotten DEF TokensTypeOK, Places
  <1>4. answer'["api"] = answer["api"] /\ (Live' <=> Live)
    BY <1>0, <1>2, Forgotten DEF Live
  <1>5. RowInv' /\ (Undisturbed' => Undisturbed /\ pc[n] = "called")
    <2>1. RowInv'
      BY <1>0, <1>4 DEF RowInv
    <2>2. Undisturbed' => ~lost'
      BY DEF Undisturbed
    <2>3. Undisturbed' /\ ~lost => Undisturbed
      BY <1>0 DEF Undisturbed
    <2>4. QED
      BY <1>0, <1>2, <2>1, <2>2, <2>3
  <1>6. ASSUME Undisturbed, pc[n] = "called" PROVE TurnsInv'
    <2>1. Live => InStep
      BY <1>6 DEF TokensInv, TurnsInv, RefreshInv
    <2>2. RefreshInv(n)'
      BY <1>1 DEF RefreshInv
    <2>3. Live' => InStep'
      BY <1>0, <1>4, <2>1 DEF InStep
    <2>4. QED
      BY <1>0, <1>1, <1>6, <2>2, <2>3 DEF TurnsInv
  <1>7. QED
    BY <1>1, <1>3, <1>5, <1>6 DEF TokensInv

LEMMA ReadRowKeeps ==
  ASSUME TokensInv, NEW n \in Nodes, ReadRow(n)
  PROVE  TokensInv'
  <1>0. /\ pc[n] \in {"answered", "refused"} /\ Holds(n) /\ TokensTypeOK /\ RowInv
        /\ UNCHANGED <<proc, row, valid, given, consent, overlapped, lost>>
    BY DEF ReadRow, Holds, TokensInv
  <1>1. (Undisturbed' <=> Undisturbed) /\ (Live' <=> Live) /\ (Undisturbed => RefreshInv(n))
    BY <1>0 DEF Undisturbed, Live, TokensInv, TurnsInv
  <1>2. n # "api"
    BY TokensAssumption
  <1>3. CASE Live
    <2>1. PICK l \in {"write", "flag"} : At(n, l) /\ l = (IF pc[n] = "answered" THEN "write" ELSE "flag")
      BY <1>3 DEF ReadRow
    <2>2. UNCHANGED <<lock, sent, answer>> /\ copy' = [copy EXCEPT ![n] = row.md]
      BY <1>3 DEF ReadRow
    <2>3. /\ pc' \in [Nodes -> Places] /\ pc'[n] = l
          /\ \A m \in Nodes : Holds(m)' => lock'[proc'[m]] = m
          /\ Undisturbed => Refreshing'
          /\ Undisturbed => \A m \in Nodes : m # n => RefreshInv(m)'
          /\ Undisturbed => consent = "idle"
      BY <1>0, <2>1, <2>2, HolderMoves DEF Places
    <2>4. copy' \in [Nodes \union {"api"} -> Metadata]
      BY <1>0, <2>2 DEF TokensTypeOK
    <2>5. TokensTypeOK'
      BY <1>0, <2>2, <2>3, <2>4 DEF TokensTypeOK, Places
    <2>6. RowInv'
      BY <1>0, <1>1, <2>2 DEF RowInv
    <2>7. ASSUME Undisturbed PROVE TurnsInv'
      <3>1. RefreshInv(n)'
        BY <1>0, <1>1, <2>1, <2>2, <2>3, <2>7 DEF RefreshInv, KeptRefresh
      <3>2. QED
        BY <1>0, <2>3, <2>7, <3>1 DEF TurnsInv, Settled
    <2>8. QED
      BY <1>1, <2>3, <2>5, <2>6, <2>7 DEF TokensInv
  <1>4. CASE ~Live
    <2>1. At(n, "failed") /\ Release(n) /\ Forget(n)
      BY <1>4 DEF ReadRow
    <2>2. /\ pc' \in [Nodes -> Places] /\ lock' \in [Processes -> Nodes \union {Free}]
          /\ pc'[n] = "failed"
          /\ \A m \in Nodes : Holds(m)' => lock'[proc'[m]] = m
          /\ Undisturbed => \A m \in Nodes : m # n => RefreshInv(m)'
          /\ Undisturbed => consent = "idle"
      BY <1>0, <2>1, HolderMoves DEF Places
    <2>3. TokensTypeOK'
      BY <1>0, <2>1, <2>2, Forgotten DEF TokensTypeOK, Places
    <2>4. RowInv'
      BY <1>0, <1>1, <1>2, <2>1, Forgotten DEF RowInv
    <2>5. ASSUME Undisturbed PROVE TurnsInv'
      <3>1. RefreshInv(n)'
        BY <2>2 DEF RefreshInv
      <3>2. QED
        BY <1>0, <1>1, <1>4, <2>2, <2>5, <3>1 DEF TurnsInv
    <2>6. QED
      BY <1>1, <2>2, <2>3, <2>4, <2>5 DEF TokensInv
  <1>5. QED
    BY <1>3, <1>4

(* What a writer stores is a row, and puts it in step with Google.         *)
LEMMA RowStored ==
  ASSUME TokensTypeOK, Live, NEW w \in Nodes \union {"api"}
  PROVE  /\ Updated(w) \in [state : {"none", "live", "deleted"}, refresh : 0..MaxTokens, md : Metadata]
         /\ Updated(w).state = "live" /\ Updated(w).refresh = KeptRefresh(w) /\ ~Updated(w).md.flag
         /\ row.refresh # NoToken => Updated(w).refresh # NoToken
  <1> DEFINE md == [copy[w] EXCEPT !.access = answer[w].access, !.fresh = TRUE, !.flag = FALSE]
  <1>1. copy[w] \in Metadata /\ answer[w] \in [access : 0..MaxTokens, refresh : 0..MaxTokens]
    BY DEF TokensTypeOK
  <1>2. md \in Metadata /\ ~md.flag
    BY <1>1 DEF Metadata
  <1>3. KeptRefresh(w) \in 0..MaxTokens /\ (row.refresh # NoToken => KeptRefresh(w) # NoToken)
    BY <1>1 DEF KeptRefresh, TokensTypeOK
  <1>4. row.state = "live" /\ Updated(w) = [state |-> row.state, refresh |-> KeptRefresh(w), md |-> md]
    BY DEF Updated, Live
  <1> HIDE DEF md
  <1>5. QED
    BY <1>2, <1>3, <1>4

LEMMA WriteRowKeeps ==
  ASSUME TokensInv, NEW n \in Nodes, WriteRow(n)
  PROVE  TokensInv'
  <1>0. /\ pc[n] \in {"write", "flag"} /\ Holds(n) /\ TokensTypeOK /\ RowInv
        /\ Release(n) /\ Forget(n)
        /\ UNCHANGED <<proc, valid, given, consent, overlapped, lost>>
    BY DEF WriteRow, Holds, TokensInv
  <1>1. (Undisturbed' <=> Undisturbed) /\ (Undisturbed => RefreshInv(n))
    BY <1>0 DEF Undisturbed, TokensInv, TurnsInv
  <1>2. PICK l \in {"done", "failed"} : At(n, l)
    BY DEF WriteRow
  <1>3. /\ pc' \in [Nodes -> Places] /\ lock' \in [Processes -> Nodes \union {Free}] /\ pc'[n] = l
        /\ \A m \in Nodes : Holds(m)' => lock'[proc'[m]] = m
        /\ Undisturbed => ~Refreshing'
        /\ Undisturbed => \A m \in Nodes : m # n => RefreshInv(m)'
        /\ Undisturbed => consent = "idle"
    BY <1>0, <1>2, HolderMoves DEF Places
  <1>4. n # "api" /\ answer'["api"] = answer["api"]
    BY <1>0, TokensAssumption, Forgotten
  <1>5. RefreshInv(n)'
    BY <1>2, <1>3 DEF RefreshInv
  <1>6. ASSUME row' \in [state : {"none", "live", "deleted"}, refresh : 0..MaxTokens, md : Metadata],
               RowInv', Undisturbed /\ Live' => InStep'
        PROVE  TokensInv'
    <2>1. TokensTypeOK'
      BY <1>0, <1>3, <1>6, Forgotten DEF TokensTypeOK, Places
    <2>2. Undisturbed => TurnsInv'
      BY <1>0, <1>3, <1>5, <1>6 DEF TurnsInv
    <2>3. QED
      BY <1>1, <1>3, <1>6, <2>1, <2>2 DEF TokensInv
  <1>7. CASE ~Live
    <2>1. row' = row
      BY <1>7 DEF WriteRow
    <2>2. QED
      BY <1>0, <1>4, <1>6, <1>7, <2>1 DEF RowInv, Live, TokensTypeOK
  <1>8. CASE Live /\ pc[n] = "write"
    <2>1. row' = Updated(n)
      BY <1>8 DEF WriteRow
    <2>2. /\ row' \in [state : {"none", "live", "deleted"}, refresh : 0..MaxTokens, md : Metadata]
          /\ row'.state = "live" /\ row'.refresh = KeptRefresh(n) /\ ~row'.md.flag
          /\ row'.refresh # NoToken
      BY <1>0, <1>8, <2>1, RowStored DEF RowInv
    <2>3. RowInv'
      BY <1>0, <1>4, <1>8, <2>2 DEF RowInv, Live
    <2>4. Undisturbed => InStep'
      BY <1>0, <1>1, <1>8, <2>2 DEF RefreshInv, InStep
    <2>5. QED
      BY <1>6, <2>2, <2>3, <2>4
  <1>9. CASE Live /\ pc[n] = "flag"
    <2>1. row' = [row EXCEPT !.md = [copy[n] EXCEPT !.flag = TRUE]]
      BY <1>9 DEF WriteRow
    <2>2. [copy[n] EXCEPT !.flag = TRUE] \in Metadata
      BY <1>0 DEF TokensTypeOK, Metadata
    <2>3. /\ row' \in [state : {"none", "live", "deleted"}, refresh : 0..MaxTokens, md : Metadata]
          /\ row'.state = row.state /\ row'.refresh = row.refresh
      BY <1>0, <2>1, <2>2 DEF TokensTypeOK
    <2>4. RowInv'
      BY <1>0, <1>4, <2>3 DEF RowInv, Live
    <2>5. Undisturbed => InStep'
      BY <1>0, <1>1, <1>9, <2>3 DEF RefreshInv, InStep, RowInv
    <2>6. QED
      BY <1>6, <2>3, <2>4, <2>5
  <1>10. QED
    BY <1>0, <1>7, <1>8, <1>9

-----------------------------------------------------------------------------
LEMMA ConsentKeeps ==
  ASSUME TokensInv, Consent
  PROVE  TokensInv'
  <1>0. /\ consent = "idle" /\ row.state # "deleted" /\ TokensTypeOK /\ RowInv /\ given + 2 <= MaxTokens
        /\ given' = given + 2 /\ overlapped' = (overlapped \/ Refreshing)
        /\ consent' = (IF Live THEN "renewed" ELSE "first")
        /\ UNCHANGED <<proc, row, pc, sent, copy, lock, lost>>
    BY DEF Consent, MayConsent, TokensInv
  <1>1. PICK merged \in IF Live /\ valid # NoToken THEN BOOLEAN ELSE {FALSE} :
          /\ answer' = [answer EXCEPT !["api"] = [access |-> given + 1,
                           refresh |-> IF merged THEN NoToken ELSE given + 2]]
          /\ valid' = IF merged THEN valid ELSE IF merged THEN NoToken ELSE given + 2
    BY DEF Consent
  <1> DEFINE new == IF merged THEN NoToken ELSE given + 2
  <1>2. given + 1 \in 0..MaxTokens /\ given + 2 \in 0..MaxTokens /\ given + 2 # NoToken /\ 0 \in 0..MaxTokens
    BY <1>0, TokensAssumption DEF TokensTypeOK, NoToken
  <1>3. new \in 0..MaxTokens /\ valid' \in 0..MaxTokens /\ (merged => Live)
    BY <1>0, <1>1, <1>2 DEF TokensTypeOK, NoToken
  <1>4. answer' = [answer EXCEPT !["api"] = [access |-> given + 1, refresh |-> new]]
    BY <1>1
  <1>5. merged = TRUE \/ merged = FALSE
    BY <1>1
  <1>6. (merged = TRUE => new = NoToken /\ valid' = valid) /\ (merged = FALSE => new = given + 2 /\ valid' = new)
    BY <1>1
  <1> HIDE DEF new
  <1>7. /\ answer' \in [Nodes \union {"api"} -> [access : 0..MaxTokens, refresh : 0..MaxTokens]]
        /\ answer'["api"].refresh = new /\ \A n \in Nodes : answer'[n] = answer[n]
    BY <1>0, <1>2, <1>3, <1>4, TokensAssumption DEF TokensTypeOK
  <1>8. TokensTypeOK'
    BY <1>0, <1>2, <1>3, <1>7 DEF TokensTypeOK
  <1>9. RowInv'
    BY <1>0, <1>2, <1>3, <1>5, <1>6, <1>7 DEF RowInv, Live, TokensTypeOK
  <1>10. \A n \in Nodes : Holds(n)' => lock'[proc'[n]] = n
    BY <1>0 DEF TokensInv, Holds
  <1>11. Undisturbed' => Undisturbed /\ ~Refreshing
    <2>1. Undisturbed' => ~overlapped'
      BY DEF Undisturbed
    <2>2. Undisturbed' /\ ~overlapped => Undisturbed
      BY <1>0 DEF Undisturbed
    <2>3. QED
      BY <1>0, <2>1, <2>2
  <1>12. ASSUME Undisturbed, ~Refreshing PROVE TurnsInv'
    <2>1. ~Refreshing' /\ (Live' <=> Live)
      BY <1>0, <1>12 DEF Refreshing, Live
    <2>2. \A n \in Nodes : RefreshInv(n)'
      BY <2>1 DEF RefreshInv, Refreshing
    <2>3. Live => InStep
      BY <1>0, <1>12 DEF TokensInv, TurnsInv, Settled
    <2>4. ASSUME Live PROVE valid' = NoToken \/ valid' = KeptRefresh("api")'
      <3>1. CASE merged = TRUE
        BY <1>0, <1>6, <1>7, <2>3, <2>4, <3>1 DEF KeptRefresh, InStep
      <3>2. CASE merged = FALSE
        BY <1>2, <1>6, <1>7, <3>2 DEF KeptRefresh
      <3>3. QED
        BY <1>5, <3>1, <3>2
    <2>5. ~Live => valid' = answer'["api"].refresh
      BY <1>3, <1>5, <1>6, <1>7
    <2>6. QED
      BY <1>0, <2>1, <2>2, <2>4, <2>5 DEF TurnsInv, Settled
  <1>13. QED
    BY <1>8, <1>9, <1>10, <1>11, <1>12 DEF TokensInv

(* The callback's steps: what they do to the row, and that no refresh is   *)
(* under way.                                                              *)
LEMMA CallbackMoves ==
  ASSUME TokensInv, consent # "idle", UNCHANGED <<proc, valid, given, pc, lock, overlapped>>,
         sent' \in [Nodes -> 0..MaxTokens],
         answer' \in [Nodes \union {"api"} -> [access : 0..MaxTokens, refresh : 0..MaxTokens]],
         copy' \in [Nodes \union {"api"} -> Metadata], lost' \in BOOLEAN, lost => lost',
         consent' \in {"idle", "write"},
         row' \in [state : {"none", "live", "deleted"}, refresh : 0..MaxTokens, md : Metadata],
         Live' => row'.refresh # NoToken,
         Undisturbed /\ Live' /\ ~lost' => IF consent' = "idle" THEN InStep' ELSE valid' \in {NoToken, KeptRefresh("api")'}
  PROVE  TokensInv'
  <1>1. TokensTypeOK'
    BY DEF TokensInv, TokensTypeOK
  <1>2. RowInv' /\ \A n \in Nodes : Holds(n)' => lock'[proc'[n]] = n
    BY DEF TokensInv, RowInv, Holds
  <1>3. Undisturbed' => Undisturbed /\ ~lost'
    BY DEF Undisturbed
  <1>4. ASSUME Undisturbed, ~lost' PROVE TurnsInv'
    <2>1. ~Refreshing'
      BY <1>4 DEF TokensInv, TurnsInv, Refreshing
    <2>2. \A n \in Nodes : RefreshInv(n)'
      BY <2>1 DEF RefreshInv, Refreshing
    <2>3. QED
      BY <1>4, <2>1, <2>2 DEF TurnsInv, Settled
  <1>5. QED
    BY <1>1, <1>2, <1>3, <1>4 DEF TokensInv

LEMMA CallbackKeeps ==
  ASSUME TokensInv, CallbackStores \/ CallbackReads \/ CallbackFails \/ CallbackWrites
  PROVE  TokensInv'
  <1>0. TokensTypeOK /\ RowInv
    BY DEF TokensInv
  <1> DEFINE Rows == [state : {"none", "live", "deleted"}, refresh : 0..MaxTokens, md : Metadata]
  <1>1. CASE CallbackStores
    <2>1. /\ consent = "first" /\ consent' = "idle" /\ Forget("api")
          /\ UNCHANGED <<proc, valid, given, pc, lock, overlapped, lost>>
          /\ row' = [state |-> "live", refresh |-> answer["api"].refresh,
                     md |-> [access |-> answer["api"].access, fresh |-> TRUE, flag |-> FALSE]]
      BY <1>1 DEF CallbackStores
    <2>2. answer["api"] \in [access : 0..MaxTokens, refresh : 0..MaxTokens] /\ answer["api"].refresh # NoToken
      BY <1>0, <2>1 DEF TokensTypeOK, RowInv
    <2>3. row' \in Rows /\ row'.refresh = answer["api"].refresh /\ ~row'.md.flag
      BY <2>1, <2>2 DEF Metadata
    <2>4. Undisturbed => InStep'
      BY <2>1, <2>3 DEF TokensInv, TurnsInv, InStep
    <2>5. QED
      BY <1>0, <2>1, <2>2, <2>3, <2>4, Forgotten, CallbackMoves DEF TokensTypeOK
  <1>2. CASE CallbackReads
    <2>1. /\ consent = "renewed" /\ consent' = (IF Live THEN "write" ELSE "idle")
          /\ copy' = IF Live THEN [copy EXCEPT !["api"] = row.md] ELSE copy
          /\ UNCHANGED <<proc, row, valid, given, pc, sent, answer, lock, overlapped, lost>>
      BY <1>2 DEF CallbackReads
    <2>2. copy' \in [Nodes \union {"api"} -> Metadata] /\ (Live' <=> Live)
      BY <1>0, <2>1 DEF TokensTypeOK, Live
    <2>3. Undisturbed /\ Live => valid' \in {NoToken, KeptRefresh("api")'}
      BY <2>1 DEF TokensInv, TurnsInv, KeptRefresh
    <2>4. QED
      BY <1>0, <2>1, <2>2, <2>3, CallbackMoves DEF TokensTypeOK, RowInv
  <1>3. CASE CallbackFails
    <2>1. /\ consent # "idle" /\ consent' = "idle" /\ Forget("api") /\ lost' = TRUE
          /\ UNCHANGED <<proc, row, valid, given, pc, lock, overlapped>>
      BY <1>3 DEF CallbackFails
    <2>2. Live' <=> Live
      BY <2>1 DEF Live
    <2>3. QED
      BY <1>0, <2>1, <2>2, Forgotten, CallbackMoves DEF TokensTypeOK, RowInv
  <1>4. CASE CallbackWrites
    <2>1. /\ consent = "write" /\ consent' = "idle" /\ Forget("api")
          /\ row' = (IF Live THEN Updated("api") ELSE row)
          /\ UNCHANGED <<proc, valid, given, pc, lock, overlapped, lost>>
      BY <1>4 DEF CallbackWrites
    <2>2. ~Live => ~Live'
      BY <2>1 DEF Live
    <2>3. row' \in Rows /\ (Live => row'.refresh = KeptRefresh("api") /\ ~row'.md.flag /\ row'.refresh # NoToken)
      BY <1>0, <2>1, RowStored DEF TokensTypeOK, RowInv
    <2>4. Undisturbed /\ Live => InStep'
      BY <2>1, <2>3 DEF TokensInv, TurnsInv, InStep
    <2>5. QED
      BY <1>0, <2>1, <2>2, <2>3, <2>4, Forgotten, CallbackMoves DEF TokensTypeOK
  <1>5. QED
    BY <1>1, <1>2, <1>3, <1>4

(* What happens to the row and at Google in the meantime.                  *)
LEMMA OutsideKeeps ==
  ASSUME TokensInv, Expire \/ Revoke \/ Delete
  PROVE  TokensInv'
  <1>0. TokensTypeOK /\ RowInv
    BY DEF TokensInv
  <1>1. /\ UNCHANGED <<proc, given, pc, sent, answer, copy, lock, consent, overlapped, lost>>
        /\ valid' = valid \/ valid' = NoToken
    BY DEF Expire, Revoke, Delete
  <1>2. /\ row' \in [state : {"none", "live", "deleted"}, refresh : 0..MaxTokens, md : Metadata]
        /\ row'.refresh = row.refresh /\ row'.md.flag = row.md.flag /\ (row'.md.fresh => row.md.fresh)
        /\ row'.state = row.state \/ (row.state = "live" /\ row'.state = "deleted")
    <2>1. CASE Expire
      <3>1. row' = [row EXCEPT !.md = [row.md EXCEPT !.fresh = FALSE]]
        BY <2>1 DEF Expire
      <3>2. row.md \in Metadata /\ [row.md EXCEPT !.fresh = FALSE] \in Metadata
            /\ [row.md EXCEPT !.fresh = FALSE].flag = row.md.flag
            /\ ~[row.md EXCEPT !.fresh = FALSE].fresh
        BY <1>0 DEF TokensTypeOK, Metadata
      <3>3. QED
        BY <1>0, <3>1, <3>2 DEF TokensTypeOK
    <2>2. CASE Revoke
      BY <1>0, <2>2 DEF Revoke, TokensTypeOK
    <2>3. CASE Delete
      BY <1>0, <2>3 DEF Delete, Live, TokensTypeOK
    <2>4. QED
      BY <2>1, <2>2, <2>3
  <1>3. valid' \in 0..MaxTokens
    BY <1>0, <1>1, TokensAssumption DEF TokensTypeOK, NoToken
  <1>4. TokensTypeOK'
    BY <1>0, <1>1, <1>2, <1>3 DEF TokensTypeOK
  <1>5. RowInv' /\ (Live' => Live)
    BY <1>0, <1>1, <1>2 DEF RowInv, Live
  <1>6. \A n \in Nodes : Holds(n)' => lock'[proc'[n]] = n
    BY <1>1 DEF TokensInv, Holds
  <1>7. (Undisturbed' <=> Undisturbed) /\ (Refreshing' <=> Refreshing)
    BY <1>1 DEF Undisturbed, Refreshing
  <1>8. Live' /\ InStep => InStep'
    BY <1>0, <1>1, <1>2, <1>5 DEF InStep, RowInv
  <1>9. \A w \in Nodes \union {"api"} : KeptRefresh(w)' = KeptRefresh(w)
    BY <1>1, <1>2 DEF KeptRefresh
  <1>10. ASSUME TurnsInv PROVE TurnsInv'
    <2>1. \A n \in Nodes : RefreshInv(n)'
      BY <1>1, <1>2, <1>5, <1>8, <1>9, <1>10 DEF TurnsInv, RefreshInv
    <2>2. QED
      BY <1>1, <1>5, <1>7, <1>8, <1>9, <1>10, <2>1 DEF TurnsInv, Settled
  <1>11. QED
    BY <1>4, <1>5, <1>6, <1>7, <1>10 DEF TokensInv

LEMMA TokensInvKept == TokensInv /\ [TokensNext]_tokenVars => TokensInv'
  <1> SUFFICES ASSUME TokensInv, [TokensNext]_tokenVars PROVE TokensInv'
    OBVIOUS
  <1>1. ASSUME NEW n \in Nodes,
               \/ Need(n) \/ TakeLock(n) \/ Reread(n) \/ CallGoogle(n) \/ GoogleRefreshes(n)
               \/ CallFails(n) \/ ReadRow(n) \/ WriteRow(n)
        PROVE  TokensInv'
    BY <1>1, NeedKeeps, TakeLockKeeps, RereadKeeps, CallGoogleKeeps, GoogleRefreshesKeeps,
       CallFailsKeeps, ReadRowKeeps, WriteRowKeeps
  <1>2. CASE Consent \/ CallbackStores \/ CallbackReads \/ CallbackFails \/ CallbackWrites
    BY <1>2, ConsentKeeps, CallbackKeeps
  <1>3. CASE Expire \/ Revoke \/ Delete
    BY <1>3, OutsideKeeps
  <1>4. CASE UNCHANGED tokenVars
    <2>1. UNCHANGED <<proc, row, valid, given, pc, sent, answer, copy, lock, consent, overlapped, lost>>
      BY <1>4 DEF tokenVars
    <2>2. TokensTypeOK' /\ RowInv' /\ \A n \in Nodes : Holds(n)' => lock'[proc'[n]] = n
      BY <2>1 DEF TokensInv, TokensTypeOK, RowInv, Live, Holds
    <2>3. (Undisturbed' <=> Undisturbed) /\ (TurnsInv => TurnsInv')
      BY <2>1 DEF Undisturbed, TurnsInv, RefreshInv, Refreshing, Live, InStep, KeptRefresh, Settled
    <2>4. QED
      BY <2>2, <2>3 DEF TokensInv
  <1>5. QED
    BY <1>1, <1>2, <1>3, <1>4 DEF TokensNext

LEMMA TokensKept == TokensSpec => []TokensInv
  BY TokensInvStarts, TokensInvKept, PTL DEF TokensSpec

(* Nodes of one process, whatever they interleave with the deletion, the   *)
(* expiry and the revocation of the grant: at rest the row has the refresh *)
(* token Google accepts, and is flagged only when Google would refuse it.  *)
THEOREM TokenRowIsHonest == TokensSpec => []TokenRowHonest
  <1>1. TokensInv => TokenRowHonest
    BY DEF TokensInv, TurnsInv, TokenRowHonest, InStep
  <1>2. QED
    BY <1>1, TokensKept, PTL

(* A node that waited for the lock does not ask Google for what the node   *)
(* before it has stored.                                                   *)
THEOREM NeededRefreshes == TokensSpec => RefreshesAreNeeded
  <1> DEFINE Needed == \A n \in Nodes : (CallGoogle(n) /\ Undisturbed) => ~row.md.fresh
  <1>1. TokensInv => Needed
    BY DEF TokensInv, TurnsInv, RefreshInv, CallGoogle
  <1>2. QED
    BY <1>1, TokensKept, PTL DEF RefreshesAreNeeded

-----------------------------------------------------------------------------
(* The limiter and the nonces (RequestGuards): BucketInv and NonceInv.     *)

(* A set of naturals has a least element, which CHOOSE finds.              *)
Least(S) == CHOOSE i \in S : \A j \in S : i <= j

LEMMA LeastOf ==
  ASSUME NEW live \in SUBSET Nat, live # {}
  PROVE  Least(live) \in live /\ \A j \in live : Least(live) <= j
  <1> DEFINE below == {0..i : i \in live}
  <1>1. below \subseteq FiniteSubsetsOf(Nat) /\ below # {}
    <2>1. ASSUME NEW i \in live PROVE 0..i \in FiniteSubsetsOf(Nat)
      <3>1. i \in Int /\ 0 \in Int /\ 0..i \in SUBSET Nat
        OBVIOUS
      <3>2. IsFiniteSet(0..i)
        BY <3>1, FS_Interval
      <3>3. QED
        BY <3>1, <3>2 DEF FiniteSubsetsOf
    <2>2. QED
      BY <2>1
  <1>2. \E x \in below : \A y \in below : <<y, x>> \notin StrictSubsetOrdering(Nat)
    <2> HIDE DEF below
    <2> QED
      BY <1>1, FS_StrictSubsetOrderingWellFounded, WFMin
  <1>3. PICK i \in live : \A y \in below : <<y, 0..i>> \notin StrictSubsetOrdering(Nat)
    BY <1>2
  <1>4. ASSUME NEW j \in live PROVE i <= j
    <2>1. 0..j \in SUBSET Nat /\ 0..i \in SUBSET Nat
      OBVIOUS
    <2>2. ~(0..j \subseteq 0..i /\ 0..j # 0..i)
      BY <1>3, <2>1 DEF StrictSubsetOrdering
    <2>3. ASSUME j < i PROVE FALSE
      BY <2>2, <2>3
    <2> QED
      BY <2>3
  <1>5. QED
    BY <1>4 DEF Least

(* What popping from the left leaves: the end of the deque, from its first *)
(* live entry on.                                                          *)
LEMMA CutFront ==
  ASSUME NEW T, NEW q \in Seq(T), NEW live \in SUBSET (1..Len(q)),
         NEW k, live = {} => k = <<>>, live # {} => k = SubSeq(q, Least(live), Len(q))
  PROVE  \E d \in 0..Len(q) :
           /\ k \in Seq(T) /\ Len(k) = Len(q) - d
           /\ \A i \in 1..Len(k) : k[i] = q[d + i]
           /\ \A i \in 1..d : i \notin live
  <1>1. CASE live = {}
    <2>1. k = <<>> /\ Len(q) \in 0..Len(q)
      BY <1>1
    <2>2. <<>> \in Seq(T) /\ Len(<<>>) = 0 /\ Len(q) - Len(q) = 0
      OBVIOUS
    <2>3. QED
      BY <1>1, <2>1, <2>2
  <1>2. CASE live # {}
    <2>1. live \in SUBSET Nat
      OBVIOUS
    <2>2. Least(live) \in live /\ \A j \in live : Least(live) <= j
      BY ONLY <1>2, <2>1, LeastOf
    <2>3. PICK m : m \in live /\ (\A j \in live : m <= j) /\ k = SubSeq(q, m, Len(q))
      BY <1>2, <2>2
    <2>4. m \in 1..Len(q) /\ m - 1 \in 0..Len(q)
      BY <2>3
    <2>5. k \in Seq(T) /\ Len(k) = Len(q) - (m - 1) /\ \A i \in 1..Len(k) : k[i] = q[(m - 1) + i]
      <3>1. PICK n \in Nat : n = Len(q)
        OBVIOUS
      <3>2. m \in Int /\ n \in Int /\ m <= n /\ \A i \in m..n : q[i] \in T
        BY <2>4, <3>1
      <3>3. /\ SubSeq(q, m, n) \in Seq(T)
            /\ Len(SubSeq(q, m, n)) = IF m <= n THEN n - m + 1 ELSE 0
            /\ \A i \in 1..(n - m + 1) : SubSeq(q, m, n)[i] = q[m + i - 1]
        BY ONLY <3>2, SubSeqProperties
      <3>4. k = SubSeq(q, m, n)
        BY <2>3, <3>1
      <3>5. k \in Seq(T) /\ Len(k) = n - m + 1 /\ \A i \in 1..(n - m + 1) : k[i] = q[m + i - 1]
        BY ONLY <3>2, <3>3, <3>4
      <3>6. \A i \in 1..(n - m + 1) : m + i - 1 = (m - 1) + i
        BY <3>2
      <3>7. QED
        BY ONLY <3>1, <3>2, <3>5, <3>6
    <2>6. \A i \in 1..(m - 1) : i \notin live
      BY <2>3, <2>4
    <2>7. QED
      BY <2>4, <2>5, <2>6
  <1>3. QED
    BY <1>1, <1>2

(* What acquire() keeps of the bucket.                                     *)
Fresh == FromFirst(bucket, InWindow)

LEMMA KeptBucket ==
  ASSUME NEW q \in Seq(Int), q = bucket, NEW k, k = Fresh
  PROVE  \E d \in 0..Len(q) :
           /\ k \in Seq(Int) /\ Len(k) = Len(q) - d
           /\ \A i \in 1..Len(k) : k[i] = q[d + i]
           /\ \A i \in 1..d : ~InWindow(q[i])
  <1> DEFINE good == {i \in 1..Len(q) : InWindow(q[i])}
  <1>1. k = IF good = {} THEN <<>> ELSE SubSeq(q, Least(good), Len(q))
    BY DEF Fresh, FromFirst, Least
  <1>2. good \in SUBSET (1..Len(q)) /\ \A i \in 1..Len(q) : i \notin good => ~InWindow(q[i])
    OBVIOUS
  <1> HIDE DEF good
  <1>3. PICK live \in SUBSET (1..Len(q)) :
          /\ live = {} => k = <<>>
          /\ live # {} => k = SubSeq(q, Least(live), Len(q))
          /\ \A i \in 1..Len(q) : i \notin live => ~InWindow(q[i])
    BY ONLY <1>1, <1>2
  <1>4. \E d \in 0..Len(q) :
          /\ k \in Seq(Int) /\ Len(k) = Len(q) - d
          /\ \A i \in 1..Len(k) : k[i] = q[d + i]
          /\ \A i \in 1..d : i \notin live
    BY ONLY <1>3, q \in Seq(Int), CutFront
  <1>5. PICK d \in 0..Len(q) :
          /\ k \in Seq(Int) /\ Len(k) = Len(q) - d
          /\ \A i \in 1..Len(k) : k[i] = q[d + i]
          /\ \A i \in 1..d : i \notin live
    BY ONLY <1>4
  <1>6. \A i \in 1..d : i \in 1..Len(q)
    BY ONLY <1>5, q \in Seq(Int)
  <1>7. \A i \in 1..d : ~InWindow(q[i])
    BY ONLY <1>3, <1>5, <1>6
  <1>8. QED
    BY ONLY <1>5, <1>7

LEMMA BucketInvStarts == GuardInit => BucketInv
  BY DEF GuardInit, BucketInv

LEMMA TickKeepsBucket ==
  ASSUME BucketInv, Tick
  PROVE  BucketInv'
  <1> USE GuardAssumption
  <1>1. now' = now + 1 /\ bucket' = bucket /\ granted' = granted /\ now' \in Nat
    BY DEF BucketInv, Tick
  <1>2. \A t \in Int : ~InWindow(t) => ~InWindow(t)'
    BY <1>1 DEF BucketInv, InWindow
  <1>3. \A i \in 1..Len(granted) : granted[i] \in Int
    BY DEF BucketInv
  <1>4. \A i \in 1..(Len(granted) - Len(bucket)) : ~InWindow(granted[i])'
    BY <1>1, <1>2, <1>3 DEF BucketInv
  <1>5. \A i \in 1..Len(granted) : granted[i] <= now + 1
    BY <1>3 DEF BucketInv
  <1>6. QED
    BY <1>1, <1>4, <1>5 DEF BucketInv, InWindow
(* What acquire() does, of the bucket and the grants as they were.         *)
LEMMA AcquireSteps ==
  ASSUME BucketInv, Acquire
  PROVE  \E k \in Seq(Int), d \in 0..Len(bucket) :
           /\ Len(k) = Len(bucket) - d
           /\ \A i \in 1..Len(k) : k[i] = bucket[d + i]
           /\ \A i \in 1..d : ~(now - bucket[i] <= Window)
           /\ \/ bucket' = k /\ granted' = granted
              \/ Len(k) < PerMinute /\ bucket' = Append(k, now) /\ granted' = Append(granted, now)
  <1>1. PICK q \in Seq(Int), g \in Seq(Int), t \in Nat : bucket = q /\ granted = g /\ now = t
    BY DEF BucketInv
  <1>2. PICK k : k = Fresh
    OBVIOUS
  <1>3. \E d \in 0..Len(q) :
           /\ k \in Seq(Int) /\ Len(k) = Len(q) - d
           /\ \A i \in 1..Len(k) : k[i] = q[d + i]
           /\ \A i \in 1..d : ~InWindow(q[i])
    BY ONLY <1>1, <1>2, KeptBucket
  <1>4. PICK r \in Seq(Int), d \in 0..Len(bucket) :
           /\ r = Fresh /\ Len(r) = Len(q) - d
           /\ \A i \in 1..Len(r) : r[i] = q[d + i]
           /\ \A i \in 1..d : ~InWindow(q[i])
    BY ONLY <1>1, <1>2, <1>3
  <1>5. IF Len(Fresh) >= PerMinute
        THEN bucket' = Fresh /\ UNCHANGED granted
        ELSE bucket' = Append(Fresh, now) /\ granted' = Append(granted, now)
    BY DEF Acquire, Fresh
  <1>6. IF Len(r) >= PerMinute
        THEN bucket' = r /\ UNCHANGED granted
        ELSE bucket' = Append(r, now) /\ granted' = Append(granted, now)
    BY <1>4, <1>5
  <1>8. \/ bucket' = r /\ granted' = granted
        \/ Len(r) < PerMinute /\ bucket' = Append(r, now) /\ granted' = Append(granted, now)
    <2>1. Len(r) \in Nat /\ PerMinute \in Nat
      BY ONLY r \in Seq(Int), GuardAssumption
    <2> QED
      BY ONLY <1>6, <2>1
  <1>9. \A i \in 1..d : ~(now - bucket[i] <= Window)
    BY ONLY <1>1, <1>4 DEF InWindow
  <1>10. Len(r) = Len(bucket) - d /\ \A i \in 1..Len(r) : r[i] = bucket[d + i]
    BY ONLY <1>1, <1>4
  <1>11. QED
    BY ONLY <1>8, <1>9, <1>10

LEMMA NewLast ==
  ASSUME NEW n \in Nat
  PROVE  \A i \in 1..(n + 1) : (i \in 1..n /\ ~(n + 1 <= i)) \/ i = n + 1
  OBVIOUS

LEMMA Appended ==
  ASSUME NEW T, NEW q \in Seq(T), NEW e \in T, NEW n, n = Len(q)
  PROVE  /\ Append(q, e) \in Seq(T) /\ Len(Append(q, e)) = n + 1 /\ Append(q, e)[n + 1] = e
         /\ \A i \in 1..n : Append(q, e)[i] = q[i]
  BY AppendProperties

LEMMA AcquireKeeps ==
  ASSUME BucketInv, WindowQuota, Acquire
  PROVE  BucketInv' /\ WindowQuota'
  <1> USE GuardAssumption
  <1>a. PICK q \in Seq(Int), g \in Seq(Int), t \in Nat : bucket = q /\ granted = g /\ now = t /\ now' = t
    BY DEF BucketInv, Acquire
  <1>b. PICK k \in Seq(Int), d \in 0..Len(bucket) :
          /\ Len(k) = Len(bucket) - d
          /\ \A i \in 1..Len(k) : k[i] = bucket[d + i]
          /\ \A i \in 1..d : ~(now - bucket[i] <= Window)
          /\ \/ bucket' = k /\ granted' = granted
             \/ Len(k) < PerMinute /\ bucket' = Append(k, now) /\ granted' = Append(granted, now)
    BY ONLY BucketInv, Acquire, AcquireSteps
  <1>1. /\ bucket = q /\ granted = g /\ now = t /\ now' = t
        /\ Len(k) = Len(q) - d
        /\ \A i \in 1..Len(k) : k[i] = q[d + i]
        /\ \A i \in 1..d : ~(t - q[i] <= Window)
        /\ \/ bucket' = k /\ granted' = g
           \/ Len(k) < PerMinute /\ bucket' = Append(k, t) /\ granted' = Append(g, t)
    BY ONLY <1>a, <1>b
  <1>2. PICK m \in Nat, n \in Nat, x \in Nat : m = Len(q) /\ n = Len(g) /\ x = Len(k) /\ d \in 0..m /\ x = m - d
    BY ONLY <1>1
  <1>3. /\ m <= n
        /\ \A i \in 1..n : g[i] \in Int /\ g[i] <= t
        /\ \A i, j \in 1..n : i <= j => g[i] <= g[j]
        /\ \A i \in 1..m : q[i] = g[n - m + i]
        /\ \A i \in 1..(n - m) : ~(t - g[i] <= Window)
    BY <1>1, <1>2 DEF BucketInv, InWindow
  <1>4. x <= n /\ \A i \in 1..x : k[i] = g[n - x + i]
    <2>1. ASSUME NEW i \in 1..x PROVE k[i] = g[n - x + i]
      <3>1. k[i] = q[d + i] /\ d + i \in 1..m /\ n - m + (d + i) = n - x + i
        BY ONLY <1>1, <1>2, <2>1
      <3>2. QED
        BY ONLY <1>3, <3>1
    <2> QED
      BY ONLY <1>2, <1>3, <2>1
  <1>5. \A i \in 1..(n - x) : ~(t - g[i] <= Window)
    <2>1. ASSUME NEW i \in 1..(n - x), i > n - m PROVE ~(t - g[i] <= Window)
      <3>1. i - (n - m) \in 1..d /\ i - (n - m) \in 1..m /\ n - m + (i - (n - m)) = i
        BY ONLY SMTT(30), <1>2, <1>3, <2>1
      <3>2. g[i] = q[i - (n - m)]
        BY ONLY <1>3, <3>1
      <3>3. QED
        BY ONLY <1>1, <3>1, <3>2
    <2> QED
      BY ONLY <1>2, <1>3, <2>1
  <1>6. ASSUME bucket' = k, granted' = g PROVE BucketInv' /\ WindowQuota'
    <2>1. BucketInv'
      BY ONLY <1>1, <1>2, <1>3, <1>4, <1>5, <1>6 DEF BucketInv, InWindow
    <2>2. WindowQuota'
      BY <1>1, <1>6, Zenon DEF WindowQuota
    <2> QED
      BY <2>1, <2>2
  <1>7. ASSUME x < PerMinute, bucket' = Append(k, t), granted' = Append(g, t)
        PROVE  BucketInv' /\ WindowQuota'
    <2>1. PICK h \in Seq(Int), b \in Seq(Int) :
             /\ granted' = h /\ Len(h) = n + 1 /\ h[n + 1] = t /\ \A i \in 1..n : h[i] = g[i]
             /\ bucket' = b /\ Len(b) = x + 1 /\ b[x + 1] = t /\ \A i \in 1..x : b[i] = k[i]
      <3>0. n = Len(g) /\ x = Len(k) /\ t \in Int
        BY ONLY <1>2, t \in Nat
      <3>1. /\ Append(g, t) \in Seq(Int) /\ Len(Append(g, t)) = n + 1 /\ Append(g, t)[n + 1] = t
            /\ \A i \in 1..n : Append(g, t)[i] = g[i]
        BY ONLY <3>0, Appended
      <3>2. /\ Append(k, t) \in Seq(Int) /\ Len(Append(k, t)) = x + 1 /\ Append(k, t)[x + 1] = t
            /\ \A i \in 1..x : Append(k, t)[i] = k[i]
        BY ONLY <3>0, Appended
      <3>3. PICK h : h = Append(g, t)
        OBVIOUS
      <3>4. PICK b : b = Append(k, t)
        OBVIOUS
      <3> QED
        BY ONLY <1>7, <3>1, <3>2, <3>3, <3>4
    <2>a. /\ \A i \in 1..(n + 1) : (i \in 1..n /\ ~(n + 1 <= i)) \/ i = n + 1
          /\ \A i \in 1..(x + 1) : (i \in 1..x /\ ~(x + 1 <= i)) \/ i = x + 1
          /\ t \in Int /\ t <= t
      BY ONLY n \in Nat, x \in Nat, t \in Nat, NewLast
    <2>2. /\ \A i \in 1..(n + 1) : h[i] \in Int /\ h[i] <= t
          /\ \A i, j \in 1..(n + 1) : i <= j => h[i] <= h[j]
      BY ONLY <1>3, <2>1, <2>a
    <2>3. \A i \in 1..(x + 1) : b[i] = h[(n + 1) - (x + 1) + i]
      <3>1. ASSUME NEW i \in 1..x PROVE b[i] = h[(n + 1) - (x + 1) + i]
        <4>1. n - x + i \in 1..n /\ (n + 1) - (x + 1) + i = n - x + i
          BY ONLY <1>2, <1>4, <3>1
        <4> QED
          BY ONLY <1>4, <2>1, <3>1, <4>1
      <3>2. (n + 1) - (x + 1) + (x + 1) = n + 1
        BY ONLY <1>2
      <3> QED
        BY ONLY <2>1, <2>a, <3>1, <3>2
    <2>4. \A i \in 1..((n + 1) - (x + 1)) : ~(t - h[i] <= Window)
      <3>1. (n + 1) - (x + 1) = n - x /\ \A i \in 1..(n - x) : i \in 1..n
        BY ONLY <1>2
      <3> QED
        BY ONLY <1>5, <2>1, <3>1
    <2>5. BucketInv'
      <3>1. now' \in Nat /\ bucket' \in Seq(Int) /\ granted' \in Seq(Int)
        BY ONLY <1>1, <2>1
      <3>2. \A i \in 1..Len(granted') : granted'[i] <= now'
        BY ONLY <1>1, <2>1, <2>2
      <3>3. \A i, j \in 1..Len(granted') : i <= j => granted'[i] <= granted'[j]
        BY ONLY <2>1, <2>2
      <3>4. Len(bucket') <= Len(granted')
        BY ONLY <1>2, <1>4, <2>1
      <3>5. \A i \in 1..Len(bucket') : bucket'[i] = granted'[Len(granted') - Len(bucket') + i]
        BY ONLY <2>1, <2>3
      <3>6. \A i \in 1..(Len(granted') - Len(bucket')) : ~(now' - granted'[i] <= Window)
        BY ONLY <1>1, <2>1, <2>4
      <3> QED
        BY ONLY <3>1, <3>2, <3>3, <3>4, <3>5, <3>6 DEF BucketInv, InWindow
    <2>6. ASSUME NEW i \in 1..(n + 1)
          PROVE  Cardinality({j \in i..(n + 1) : h[j] - h[i] <= Window}) <= PerMinute
      <3>1. CASE i > n - x
        <4>1. {j \in i..(n + 1) : h[j] - h[i] <= Window} \in SUBSET ((n - x + 1)..(n + 1))
          BY ONLY SMTT(30), <1>2, <1>4, <2>6, <3>1
        <4>2. n - x + 1 \in Int /\ n + 1 \in Int /\ ~(n - x + 1 > n + 1) /\ n + 1 - (n - x + 1) + 1 = x + 1
          BY ONLY <1>2, <1>4
        <4>3. IsFiniteSet((n - x + 1)..(n + 1)) /\ Cardinality((n - x + 1)..(n + 1)) = x + 1
          BY ONLY <4>2, FS_Interval
        <4>4. /\ Cardinality({j \in i..(n + 1) : h[j] - h[i] <= Window}) <= x + 1
              /\ Cardinality({j \in i..(n + 1) : h[j] - h[i] <= Window}) \in Nat
          BY ONLY <4>1, <4>3, FS_Subset, FS_CardinalityType
        <4> QED
          BY ONLY <4>4, <1>2, <1>7, GuardAssumption
      <3>2. CASE ~(i > n - x)
        <4>1. i \in 1..n /\ i \in 1..(n - x)
          <5>1. n \in Int /\ x \in Int /\ x >= 0 /\ i \in Int /\ 1 <= i /\ i <= n - x
            BY ONLY <2>6, <3>2, n \in Nat, x \in Nat
          <5>2. i <= n
            BY ONLY <5>1
          <5> QED
            BY ONLY <5>1, <5>2
        <4>2. ~(t - g[i] <= Window) /\ h[i] = g[i]
          BY ONLY <1>5, <2>1, <4>1
        <4>3. /\ \A j \in i..n : h[j] - h[i] = g[j] - g[i]
              /\ ~(h[n + 1] - h[i] <= Window)
              /\ \A j \in i..(n + 1) : j \in i..n \/ j = n + 1
              /\ \A j \in i..n : j \in i..(n + 1)
          <5>1. \A j \in i..n : j \in 1..n /\ j \in i..(n + 1)
            BY ONLY <1>2, <4>1
          <5>2. \A j \in i..(n + 1) : j \in i..n \/ j = n + 1
            BY ONLY n \in Nat, i \in 1..(n + 1)
          <5> QED
            BY ONLY <2>1, <4>2, <5>1, <5>2
        <4>5. {j \in i..(n + 1) : h[j] - h[i] <= Window} = {j \in i..n : g[j] - g[i] <= Window}
          BY ONLY <4>3
        <4>4. Cardinality({j \in i..n : g[j] - g[i] <= Window}) <= PerMinute
          BY ONLY WindowQuota, <1>1, <1>2, <4>1 DEF WindowQuota
        <4> QED
          BY ONLY <4>4, <4>5
      <3> QED
        BY ONLY <3>1, <3>2
    <2>7. WindowQuota'
      BY ONLY <2>1, <2>6 DEF WindowQuota
    <2> QED
      BY <2>5, <2>7
  <1>8. QED
    BY ONLY <1>1, <1>2, <1>6, <1>7

LEMMA LimiterKept == GuardSpec => []BucketInv /\ []WindowQuota
  <1>1. GuardInit => BucketInv /\ WindowQuota
    BY DEF GuardInit, BucketInv, WindowQuota
  <1>2. ASSUME BucketInv, WindowQuota, [GuardNext]_guardVars PROVE BucketInv' /\ WindowQuota'
    <2>1. CASE Tick
      <3>1. BucketInv'
        BY <1>2, <2>1, TickKeepsBucket
      <3>2. granted' = granted
        BY <2>1 DEF Tick
      <3>3. WindowQuota'
        BY <1>2, <3>2 DEF WindowQuota
      <3> QED
        BY <3>1, <3>3
    <2>2. CASE Acquire
      BY <1>2, <2>2, AcquireKeeps
    <2>3. ASSUME bucket' = bucket, granted' = granted, now' = now PROVE BucketInv' /\ WindowQuota'
      BY <1>2, <2>3 DEF BucketInv, InWindow, WindowQuota
    <2>4. CASE \E s \in States : Issue(s) \/ Verify(s)
      <3>1. bucket' = bucket /\ granted' = granted /\ now' = now
        BY <2>4, Zenon DEF Issue, Verify
      <3> QED
        BY <2>3, <3>1
    <2>5. CASE UNCHANGED guardVars
      BY <2>3, <2>5 DEF guardVars
    <2> QED
      BY <1>2, <2>1, <2>2, <2>4, <2>5 DEF GuardNext
  <1>3. QED
    BY <1>1, <1>2, PTL DEF GuardSpec

-----------------------------------------------------------------------------
(* The same of any cache q, uses u, issue times a and clock t.             *)
LatestIn(u, s) == u[s][Len(u[s])]
AfterIn(u, s) == {r \in States \ {s} : \E i \in 1..Len(u[r]) : u[s][1] <= u[r][i]}
BetweenIn(u, s) ==
  {r \in States \ {s} : \E i \in 1..Len(u[r]) : u[s][1] <= u[r][i] /\ u[r][i] <= u[s][2]}
UsesOf(u, a, t) ==
  \A s \in States :
    /\ Len(u[s]) <= 2
    /\ \A i \in 1..Len(u[s]) : u[s][1] <= u[s][i] /\ u[s][i] <= t
    /\ Len(u[s]) > 0 => a[s] # -1
OrderOf(q, u) ==
  /\ \A i \in 1..Len(q) : Len(u[q[i]]) > 0
  /\ \A i, j \in 1..Len(q) : i < j => q[i] # q[j] /\ LatestIn(u, q[i]) <= LatestIn(u, q[j])
MissingOf(q, u, a, t) ==
  \A s \in States :
    Len(u[s]) > 0 /\ a[s] >= t - TTL /\ (\A i \in 1..Len(q) : q[i] # s)
      => Cardinality(AfterIn(u, s)) >= CacheSize
TwiceOf(u) == \A s \in States : Len(u[s]) > 1 => Cardinality(BetweenIn(u, s)) >= CacheSize

LEMMA NonceInvIs ==
  NonceInv <=> /\ NonceTypes /\ UsesOf(used, iat, now)
               /\ Len(seen) <= CacheSize /\ OrderOf(seen, used)
               /\ MissingOf(seen, used, iat, now) /\ TwiceOf(used)
  BY Zenon DEF NonceInv, UsesInOrder, SeenInOrder, GaveWay, UsesOf, OrderOf, MissingOf, TwiceOf,
     Latest, LatestIn, After, AfterIn, Between, BetweenIn, Unexpired

LEMMA NonceInvIsNext ==
  NonceInv' <=> /\ NonceTypes' /\ UsesOf(used', iat', now')
                /\ Len(seen') <= CacheSize /\ OrderOf(seen', used')
                /\ MissingOf(seen', used', iat', now') /\ TwiceOf(used')
  BY Zenon DEF NonceInv, UsesInOrder, SeenInOrder, GaveWay, UsesOf, OrderOf, MissingOf, TwiceOf,
     Latest, LatestIn, After, AfterIn, Between, BetweenIn, Unexpired

(* What popping from the left does to them.                                *)
LEMMA PopKeepsOrder ==
  ASSUME NEW u, NEW q \in Seq(States), NEW k \in Seq(States), NEW d \in 0..Len(q),
         Len(k) = Len(q) - d, \A i \in 1..Len(k) : k[i] = q[d + i],
         OrderOf(q, u)
  PROVE  OrderOf(k, u)
  <1>1. \A i \in 1..Len(k) : d + i \in 1..Len(q)
    OBVIOUS
  <1>2. \A i, j \in 1..Len(k) : i < j => d + i < d + j
    OBVIOUS
  <1>3. \A i \in 1..Len(k) : Len(u[k[i]]) > 0
    BY <1>1 DEF OrderOf
  <1>4. ASSUME NEW i \in 1..Len(k), NEW j \in 1..Len(k), i < j
        PROVE  k[i] # k[j] /\ LatestIn(u, k[i]) <= LatestIn(u, k[j])
    <2>1. PICK m \in 1..Len(q), n \in 1..Len(q) : m = d + i /\ n = d + j /\ m < n
      BY <1>1, <1>2, <1>4
    <2>2. q[m] # q[n] /\ LatestIn(u, q[m]) <= LatestIn(u, q[n])
      BY <2>1 DEF OrderOf
    <2> QED
      BY <2>1, <2>2
  <1>5. QED
    BY <1>3, <1>4 DEF OrderOf

LEMMA PopKeepsMissing ==
  ASSUME NEW u, NEW a, NEW t,
         NEW q \in Seq(States), NEW k \in Seq(States), NEW d \in 0..Len(q),
         Len(k) = Len(q) - d, \A i \in 1..Len(k) : k[i] = q[d + i],
         \A i \in 1..d : ~(a[q[i]] >= t - TTL),
         MissingOf(q, u, a, t)
  PROVE  MissingOf(k, u, a, t)
  <1>1. ASSUME NEW s \in States, a[s] >= t - TTL, \A i \in 1..Len(k) : k[i] # s, NEW i \in 1..Len(q)
        PROVE  q[i] # s
    <2>1. CASE i \in 1..d
      BY <1>1, <2>1
    <2>2. CASE i \notin 1..d
      <3>1. i - d \in 1..Len(k) /\ d + (i - d) = i
        BY <2>2
      <3> QED
        BY <1>1, <3>1
    <2> QED
      BY <2>1, <2>2
  <1>2. QED
    BY <1>1 DEF MissingOf

(* A state accepted now, of those not in the cache.                        *)
LEMMA UseGrows ==
  ASSUME NEW u \in [States -> Seq(Int)], NEW t \in Nat, NEW a, NEW s \in States, Len(u[s]) < 2,
         UsesOf(u, a, t), a[s] # -1,
         NEW v \in [States -> Seq(Int)], v[s] = Append(u[s], t), \A r \in States \ {s} : v[r] = u[r]
  PROVE  /\ Len(v[s]) > 0 /\ LatestIn(v, s) = t
         /\ Len(v[s]) = Len(u[s]) + 1
         /\ \A i \in 1..Len(u[s]) : v[s][i] = u[s][i]
         /\ v[s][Len(u[s]) + 1] = t
         /\ UsesOf(v, a, t)
  <1>0. t \in Int /\ u[s] \in Seq(Int)
    OBVIOUS
  <1>1. PICK w : w = Append(u[s], t)
    OBVIOUS
  <1>2. PICK n \in Nat : n = Len(u[s]) /\ n < 2
    OBVIOUS
  <1>3. /\ w \in Seq(Int) /\ Len(w) = n + 1 /\ w[n + 1] = t
        /\ \A i \in 1..n : w[i] = u[s][i]
    BY ONLY <1>0, <1>1, <1>2, Appended
  <1>5. v[s] = w /\ \A r \in States \ {s} : v[r] = u[r]
    BY <1>1
  <1>6. \A i \in 1..n : u[s][1] <= u[s][i] /\ u[s][i] <= t
    BY <1>2 DEF UsesOf
  <1>7. Len(w) <= 2 /\ (\A i \in 1..Len(w) : w[1] <= w[i] /\ w[i] <= t) /\ Len(w) > 0
    <2>1. n + 1 <= 2 /\ Len(w) > 0
      BY ONLY <1>2, <1>3
    <2>2. \A i \in 1..(n + 1) : (i \in 1..n /\ ~(n + 1 <= i)) \/ i = n + 1
      BY ONLY <1>2, NewLast
    <2>3. n = 0 \/ 1 \in 1..n
      BY ONLY <1>2
    <2>4. t <= t
      OBVIOUS
    <2>5. w[1] <= t
      <3>1. CASE n = 0
        BY ONLY <1>3, <2>4, <3>1
      <3>2. CASE 1 \in 1..n
        BY ONLY <1>3, <1>6, <3>2
      <3> QED
        BY ONLY <2>3, <3>1, <3>2
    <2>6. ASSUME NEW i \in 1..(n + 1) PROVE w[1] <= w[i] /\ w[i] <= t
      <3>1. CASE i \in 1..n
        <4>1. 1 \in 1..n
          BY ONLY <1>2, <3>1
        <4> QED
          BY ONLY <1>3, <1>6, <3>1, <4>1
      <3>2. CASE i = n + 1
        BY ONLY <1>3, <2>4, <2>5, <3>2
      <3> QED
        BY ONLY <2>2, <3>1, <3>2
    <2> QED
      BY ONLY <1>3, <2>1, <2>6
  <1>8. UsesOf(v, a, t)
    <2>1. ASSUME NEW r \in States, r # s
          PROVE  /\ Len(v[r]) <= 2
                 /\ \A i \in 1..Len(v[r]) : v[r][1] <= v[r][i] /\ v[r][i] <= t
                 /\ Len(v[r]) > 0 => a[r] # -1
      BY <1>5, <2>1 DEF UsesOf
    <2>2. /\ Len(v[s]) <= 2
          /\ \A i \in 1..Len(v[s]) : v[s][1] <= v[s][i] /\ v[s][i] <= t
          /\ Len(v[s]) > 0 => a[s] # -1
      BY <1>5, <1>7
    <2> QED
      BY ONLY <2>1, <2>2 DEF UsesOf
  <1>9. LatestIn(v, s) = t
    BY <1>3, <1>5 DEF LatestIn
  <1>10. QED
    BY <1>2, <1>3, <1>5, <1>7, <1>8, <1>9

LEMMA UsesAreFinite ==
  ASSUME NEW u, NEW s
  PROVE  /\ IsFiniteSet(AfterIn(u, s)) /\ Cardinality(AfterIn(u, s)) \in Nat
         /\ IsFiniteSet(BetweenIn(u, s)) /\ Cardinality(BetweenIn(u, s)) \in Nat
  <1>1. AfterIn(u, s) \in SUBSET States /\ BetweenIn(u, s) \in SUBSET States
    BY DEF AfterIn, BetweenIn
  <1>2. QED
    BY <1>1, FS_Subset, FS_CardinalityType, GuardAssumption

(* The cache with the state at its end is in order, without the bound.     *)
LEMMA PushKeepsOrder ==
  ASSUME NEW u \in [States -> Seq(Int)], NEW t \in Nat, NEW s \in States,
         NEW v, Len(v[s]) > 0, LatestIn(v, s) = t, \A r \in States \ {s} : v[r] = u[r],
         NEW q \in Seq(States), \A i \in 1..Len(q) : q[i] # s,
         OrderOf(q, u), \A r \in States : \A i \in 1..Len(u[r]) : u[r][i] <= t,
         NEW z, z = Append(q, s)
  PROVE  OrderOf(z, v)
  <1>1. PICK n \in Nat : n = Len(q)
    OBVIOUS
  <1>2. Len(z) = n + 1 /\ z[n + 1] = s /\ \A i \in 1..n : z[i] = q[i] /\ q[i] \in States \ {s}
    BY <1>1, Appended
  <1>3. \A i \in 1..(n + 1) : (i \in 1..n /\ ~(n + 1 <= i)) \/ i = n + 1
    BY ONLY <1>1, NewLast
  <1>4. \A i \in 1..n : LatestIn(u, q[i]) <= t /\ LatestIn(v, q[i]) = LatestIn(u, q[i]) /\ Len(u[q[i]]) > 0
    <2>1. ASSUME NEW i \in 1..n PROVE Len(u[q[i]]) \in 1..Len(u[q[i]]) /\ Len(u[q[i]]) > 0
      <3>1. Len(u[q[i]]) > 0 /\ u[q[i]] \in Seq(Int)
        BY <1>1, <1>2 DEF OrderOf
      <3> QED
        BY ONLY <3>1
    <2> QED
      BY <1>2, <2>1 DEF LatestIn
  <1>5. \A i \in 1..(n + 1) : Len(v[z[i]]) > 0
    BY <1>2, <1>3, <1>4
  <1>6. ASSUME NEW i \in 1..(n + 1), NEW j \in 1..(n + 1), i < j
        PROVE  z[i] # z[j] /\ LatestIn(v, z[i]) <= LatestIn(v, z[j])
    <2>1. i \in 1..n
      BY <1>3, <1>6
    <2>2. CASE j \in 1..n
      BY <1>1, <1>2, <1>4, <1>6, <2>1, <2>2 DEF OrderOf
    <2>3. CASE j = n + 1
      BY <1>2, <1>4, <2>1, <2>3
    <2> QED
      BY <1>3, <2>2, <2>3
  <1>7. QED
    BY <1>2, <1>5, <1>6 DEF OrderOf

(* Nor do the other two parts suffer from a use.                           *)
LEMMA UseKeepsMissing ==
  ASSUME NEW u \in [States -> Seq(Int)], NEW t \in Nat, NEW a, NEW s \in States, Len(u[s]) < 2,
         UsesOf(u, a, t), a[s] # -1, a[s] >= t - TTL,
         NEW v \in [States -> Seq(Int)], v[s] = Append(u[s], t), \A r \in States \ {s} : v[r] = u[r],
         NEW q \in Seq(States), \A i \in 1..Len(q) : q[i] # s,
         MissingOf(q, u, a, t), TwiceOf(u),
         NEW z, z = Append(q, s)
  PROVE  MissingOf(z, v, a, t) /\ TwiceOf(v)
  <1>1. /\ \A r \in States \ {s} : v[r] = u[r]
        /\ Len(v[s]) = Len(u[s]) + 1
        /\ \A i \in 1..Len(u[s]) : v[s][i] = u[s][i]
        /\ v[s][Len(u[s]) + 1] = t
    BY UseGrows
  <1>2. \A r \in States : /\ 1..Len(u[r]) \subseteq 1..Len(v[r])
                          /\ \A i \in 1..Len(u[r]) : v[r][i] = u[r][i]
    <2>1. ASSUME NEW r \in States
          PROVE /\ 1..Len(u[r]) \subseteq 1..Len(v[r])
                /\ \A i \in 1..Len(u[r]) : v[r][i] = u[r][i]
      <3>1. CASE r = s
        <4>1. Len(u[s]) \in Nat
          OBVIOUS
        <4> QED
          BY <1>1, <3>1, <4>1
      <3>2. CASE r # s
        BY <1>1, <3>2
      <3> QED
        BY <3>1, <3>2
    <2> QED
      BY <2>1
  <1>3. ASSUME NEW r \in States, Len(u[r]) > 0
        PROVE  Cardinality(AfterIn(v, r)) >= Cardinality(AfterIn(u, r))
    <2>1. 1 \in 1..Len(u[r])
      <3>1. u[r] \in Seq(Int)
        OBVIOUS
      <3> QED
        BY ONLY <1>3, <3>1
    <2>2. v[r][1] = u[r][1]
      BY <1>2, <2>1
    <2>3. AfterIn(u, r) \in SUBSET AfterIn(v, r)
      BY <1>2, <2>2 DEF AfterIn
    <2>4. Cardinality(AfterIn(u, r)) <= Cardinality(AfterIn(v, r))
      BY ONLY <2>3, UsesAreFinite, FS_Subset
    <2> QED
      BY ONLY <2>4, UsesAreFinite
  <1>4. MissingOf(z, v, a, t)
    <2>1. ASSUME NEW r \in States, Len(v[r]) > 0, a[r] >= t - TTL, \A i \in 1..Len(z) : z[i] # r
          PROVE  Cardinality(AfterIn(v, r)) >= CacheSize
      <3>1. PICK n \in Nat : n = Len(q)
        OBVIOUS
      <3>2. Len(z) = n + 1 /\ z[n + 1] = s /\ \A i \in 1..n : z[i] = q[i]
        BY <3>1, Appended
      <3>3. n + 1 \in 1..(n + 1) /\ \A i \in 1..n : i \in 1..(n + 1)
        BY ONLY n \in Nat
      <3>4. r # s
        BY <2>1, <3>2, <3>3
      <3>5. Len(u[r]) > 0
        BY <1>1, <2>1, <3>4
      <3>6. \A i \in 1..Len(q) : q[i] # r
        BY <2>1, <3>1, <3>2, <3>3
      <3>7. Cardinality(AfterIn(u, r)) >= CacheSize
        BY <2>1, <3>5, <3>6 DEF MissingOf
      <3> QED
        BY ONLY <1>3, <3>5, <3>7, UsesAreFinite, GuardAssumption, r \in States
    <2> QED
      BY <2>1 DEF MissingOf
  <1>5. TwiceOf(v)
    <2>1. ASSUME NEW r \in States, Len(v[r]) > 1
          PROVE  Cardinality(BetweenIn(v, r)) >= CacheSize
      <3>1. CASE r = s
        <4>1. Len(u[s]) = 1 /\ Len(u[s]) > 0
          <5>1. PICK n \in Nat : n = Len(u[s]) /\ n < 2
            OBVIOUS
          <5>2. n + 1 > 1
            BY <1>1, <2>1, <3>1, <5>1
          <5>3. n = 1
            BY ONLY <5>1, <5>2
          <5>4. Len(u[s]) = 1
            BY ONLY <5>1, <5>3
          <5> QED
            BY ONLY <5>4
        <4>2. Cardinality(AfterIn(u, s)) >= CacheSize
          BY <4>1 DEF MissingOf
        <4>3. AfterIn(u, s) \in SUBSET BetweenIn(v, s)
          <5>1. v[s][1] = u[s][1] /\ v[s][2] = t
            BY <1>1, <4>1
          <5>2. \A x \in States \ {s} : v[x] = u[x] /\ \A i \in 1..Len(u[x]) : u[x][i] <= t
            BY <1>1 DEF UsesOf
          <5>3. ASSUME NEW x \in AfterIn(u, s) PROVE x \in BetweenIn(v, s)
            <6>1. PICK i \in 1..Len(u[x]) : u[s][1] <= u[x][i]
              BY DEF AfterIn
            <6>2. x \in States \ {s}
              BY DEF AfterIn
            <6> QED
              BY <5>1, <5>2, <6>1, <6>2 DEF BetweenIn
          <5> QED
            BY <5>3
        <4>4. Cardinality(AfterIn(u, s)) <= Cardinality(BetweenIn(v, s))
          BY ONLY <4>3, UsesAreFinite, FS_Subset
        <4> QED
          BY ONLY <3>1, <4>2, <4>4, UsesAreFinite, GuardAssumption
      <3>2. CASE r # s
        <4>1. v[r] = u[r] /\ Cardinality(BetweenIn(u, r)) >= CacheSize
          BY <1>1, <2>1, <3>2 DEF TwiceOf
        <4>2. BetweenIn(u, r) \in SUBSET BetweenIn(v, r)
          BY <1>2, <4>1 DEF BetweenIn
        <4>3. Cardinality(BetweenIn(u, r)) <= Cardinality(BetweenIn(v, r))
          BY ONLY <4>2, UsesAreFinite, FS_Subset
        <4> QED
          BY ONLY <4>1, <4>3, UsesAreFinite, GuardAssumption
      <3> QED
        BY <3>1, <3>2
    <2> QED
      BY <2>1 DEF TwiceOf
  <1>6. QED
    BY <1>4, <1>5

(* A full cache has CacheSize others behind its oldest.                    *)
LEMMA OthersBehind ==
  ASSUME NEW u \in [States -> Seq(Int)], NEW q \in Seq(States), Len(q) = CacheSize + 1, OrderOf(q, u),
         \A r \in States : \A i \in 1..Len(u[r]) : u[r][1] <= u[r][i]
  PROVE  Cardinality(AfterIn(u, q[1])) >= CacheSize
  <1> USE GuardAssumption
  <1>1. PICK n \in Nat : n = CacheSize /\ n > 0
    OBVIOUS
  <1>2. \A i \in 1..n : i + 1 \in 1..(n + 1) /\ 1 \in 1..(n + 1) /\ 1 < i + 1
    BY ONLY n \in Nat
  <1>3. \A i \in 1..(n + 1) :
          q[i] \in States /\ Len(u[q[i]]) \in 1..Len(u[q[i]])
            /\ u[q[i]][1] <= LatestIn(u, q[i]) /\ LatestIn(u, q[i]) \in Int /\ u[q[i]][1] \in Int
    <2>1. ASSUME NEW i \in 1..(n + 1)
          PROVE q[i] \in States /\ Len(u[q[i]]) \in 1..Len(u[q[i]])
                  /\ u[q[i]][1] <= LatestIn(u, q[i]) /\ LatestIn(u, q[i]) \in Int /\ u[q[i]][1] \in Int
      <3>1. q[i] \in States /\ Len(u[q[i]]) > 0
        BY <1>1 DEF OrderOf
      <3>2. u[q[i]] \in Seq(Int)
        BY <3>1
      <3>3. Len(u[q[i]]) \in 1..Len(u[q[i]]) /\ 1 \in 1..Len(u[q[i]])
        BY ONLY <3>1, <3>2
      <3> QED
        BY <3>1, <3>2, <3>3 DEF LatestIn
    <2> QED
      BY <2>1
  <1>4. \A i \in 1..n : q[i + 1] \in AfterIn(u, q[1])
    <2>1. ASSUME NEW i \in 1..n PROVE q[i + 1] \in AfterIn(u, q[1])
      <3>1. q[1] # q[i + 1] /\ LatestIn(u, q[1]) <= LatestIn(u, q[i + 1])
        BY <1>1, <1>2 DEF OrderOf
      <3>2. u[q[1]][1] <= LatestIn(u, q[i + 1])
        BY ONLY SMTT(30), <1>2, <1>3, <3>1, i \in 1..n
      <3> QED
        BY <1>2, <1>3, <3>1, <3>2 DEF AfterIn, LatestIn
    <2> QED
      BY <2>1
  <1>5. [i \in 1..n |-> q[i + 1]] \in Injection(1..n, AfterIn(u, q[1]))
    <2>1. \A i, j \in 1..n : i < j => q[i + 1] # q[j + 1]
      <3>1. \A i, j \in 1..n : i < j => i + 1 < j + 1
        BY ONLY n \in Nat
      <3> QED
        BY <1>1, <1>2, <3>1 DEF OrderOf
    <2>2. \A i, j \in 1..n : q[i + 1] = q[j + 1] => i = j
      BY ONLY <2>1, n \in Nat
    <2> QED
      BY <1>4, <2>2 DEF Injection, IsInjective
  <1>6. Cardinality(1..n) <= Cardinality(AfterIn(u, q[1]))
    BY ONLY <1>5, UsesAreFinite, FS_Injection
  <1>7. Cardinality(1..n) = n
    BY <1>1, FS_Interval
  <1>8. QED
    BY ONLY <1>1, <1>6, <1>7, UsesAreFinite

(* What is left of the cache once its expired front is gone.               *)
Left == FromFirst(seen, Unexpired)

LEMMA LeftSeen ==
  ASSUME NEW q \in Seq(States), q = seen, NEW k, k = Left
  PROVE  \E d \in 0..Len(q) :
           /\ k \in Seq(States) /\ Len(k) = Len(q) - d
           /\ \A i \in 1..Len(k) : k[i] = q[d + i]
           /\ \A i \in 1..d : ~Unexpired(q[i])
  <1> DEFINE good == {i \in 1..Len(q) : Unexpired(q[i])}
  <1>1. k = IF good = {} THEN <<>> ELSE SubSeq(q, Least(good), Len(q))
    BY DEF Left, FromFirst, Least
  <1>2. good \in SUBSET (1..Len(q)) /\ \A i \in 1..Len(q) : i \notin good => ~Unexpired(q[i])
    OBVIOUS
  <1> HIDE DEF good
  <1>3. PICK live \in SUBSET (1..Len(q)) :
          /\ live = {} => k = <<>>
          /\ live # {} => k = SubSeq(q, Least(live), Len(q))
          /\ \A i \in 1..Len(q) : i \notin live => ~Unexpired(q[i])
    BY ONLY <1>1, <1>2
  <1>4. \E d \in 0..Len(q) :
          /\ k \in Seq(States) /\ Len(k) = Len(q) - d
          /\ \A i \in 1..Len(k) : k[i] = q[d + i]
          /\ \A i \in 1..d : i \notin live
    BY ONLY <1>3, q \in Seq(States), CutFront
  <1>5. PICK d \in 0..Len(q) :
          /\ k \in Seq(States) /\ Len(k) = Len(q) - d
          /\ \A i \in 1..Len(k) : k[i] = q[d + i]
          /\ \A i \in 1..d : i \notin live
    BY ONLY <1>4
  <1>6. \A i \in 1..d : i \in 1..Len(q)
    BY ONLY <1>5, q \in Seq(States)
  <1>7. \A i \in 1..d : ~Unexpired(q[i])
    BY ONLY <1>3, <1>5, <1>6
  <1>8. QED
    BY ONLY <1>5, <1>7

LEMMA VerifySteps ==
  ASSUME NEW s \in States, Verify(s)
  PROVE  /\ now' = now /\ iat' = iat /\ iat[s] # -1 /\ now - iat[s] <= TTL /\ Len(used[s]) < 2
         /\ \/ (\E i \in 1..Len(Left) : Left[i] = s) /\ seen' = Left /\ used' = used
            \/ /\ \A i \in 1..Len(Left) : Left[i] # s
               /\ seen' = IF Len(Append(Left, s)) > CacheSize THEN Tail(Append(Left, s)) ELSE Append(Left, s)
               /\ used' = [used EXCEPT ![s] = Append(@, now)]
  BY DEF Verify, Left, Contains

LEMMA VerifyKeeps ==
  ASSUME NonceInv, NEW s \in States, Verify(s)
  PROVE  NonceInv'
  <1> USE GuardAssumption
  <1>1. PICK q \in Seq(States), u \in [States -> Seq(Int)], t \in Nat, a \in [States -> Int] :
          seen = q /\ used = u /\ now = t /\ iat = a /\ now' = t /\ iat' = a
    BY VerifySteps DEF NonceInv, NonceTypes
  <1>2. /\ UsesOf(u, a, t) /\ Len(q) <= CacheSize /\ OrderOf(q, u)
        /\ MissingOf(q, u, a, t) /\ TwiceOf(u)
    BY ONLY <1>1, NonceInv, NonceInvIs
  <1>3. PICK k : k = Left
    OBVIOUS
  <1>4. \E d \in 0..Len(q) :
           /\ k \in Seq(States) /\ Len(k) = Len(q) - d
           /\ \A i \in 1..Len(k) : k[i] = q[d + i]
           /\ \A i \in 1..d : ~Unexpired(q[i])
    <2>1. q = seen
      BY <1>1
    <2> QED
      BY ONLY <1>3, <2>1, q \in Seq(States), LeftSeen
  <1>5. PICK d \in 0..Len(q) :
           /\ k \in Seq(States) /\ Len(k) = Len(q) - d
           /\ \A i \in 1..Len(k) : k[i] = q[d + i]
           /\ \A i \in 1..d : ~(a[q[i]] >= t - TTL)
    BY ONLY <1>1, <1>4 DEF Unexpired
  <1>6. OrderOf(k, u)
    BY ONLY <1>2, <1>5, PopKeepsOrder
  <1>7. MissingOf(k, u, a, t)
    BY ONLY <1>2, <1>5, PopKeepsMissing
  <1>8. Len(k) <= CacheSize /\ Len(k) \in Nat
    BY ONLY <1>2, <1>5, GuardAssumption
  <1>9. /\ a[s] # -1 /\ a[s] >= t - TTL /\ Len(u[s]) < 2
        /\ \/ seen' = k /\ used' = u
           \/ /\ \A i \in 1..Len(k) : k[i] # s
              /\ seen' = IF Len(Append(k, s)) > CacheSize THEN Tail(Append(k, s)) ELSE Append(k, s)
              /\ used' = [u EXCEPT ![s] = Append(@, t)]
    <2>1. a[s] \in Int
      OBVIOUS
    <2>2. t - a[s] <= TTL => a[s] >= t - TTL
      BY ONLY <2>1, t \in Nat, GuardAssumption
    <2> QED
      BY ONLY <1>1, <1>3, <2>2, Verify(s), s \in States, VerifySteps
  <1>10. CASE seen' = k /\ used' = u
    <2>1. NonceTypes'
      BY <1>1, <1>5, <1>10 DEF NonceTypes
    <2> QED
      BY ONLY <1>1, <1>2, <1>6, <1>7, <1>8, <1>10, <2>1, NonceInvIsNext
  <1>11. ASSUME \A i \in 1..Len(k) : k[i] # s,
                seen' = IF Len(Append(k, s)) > CacheSize THEN Tail(Append(k, s)) ELSE Append(k, s),
                used' = [u EXCEPT ![s] = Append(@, t)]
         PROVE  NonceInv'
    <2>1. PICK v : v = [u EXCEPT ![s] = Append(@, t)]
      OBVIOUS
    <2>a. v \in [States -> Seq(Int)] /\ v[s] = Append(u[s], t) /\ \A r \in States \ {s} : v[r] = u[r]
      <3>1. Append(u[s], t) \in Seq(Int)
        BY ONLY AppendProperties, u \in [States -> Seq(Int)], t \in Nat, s \in States
      <3> QED
        BY ONLY <2>1, <3>1, u \in [States -> Seq(Int)], s \in States
    <2>2. PICK z : z = Append(k, s)
      OBVIOUS
    <2>b. UsesOf(v, a, t) /\ Len(v[s]) > 0 /\ LatestIn(v, s) = t
      <3>1. Len(u[s]) < 2 /\ UsesOf(u, a, t) /\ a[s] # -1
        BY <1>2, <1>9
      <3>2. v \in [States -> Seq(Int)]
        BY <2>a
      <3> QED
        <4>1. /\ Len(v[s]) > 0 /\ LatestIn(v, s) = t
              /\ Len(v[s]) = Len(u[s]) + 1
              /\ \A i \in 1..Len(u[s]) : v[s][i] = u[s][i]
              /\ v[s][Len(u[s]) + 1] = t
              /\ UsesOf(v, a, t)
          BY ONLY ZenonT(30), <2>a, <3>1, <3>2, UseGrows, u \in [States -> Seq(Int)], t \in Nat, s \in States
        <4> QED
          BY ONLY <4>1
    <2>3. /\ v \in [States -> Seq(Int)] /\ UsesOf(v, a, t)
          /\ \A r \in States \ {s} : v[r] = u[r]
          /\ Len(v[s]) > 0 /\ LatestIn(v, s) = t
      BY ONLY <2>a, <2>b
    <2>4. \A r \in States : \A i \in 1..Len(u[r]) : u[r][i] <= t
      BY <1>2 DEF UsesOf
    <2>5. OrderOf(z, v)
      BY ONLY <1>5, <1>6, <1>11, <2>2, <2>3, <2>4, PushKeepsOrder, t \in Nat, s \in States,
              u \in [States -> Seq(Int)]
    <2>6. MissingOf(z, v, a, t) /\ TwiceOf(v)
      <3>1. Len(u[s]) < 2 /\ UsesOf(u, a, t) /\ a[s] # -1 /\ a[s] >= t - TTL
        BY <1>2, <1>9
      <3>2. v \in [States -> Seq(Int)] /\ k \in Seq(States) /\ MissingOf(k, u, a, t) /\ TwiceOf(u)
        BY <1>2, <1>5, <1>7, <2>a
      <3>3. \A i \in 1..Len(k) : k[i] # s
        BY <1>11
      <3> QED
        BY ONLY <2>a, <2>2, <3>1, <3>2, <3>3, UseKeepsMissing, u \in [States -> Seq(Int)], t \in Nat,
                s \in States
    <2>7. z \in Seq(States) /\ Len(z) = Len(k) + 1 /\ z # <<>>
      BY ONLY ZenonT(30), <1>5, <2>2, AppendProperties, s \in States
    <2>9. CASE Len(z) <= CacheSize
      <3>1. seen' = z /\ used' = v
        BY ONLY <1>8, <1>11, <2>1, <2>2, <2>7, <2>9, GuardAssumption
      <3>2. NonceTypes'
        BY <1>1, <2>3, <2>7, <3>1 DEF NonceTypes
      <3> QED
        BY ONLY <1>1, <2>3, <2>5, <2>6, <2>9, <3>1, <3>2, NonceInvIsNext
    <2>10. CASE ~(Len(z) <= CacheSize)
      <3>1. PICK w : w = Tail(z)
        OBVIOUS
      <3>2. w \in Seq(States) /\ Len(w) = Len(z) - 1 /\ \A i \in 1..Len(w) : w[i] = z[1 + i]
        BY ONLY <2>7, <3>1, HeadTailProperties
      <3>3. seen' = w /\ used' = v /\ Len(z) = CacheSize + 1 /\ Len(w) <= CacheSize
        BY ONLY <1>8, <1>11, <2>1, <2>2, <2>7, <2>10, <3>1, <3>2, GuardAssumption
      <3>4. OrderOf(w, v)
        <4>1. 1 \in 0..Len(z)
          BY ONLY <3>3, GuardAssumption
        <4> QED
          BY ONLY <2>5, <2>7, <3>2, <4>1, PopKeepsOrder
      <3>5. Cardinality(AfterIn(v, z[1])) >= CacheSize
        <4>1. \A r \in States : \A i \in 1..Len(v[r]) : v[r][1] <= v[r][i]
          BY <2>3 DEF UsesOf
        <4> QED
          BY ONLY <2>3, <2>5, <2>7, <3>3, <4>1, OthersBehind
      <3>6. MissingOf(w, v, a, t)
        <4>1. ASSUME NEW r \in States, Len(v[r]) > 0, a[r] >= t - TTL, \A i \in 1..Len(w) : w[i] # r
              PROVE  Cardinality(AfterIn(v, r)) >= CacheSize
          <5>1. CASE z[1] = r
            BY <3>5, <5>1
          <5>2. CASE z[1] # r
            <6>1. \A i \in 1..Len(z) : i = 1 \/ (i - 1 \in 1..Len(w) /\ 1 + (i - 1) = i)
              <7>1. Len(z) \in Nat /\ Len(w) = Len(z) - 1
                BY <2>7, <3>2
              <7>2. \A n \in Nat : \A i \in 1..n : i = 1 \/ (i - 1 \in 1..(n - 1) /\ 1 + (i - 1) = i)
                OBVIOUS
              <7> QED
                BY ONLY <7>1, <7>2
            <6>2. ASSUME NEW i \in 1..Len(z) PROVE z[i] # r
              <7>1. CASE i = 1
                BY ONLY <5>2, <7>1
              <7>2. CASE i # 1
                <8>1. i - 1 \in 1..Len(w) /\ 1 + (i - 1) = i
                  BY ONLY <6>1, <7>2, i \in 1..Len(z)
                <8>2. w[i - 1] # r /\ w[i - 1] = z[i]
                  BY ONLY <3>2, <4>1, <8>1
                <8> QED
                  BY ONLY <8>2
              <7> QED
                BY ONLY <7>1, <7>2
            <6> QED
              BY ONLY <2>6, <4>1, <6>2 DEF MissingOf
          <5> QED
            BY <5>1, <5>2
        <4> QED
          BY <4>1 DEF MissingOf
      <3>7. NonceTypes'
        BY <1>1, <2>3, <3>2, <3>3 DEF NonceTypes
      <3> QED
        BY ONLY <1>1, <2>3, <2>6, <3>3, <3>4, <3>6, <3>7, NonceInvIsNext
    <2> QED
      BY <2>9, <2>10
  <1>12. QED
    BY ONLY <1>9, <1>10, <1>11

LEMMA NonceInvStarts == GuardInit => NonceInv
  BY GuardAssumption DEF GuardInit, NonceInv, NonceTypes, UsesInOrder, SeenInOrder, GaveWay

LEMMA TickKeepsNonces ==
  ASSUME NonceInv, Tick
  PROVE  NonceInv'
  <1> USE GuardAssumption
  <1>1. PICK q \in Seq(States), u \in [States -> Seq(Int)], t \in Nat, a \in [States -> Int] :
          seen = q /\ used = u /\ now = t /\ iat = a
    BY DEF NonceInv, NonceTypes
  <1>2. now' = t + 1 /\ seen' = q /\ used' = u /\ iat' = a
    BY <1>1 DEF Tick
  <1>3. /\ UsesOf(u, a, t) /\ Len(q) <= CacheSize /\ OrderOf(q, u)
        /\ MissingOf(q, u, a, t) /\ TwiceOf(u)
    BY ONLY <1>1, NonceInv, NonceInvIs
  <1>4. UsesOf(u, a, t + 1)
    <2>1. ASSUME NEW s \in States, NEW i \in 1..Len(u[s]) PROVE u[s][i] <= t + 1
      <3>1. u[s][i] <= t /\ u[s][i] \in Int
        BY <1>3 DEF UsesOf
      <3> QED
        BY ONLY <3>1, t \in Nat
    <2> QED
      BY <1>3, <2>1 DEF UsesOf
  <1>5. MissingOf(q, u, a, t + 1)
    <2>1. \A s \in States : a[s] >= t + 1 - TTL => a[s] >= t - TTL
      <3>1. ASSUME NEW s \in States PROVE a[s] \in Int
        OBVIOUS
      <3> QED
        BY ONLY <3>1, t \in Nat, GuardAssumption
    <2> QED
      BY <1>3, <2>1 DEF MissingOf
  <1>6. NonceTypes'
    BY <1>1, <1>2 DEF NonceTypes
  <1>7. QED
    BY ONLY <1>2, <1>3, <1>4, <1>5, <1>6, NonceInvIsNext

LEMMA IssueKeeps ==
  ASSUME NonceInv, NEW s \in States, Issue(s)
  PROVE  NonceInv'
  <1>1. PICK q \in Seq(States), u \in [States -> Seq(Int)], t \in Nat, a \in [States -> Int] :
          seen = q /\ used = u /\ now = t /\ iat = a
    BY DEF NonceInv, NonceTypes
  <1>2. PICK b \in [States -> Int] : b = [a EXCEPT ![s] = t]
    <2>1. [a EXCEPT ![s] = t] \in [States -> Int]
      BY t \in Int
    <2> QED
      BY <2>1
  <1>3. a[s] = -1 /\ now' = t /\ seen' = q /\ used' = u /\ iat' = b
    BY <1>1, <1>2 DEF Issue
  <1>4. /\ UsesOf(u, a, t) /\ Len(q) <= CacheSize /\ OrderOf(q, u)
        /\ MissingOf(q, u, a, t) /\ TwiceOf(u)
    BY ONLY <1>1, NonceInv, NonceInvIs
  <1>5. b[s] = t /\ t # -1 /\ \A r \in States : r # s => b[r] = a[r]
    BY <1>2
  <1>6. ~(Len(u[s]) > 0)
    BY <1>3, <1>4 DEF UsesOf
  <1>7. UsesOf(u, b, t)
    BY <1>4, <1>5, <1>6 DEF UsesOf
  <1>8. MissingOf(q, u, b, t)
    BY <1>4, <1>5, <1>6 DEF MissingOf
  <1>9. NonceTypes'
    BY <1>1, <1>3 DEF NonceTypes
  <1>10. QED
    BY ONLY <1>3, <1>4, <1>7, <1>8, <1>9, NonceInvIsNext

LEMMA NoncesKept == GuardSpec => []NonceInv
  <1>1. ASSUME NonceInv, [GuardNext]_guardVars PROVE NonceInv'
    <2>1. ASSUME seen' = seen, used' = used, iat' = iat, now' = now PROVE NonceInv'
      <3>1. NonceTypes'
        BY <1>1, <2>1 DEF NonceInv, NonceTypes
      <3> QED
        BY ONLY <1>1, <2>1, <3>1, NonceInvIs, NonceInvIsNext
    <2>2. CASE Acquire
      <3>1. seen' = seen /\ used' = used /\ iat' = iat /\ now' = now
        BY <2>2, Zenon DEF Acquire
      <3> QED
        BY <2>1, <3>1
    <2>3. CASE UNCHANGED guardVars
      BY <2>1, <2>3 DEF guardVars
    <2>4. CASE Tick
      BY <1>1, <2>4, TickKeepsNonces
    <2>5. CASE \E s \in States : Issue(s) \/ Verify(s)
      BY <1>1, <2>5, IssueKeeps, VerifyKeeps
    <2> QED
      BY <1>1, <2>2, <2>3, <2>4, <2>5 DEF GuardNext
  <1>2. QED
    BY <1>1, NonceInvStarts, PTL DEF GuardSpec

(* Both tables do what they are for (GuardsHold): no stretch of the window *)
(* lets more than the budget through, and a consent is recorded once       *)
(* unless as many others as the cache holds came in between.               *)
THEOREM TablesHold == GuardSpec => []GuardsHold
  <1>1. ASSUME NonceInv PROVE StateOnce
    <2>1. \A s \in States : Len(used[s]) > 1 => Cardinality(Between(s)) >= CacheSize
      BY <1>1 DEF NonceInv, GaveWay
    <2>2. ASSUME CacheSuffices, NEW s \in States PROVE Len(used[s]) <= 1
      <3>1. Len(used[s]) > 1 => Cardinality(Between(s)) < CacheSize
        BY <2>2 DEF CacheSuffices, Between
      <3>2. Between(s) \in SUBSET States
        BY DEF Between
      <3>3. Cardinality(Between(s)) \in Nat
        BY ONLY <3>2, FS_Subset, FS_CardinalityType, GuardAssumption
      <3>4. Len(used[s]) \in Nat
        BY <1>1 DEF NonceInv, NonceTypes
      <3> QED
        BY ONLY <2>1, <3>1, <3>3, <3>4, GuardAssumption, s \in States
    <2> QED
      BY <2>2 DEF StateOnce
  <1>2. QED
    BY <1>1, LimiterKept, NoncesKept, PTL DEF GuardsHold

-----------------------------------------------------------------------------
(* The skills page (SkillLibrary): LibraryInv.                             *)

LEMMA TruthIsRows ==
  ASSUME LibraryTypeOK, NEW q \in Queries
  PROVE  Truth(q) \in SUBSET (Candidates \X {"user", "workspace"})
  <1>1. \A i \in Candidates : skills[i].scope \in {"user", "workspace"}
    BY DEF LibraryTypeOK
  <1>2. ASSUME NEW x, NEW y PROVE Owned(x, y) \in SUBSET (Candidates \X {"user", "workspace"})
    BY <1>1 DEF Owned
  <1>3. QED
    BY <1>2 DEF Truth

LEMMA LibraryInvStarts == LibraryInit => LibraryInv
  <1> SUFFICES ASSUME LibraryInit PROVE LibraryInv
    OBVIOUS
  <1>1. LibraryTypeOK
    BY DEF LibraryInit, LibraryTypeOK, Stages, Ops, Asked, Idle
  <1>2. \A q \in Queries : ListFollows(q)
    BY DEF LibraryInit, ListFollows, Asked, Idle
  <1>3. QED
    BY <1>1, <1>2 DEF LibraryInv

(* A step that changes one list's call and nothing else.                   *)
LEMMA OneListKeeps ==
  ASSUME LibraryInv, NEW q \in Queries,
         UNCHANGED <<skills, call, shownTab>>,
         asking' \in [Queries -> [at : {"idle", "asked", "read"},
                                  rows : SUBSET (Candidates \X {"user", "workspace"})]],
         data' = [p \in Queries |-> data'[p]],
         \A p \in Queries \ {q} : asking'[p] = asking[p] /\ data'[p] = data[p],
         \A p \in Queries \ {q} : (p \in missed' <=> p \in missed) /\ (p \in stale' <=> p \in stale),
         ListFollows(q) => ListFollows(q)'
  PROVE  LibraryInv'
  <1>1. LibraryTypeOK'
    BY DEF LibraryInv, LibraryTypeOK
  <1>2. \A p \in Queries : Truth(p)' = Truth(p)
    BY DEF Truth, Owned
  <1>3. ASSUME NEW p \in Queries \ {q}, ListFollows(p) PROVE ListFollows(p)'
    BY <1>2, <1>3 DEF ListFollows, OnDisplay
  <1>4. AnswerOnItsWay => AnswerOnItsWay'
    BY DEF AnswerOnItsWay
  <1>5. QED
    BY <1>1, <1>3, <1>4 DEF LibraryInv

LEMMA ListStepKeeps ==
  ASSUME LibraryInv, NEW q \in Queries,
         ServeList(q) \/ ListArrives(q) \/ ListFails(q) \/ Refetch(q)
  PROVE  LibraryInv'
  <1> USE DEF Idle, Asked
  <1>0. LibraryTypeOK
    BY DEF LibraryInv
  <1>1. Truth(q) \in SUBSET (Candidates \X {"user", "workspace"})
    BY <1>0, TruthIsRows
  <1>2. ASSUME UNCHANGED skills PROVE Truth(q)' = Truth(q)
    BY <1>2 DEF Truth, Owned
  <1>3. CASE ServeList(q)
    <2>1. /\ UNCHANGED <<skills, call, shownTab, data, missed, stale>>
          /\ asking' = [asking EXCEPT ![q] = [at |-> "read", rows |-> Truth(q)]]
      BY <1>3 DEF ServeList
    <2>2. /\ asking'[q] = [at |-> "read", rows |-> Truth(q)]
          /\ \A p \in Queries \ {q} : asking'[p] = asking[p]
          /\ asking' \in [Queries -> [at : {"idle", "asked", "read"},
                                      rows : SUBSET (Candidates \X {"user", "workspace"})]]
      BY <1>0, <1>1, <2>1 DEF LibraryTypeOK
    <2>3. ListFollows(q)'
      BY <1>2, <2>1, <2>2 DEF ListFollows
    <2> QED
      BY <1>0, <2>1, <2>2, <2>3, OneListKeeps DEF LibraryTypeOK
  <1>4. CASE ListArrives(q)
    <2>1. /\ UNCHANGED <<skills, call, shownTab, missed>> /\ asking[q].at = "read"
          /\ asking' = [asking EXCEPT ![q] = Idle] /\ data' = [data EXCEPT ![q] = asking[q].rows]
          /\ stale' = stale \ {q}
      BY <1>4 DEF ListArrives
    <2>2. /\ asking'[q] = Idle /\ data'[q] = asking[q].rows
          /\ \A p \in Queries \ {q} : asking'[p] = asking[p] /\ data'[p] = data[p]
          /\ asking' \in [Queries -> [at : {"idle", "asked", "read"},
                                      rows : SUBSET (Candidates \X {"user", "workspace"})]]
          /\ data' = [p \in Queries |-> data'[p]]
      BY <1>0, <2>1 DEF LibraryTypeOK
    <2>3. ListFollows(q) => ListFollows(q)'
      BY <1>2, <2>1, <2>2 DEF ListFollows
    <2> QED
      BY <1>0, <2>1, <2>2, <2>3, OneListKeeps DEF LibraryTypeOK
  <1>5. CASE ListFails(q)
    <2>1. /\ UNCHANGED <<skills, call, shownTab, data, stale>>
          /\ asking' = [asking EXCEPT ![q] = Idle] /\ missed' = missed \union {q}
      BY <1>5 DEF ListFails
    <2>2. /\ \A p \in Queries \ {q} : asking'[p] = asking[p]
          /\ asking' \in [Queries -> [at : {"idle", "asked", "read"},
                                      rows : SUBSET (Candidates \X {"user", "workspace"})]]
      BY <1>0, <2>1 DEF LibraryTypeOK
    <2>3. ListFollows(q)'
      BY <2>1 DEF ListFollows
    <2> QED
      BY <1>0, <2>1, <2>2, <2>3, OneListKeeps DEF LibraryTypeOK
  <1>6. CASE Refetch(q)
    <2>1. /\ UNCHANGED <<skills, call, shownTab, data, stale>>
          /\ asking' = [asking EXCEPT ![q] = Asked] /\ missed' = missed \ {q}
      BY <1>6 DEF Refetch
    <2>2. /\ asking'[q].at = "asked" /\ \A p \in Queries \ {q} : asking'[p] = asking[p]
          /\ asking' \in [Queries -> [at : {"idle", "asked", "read"},
                                      rows : SUBSET (Candidates \X {"user", "workspace"})]]
      BY <1>0, <2>1 DEF LibraryTypeOK
    <2>3. ListFollows(q)'
      BY <2>2 DEF ListFollows
    <2> QED
      BY <1>0, <2>1, <2>2, <2>3, OneListKeeps DEF LibraryTypeOK
  <1>7. QED
    BY <1>3, <1>4, <1>5, <1>6

LEMMA DiscloseKeeps ==
  ASSUME LibraryInv, NEW t \in Tabs \union {NoTab}, Disclose(t)
  PROVE  LibraryInv'
  <1> USE DEF Idle, Asked
  <1>0. LibraryTypeOK /\ UNCHANGED <<skills, data, stale, call>> /\ shownTab' = t
    BY DEF LibraryInv, Disclose
  <1>1. \A p \in Queries : Truth(p)' = Truth(p)
    BY <1>0 DEF Truth, Owned
  <1>2. AnswerOnItsWay => AnswerOnItsWay'
    BY <1>0 DEF AnswerOnItsWay
  <1>3. \A p \in Queries \ {t} : p \in OnDisplay' => p \in OnDisplay
    BY <1>0 DEF OnDisplay
  <1>4. CASE t \in Tabs /\ asking[t].at = "idle" /\ (data[t] = NoData \/ t \in stale)
    <2>1. asking' = [asking EXCEPT ![t] = Asked] /\ missed' = missed \ {t} /\ t \in Queries
      BY <1>4 DEF Disclose, Queries, Skills
    <2>2. /\ asking'[t].at = "asked" /\ \A p \in Queries \ {t} : asking'[p] = asking[p]
          /\ asking' \in [Queries -> [at : {"idle", "asked", "read"},
                                      rows : SUBSET (Candidates \X {"user", "workspace"})]]
      BY <1>0, <2>1 DEF LibraryTypeOK
    <2>3. LibraryTypeOK'
      BY <1>0, <2>2 DEF LibraryTypeOK
    <2>4. ListFollows(t)'
      BY <2>2 DEF ListFollows
    <2>5. ASSUME NEW p \in Queries \ {t}, ListFollows(p) PROVE ListFollows(p)'
      BY <1>0, <1>1, <1>3, <2>1, <2>2, <2>5 DEF ListFollows
    <2> QED
      BY <1>2, <2>3, <2>4, <2>5 DEF LibraryInv
  <1>5. CASE ~(t \in Tabs /\ asking[t].at = "idle" /\ (data[t] = NoData \/ t \in stale))
    <2>1. UNCHANGED <<asking, missed>>
      BY <1>5 DEF Disclose
    <2>2. LibraryTypeOK'
      BY <1>0, <2>1 DEF LibraryTypeOK
    <2>3. ASSUME NEW p \in Queries \ {t}, ListFollows(p) PROVE ListFollows(p)'
      BY <1>0, <1>1, <1>3, <2>1, <2>3 DEF ListFollows
    <2>4. ASSUME t \in Queries, ListFollows(t) PROVE ListFollows(t)'
      <3>1. CASE t \in Tabs
        BY <1>0, <1>1, <1>5, <2>1, <2>4, <3>1 DEF ListFollows
      <3>2. CASE t = NoTab
        <4>1. t \in OnDisplay' => t \in OnDisplay
          BY <1>0, <3>2 DEF OnDisplay
        <4> QED
          BY <1>0, <1>1, <2>1, <2>4, <4>1 DEF ListFollows
      <3> QED
        BY <3>1, <3>2
    <2> QED
      BY <1>2, <2>2, <2>3, <2>4 DEF LibraryInv
  <1>6. QED
    BY <1>4, <1>5
(* A step of a call that does not touch a row: nothing of the lists moves. *)
LEMMA CallStepKeeps ==
  ASSUME LibraryInv, UNCHANGED <<skills, asking, data, shownTab, missed, stale>>,
         NEW o \in Ops, NEW i \in Candidates, NEW at \in Stages,
         call' = [call EXCEPT ![o][i] = at], call[o][i] # "done"
  PROVE  LibraryInv'
  <1>0. LibraryTypeOK
    BY DEF LibraryInv
  <1>1. LibraryTypeOK'
    BY <1>0 DEF LibraryTypeOK
  <1>2. \A q \in Queries : ListFollows(q) => ListFollows(q)'
    BY DEF ListFollows, OnDisplay, Truth, Owned
  <1>3. AnswerOnItsWay => AnswerOnItsWay'
    <2>1. \A p \in Ops, j \in Candidates : call[p][j] = "done" => call'[p][j] = "done"
      BY <1>0 DEF LibraryTypeOK
    <2> QED
      BY <2>1 DEF AnswerOnItsWay
  <1>4. QED
    BY <1>1, <1>2, <1>3 DEF LibraryInv

LEMMA CarryKeeps ==
  ASSUME LibraryInv, NEW o \in Ops, NEW i \in Candidates, Carry(o, i)
  PROVE  LibraryInv'
  <1>0. LibraryTypeOK /\ call[o][i] = "checked"
    BY DEF LibraryInv, Carry
  <1>1. /\ call' = [call EXCEPT ![o][i] = IF Private(i) THEN "done" ELSE "refused"]
        /\ skills' = [skills EXCEPT ![i] =
             CASE o = "activate" -> [@ EXCEPT !.status = "active"]
               [] o = "reject"   -> [@ EXCEPT !.status = "archived"]
               [] o = "share"    -> [@ EXCEPT !.scope = "workspace"]]
        /\ missed' = IF Private(i) \/ o = "share" THEN missed ELSE Queries
        /\ UNCHANGED <<asking, data, shownTab, stale>>
    BY DEF Carry
  <1>2. skills' \in [Candidates -> [status : {"pending_review", "active", "archived"},
                                    scope : {"user", "workspace"}]]
    BY <1>0, <1>1 DEF LibraryTypeOK, Ops
  <1>3. CASE Private(i)
    <2>1. call' = [call EXCEPT ![o][i] = "done"]
      BY <1>1, <1>3
    <2>2. call' \in [Ops -> [Candidates -> Stages]] /\ call'[o][i] = "done"
      BY <1>0, <2>1 DEF LibraryTypeOK, Stages
    <2>3. LibraryTypeOK' /\ AnswerOnItsWay'
      BY <1>0, <1>1, <1>2, <2>2 DEF LibraryTypeOK, AnswerOnItsWay
    <2> QED
      BY <2>3 DEF LibraryInv
  <1>4. CASE ~Private(i) /\ o = "share"
    <2>1. skills' = skills
      <3>1. skills[i] \in [status : {"pending_review", "active", "archived"}, scope : {"user", "workspace"}]
            /\ skills[i].scope = "workspace"
        BY <1>0, <1>4 DEF LibraryTypeOK, Private
      <3>2. [skills[i] EXCEPT !.scope = "workspace"] = skills[i]
        BY <3>1
      <3>3. skills' = [skills EXCEPT ![i] = [skills[i] EXCEPT !.scope = "workspace"]]
        BY <1>1, <1>4
      <3> QED
        BY <1>0, <3>2, <3>3 DEF LibraryTypeOK
    <2>2. call' = [call EXCEPT ![o][i] = "refused"] /\ missed' = missed
      BY <1>1, <1>4
    <2> QED
      BY <1>0, <1>1, <2>1, <2>2, CallStepKeeps DEF Stages
  <1>5. CASE ~Private(i) /\ o # "share"
    <2>1. call' = [call EXCEPT ![o][i] = "refused"] /\ missed' = Queries
      BY <1>1, <1>5
    <2>2. call' \in [Ops -> [Candidates -> Stages]]
      BY <1>0, <2>1 DEF LibraryTypeOK, Stages
    <2>3. LibraryTypeOK'
      BY <1>0, <1>1, <1>2, <2>2 DEF LibraryTypeOK
    <2>4. \A q \in Queries : ListFollows(q)'
      BY <2>1 DEF ListFollows
    <2>5. Queries' = Queries
      BY DEF Queries
    <2> QED
      BY <2>3, <2>4, <2>5 DEF LibraryInv
  <1> QED
    BY <1>3, <1>4, <1>5

LEMMA DecidedKeeps ==
  ASSUME LibraryInv, NEW o \in Ops, NEW i \in Candidates, Decided(o, i)
  PROVE  LibraryInv'
  <1> DEFINE again == {q \in Refreshed(o) : Restarts(q)}
  <1>1. /\ LibraryTypeOK /\ UNCHANGED <<skills, data, shownTab>>
        /\ call' = [call EXCEPT ![o][i] = "idle"]
        /\ asking' = [q \in Queries |-> IF q \in again THEN Asked ELSE asking[q]]
        /\ stale' = stale \union Refreshed(o)
        /\ missed' = (missed \ again) \union {q \in Refreshed(o) \ again : asking[q].at # "idle"}
                       \union (IF o = "reject" THEN Skills ELSE {})
    BY DEF LibraryInv, Decided, Invalidate
  <1>2. call' \in [Ops -> [Candidates -> Stages]]
    BY <1>1 DEF LibraryTypeOK, Stages
  <1>3. asking' \in [Queries -> [at : {"idle", "asked", "read"},
                                 rows : SUBSET (Candidates \X {"user", "workspace"})]]
    BY <1>1 DEF LibraryTypeOK, Asked
  <1>4. LibraryTypeOK'
    BY <1>1, <1>2, <1>3 DEF LibraryTypeOK
  <1>5. Queries = Refreshed(o) \union (IF o = "reject" THEN Skills ELSE {})
    BY DEF Queries, Refreshed, Ops
  <1>6. ASSUME NEW q \in Queries PROVE ListFollows(q)'
    <2>1. CASE q \in again
      BY <1>1, <2>1 DEF ListFollows, Asked
    <2>2. CASE q \in Refreshed(o) \ again /\ asking[q].at # "idle"
      BY <1>1, <2>2 DEF ListFollows
    <2>3. CASE q \in Refreshed(o) \ again /\ asking[q].at = "idle"
      <3>1. q \notin OnDisplay' /\ q \in stale' /\ asking'[q].at = "idle"
        BY <1>1, <2>3 DEF Restarts, OnDisplay
      <3> QED
        BY <3>1 DEF ListFollows
    <2>4. CASE q \notin Refreshed(o)
      BY <1>1, <1>5, <2>4 DEF ListFollows
    <2> QED
      BY <2>1, <2>2, <2>3, <2>4
  <1>7. QED
    BY <1>4, <1>6 DEF LibraryInv

LEMMA DecisionLostKeeps ==
  ASSUME LibraryInv, NEW o \in Ops, NEW i \in Candidates, DecisionLost(o, i)
  PROVE  LibraryInv'
  <1>1. /\ LibraryTypeOK /\ UNCHANGED <<skills, asking, data, shownTab, stale>>
        /\ call' = [call EXCEPT ![o][i] = "idle"]
        /\ missed' = missed \union (IF call[o][i] = "done" THEN Queries ELSE {})
    BY DEF LibraryInv, DecisionLost
  <1>2. CASE call[o][i] = "done"
    <2>1. LibraryTypeOK'
      BY <1>1 DEF LibraryTypeOK, Stages
    <2>2. \A q \in Queries : ListFollows(q)'
      BY <1>1, <1>2 DEF ListFollows
    <2> QED
      BY <2>1, <2>2 DEF LibraryInv
  <1>3. CASE call[o][i] # "done"
    <2>1. missed' = missed
      BY <1>1, <1>3
    <2> QED
      BY <1>1, <1>3, <2>1, CallStepKeeps DEF Stages
  <1>4. QED
    BY <1>2, <1>3

LEMMA LibraryKept == LibrarySpec => []LibraryInv
  <1>1. ASSUME LibraryInv, [LibraryNext]_libraryVars PROVE LibraryInv'
    <2>1. ASSUME UNCHANGED <<skills, asking, data, shownTab, missed, stale, call>> PROVE LibraryInv'
      <3>1. LibraryTypeOK'
        BY <1>1, <2>1 DEF LibraryInv, LibraryTypeOK
      <3>2. \A q \in Queries : ListFollows(q) => ListFollows(q)'
        BY <2>1 DEF ListFollows, OnDisplay, Truth, Owned
      <3>3. AnswerOnItsWay => AnswerOnItsWay'
        BY <2>1 DEF AnswerOnItsWay
      <3> QED
        BY <1>1, <3>1, <3>2, <3>3 DEF LibraryInv
    <2>2. CASE UNCHANGED libraryVars
      BY <2>1, <2>2 DEF libraryVars
    <2>3. CASE \E q \in Queries : ServeList(q) \/ ListArrives(q) \/ ListFails(q) \/ Refetch(q)
      BY <1>1, <2>3, ListStepKeeps
    <2>4. CASE \E t \in Tabs \union {NoTab} : Disclose(t)
      BY <1>1, <2>4, DiscloseKeeps
    <2>5. CASE \E i \in Candidates : RejectForm(i)
      BY <2>1, <2>5 DEF RejectForm
    <2>6. ASSUME NEW o \in Ops, NEW i \in Candidates, Press(o, i) \/ Check(o, i) \/ Refused(o, i)
          PROVE  LibraryInv'
      <3>1. UNCHANGED <<skills, asking, data, shownTab, missed, stale>> /\ call[o][i] # "done"
        BY <2>6 DEF Press, Check, Refused, Offered, Busy, Ops
      <3>2. \E at \in Stages : call' = [call EXCEPT ![o][i] = at]
        BY <2>6 DEF Press, Check, Refused, Stages
      <3> QED
        BY <1>1, <2>6, <3>1, <3>2, CallStepKeeps
    <2>7. ASSUME NEW o \in Ops, NEW i \in Candidates, Carry(o, i) \/ Decided(o, i) \/ DecisionLost(o, i)
          PROVE  LibraryInv'
      BY <1>1, <2>7, CarryKeeps, DecidedKeeps, DecisionLostKeeps
    <2> QED
      BY <1>1, <2>2, <2>3, <2>4, <2>5, <2>6, <2>7 DEF LibraryNext
  <1>2. QED
    BY <1>1, LibraryInvStarts, PTL DEF LibrarySpec

(* Once nothing is under way the page shows the table (PanelMatches),      *)
(* whatever decisions, answers and refetches overlapped.                   *)
THEOREM PageMatchesTable == LibrarySpec => []PanelMatches
  <1>1. ASSUME LibraryInv PROVE PanelMatches
    <2>1. ASSUME AtRest, NEW q \in OnDisplay \ missed PROVE data[q] = Truth(q)
      <3>1. q \in Queries
        BY <1>1 DEF LibraryInv, LibraryTypeOK, OnDisplay, Queries, Skills
      <3>2. ~AnswerOnItsWay /\ asking[q].at = "idle"
        BY <2>1, <3>1 DEF AtRest, AnswerOnItsWay
      <3>3. ListFollows(q)
        BY <1>1, <3>1, <3>2 DEF LibraryInv
      <3> QED
        BY <2>1, <3>2, <3>3 DEF ListFollows
    <2> QED
      BY <2>1 DEF PanelMatches
  <1>2. QED
    BY <1>1, LibraryKept, PTL

-----------------------------------------------------------------------------
(* The stream parser (RationaleStream), for any replies and any chunks.     *)
(* StreamInv says where in the reply the parser stands: what it holds back  *)
(* begins at the k-th symbol, and no tag it looks for begins before.        *)

Symbols == UNION {{s[i] : i \in DOMAIN s} : s \in Replies}

LEMMA RepliesAreSequences == \A s \in Replies : s \in Seq(Symbols)
  <1> SUFFICES ASSUME NEW s \in Replies PROVE s \in Seq(Symbols)
    OBVIOUS
  <1>1. {s[i] : i \in DOMAIN s} \in SUBSET Symbols
    BY DEF Symbols
  <1>2. s \in Seq({s[i] : i \in DOMAIN s})
    BY StreamAssumption
  <1>3. \A A \in SUBSET Symbols : \A q \in Seq(A) : q \in Seq(Symbols)
    OBVIOUS
  <1> QED
    BY ONLY <1>1, <1>2, <1>3

(* A tag stands at i in s; the first one from f on stands at i; none begins *)
(* from f on and before k.                                                  *)
Stands(s, tag, i) == i \in 1..(Len(s) - Len(tag) + 1) /\ SubSeq(s, i, i + Len(tag) - 1) = tag
ComesFirst(s, tag, f, i) == Stands(s, tag, i) /\ f <= i /\ \A j \in f..(i - 1) : ~Stands(s, tag, j)
NoneBefore(s, tag, f, k) == \A j \in f..(k - 1) : ~Stands(s, tag, j)

LEMMA Tags == Len(OPEN) = 3 /\ Len(CLOSE) = 4
  BY DEF OPEN, CLOSE

LEMMA FindIs ==
  ASSUME NEW T, NEW s \in Seq(T), NEW tag, Len(tag) \in Nat \ {0}
  PROVE  \/ Find(s, tag) = 0 /\ \A i \in Int : ~Stands(s, tag, i)
         \/ Find(s, tag) \in Int /\ ComesFirst(s, tag, 1, Find(s, tag))
  <1> DEFINE at == {i \in 1..(Len(s) - Len(tag) + 1) : SubSeq(s, i, i + Len(tag) - 1) = tag}
  <1>1. at \in SUBSET Nat /\ \A i \in Int : i \in at <=> Stands(s, tag, i)
    BY DEF Stands
  <1>2. Find(s, tag) = IF at = {} THEN 0 ELSE Least(at)
    BY DEF Find, Least
  <1> HIDE DEF at
  <1>3. CASE at = {}
    BY <1>1, <1>2, <1>3
  <1>4. CASE at # {}
    <2>1. Least(at) \in at /\ \A j \in at : Least(at) <= j
      BY <1>1, <1>4, LeastOf
    <2>2. PICK m \in Nat : m = Find(s, tag) /\ m \in at /\ \A j \in at : m <= j
      BY <1>1, <1>2, <1>4, <2>1
    <2>3. Stands(s, tag, m) /\ 1 <= m
      <3>1. Stands(s, tag, m)
        BY ONLY <1>1, <2>2
      <3>2. m \in 1..(Len(s) - Len(tag) + 1)
        BY ONLY <3>1 DEF Stands
      <3> QED
        BY <3>1, <3>2
    <2>4. \A j \in 1..(m - 1) : ~Stands(s, tag, j)
      BY <1>1, <2>2
    <2> QED
      BY <2>2, <2>3, <2>4 DEF ComesFirst
  <1> QED
    BY <1>3, <1>4

(* What stands in a part of s stands there in s.                            *)
LEMMA StandsInPart ==
  ASSUME NEW T, NEW s \in Seq(T), NEW n \in 0..Len(s), NEW k \in 1..(n + 1),
         NEW tag, Len(tag) \in Nat \ {0}, NEW i \in Int, i >= 1
  PROVE  /\ Len(SubSeq(s, k, n)) = n - k + 1
         /\ SubSeq(s, k, n) \in Seq(T)
         /\ Stands(SubSeq(s, k, n), tag, i) <=>
              Stands(s, tag, k + i - 1) /\ k + i + Len(tag) - 2 <= n
  <1> DEFINE w == SubSeq(s, k, n)
  <1>1. n \in Int /\ k \in Int /\ Len(s) \in Nat /\ \A j \in k..n : s[j] \in T
    OBVIOUS
  <1>2. w \in Seq(T) /\ Len(w) = IF k <= n THEN n - k + 1 ELSE 0
    BY ONLY <1>1, SubSeqProperties
  <1>3. Len(w) = n - k + 1
    BY <1>2
  <1>4. PICK l \in Nat : l = Len(tag) /\ l >= 1
    OBVIOUS
  <1>5. ASSUME i + l - 1 <= n - k + 1
        PROVE  SubSeq(w, i, i + l - 1) = SubSeq(s, k + i - 1, k + (i + l - 1) - 1)
    <2>1. k \in 1..Len(s) /\ n \in 1..Len(s) /\ i \in 1..(n - k + 1) /\ i + l - 1 \in 1..(n - k + 1)
      BY <1>1, <1>4, <1>5
    <2> QED
      BY ONLY <2>1, SubSeqOfSubSeq, s \in Seq(T)
  <1>6. k + (i + l - 1) - 1 = k + i - 1 + l - 1 /\ k + i + l - 2 = k + i - 1 + l - 1
    BY <1>1
  <1>7. ASSUME Stands(w, tag, i) PROVE Stands(s, tag, k + i - 1) /\ k + i + l - 2 <= n
    <2> HIDE DEF w
    <2>1. i \in 1..(n - k + 1 - l + 1) /\ SubSeq(w, i, i + l - 1) = tag
      BY <1>3, <1>4, <1>7 DEF Stands
    <2>2. i + l - 1 <= n - k + 1 /\ k + i - 1 \in 1..(Len(s) - l + 1) /\ k + i + l - 2 <= n
      BY ONLY <1>1, <1>4, <2>1, n \in 0..Len(s), k \in 1..(n + 1), i \in Int, i >= 1
    <2>3. SubSeq(s, k + i - 1, k + i - 1 + l - 1) = tag
      BY <1>5, <1>6, <2>1, <2>2
    <2> QED
      BY <1>4, <2>2, <2>3 DEF Stands
  <1>8. ASSUME Stands(s, tag, k + i - 1), k + i + l - 2 <= n PROVE Stands(w, tag, i)
    <2> HIDE DEF w
    <2>1. SubSeq(s, k + i - 1, k + i - 1 + l - 1) = tag
      BY <1>4, <1>8 DEF Stands
    <2>2. i + l - 1 <= n - k + 1 /\ i \in 1..(n - k + 1 - l + 1)
      BY ONLY <1>1, <1>4, <1>8, i \in Int, i >= 1
    <2>3. SubSeq(w, i, i + l - 1) = tag
      BY ONLY <1>5, <1>6, <2>1, <2>2
    <2> QED
      BY ONLY <1>3, <1>4, <2>2, <2>3 DEF Stands
  <1> HIDE DEF w
  <1>9. Stands(w, tag, i) <=> Stands(s, tag, k + i - 1) /\ k + i + Len(tag) - 2 <= n
    BY <1>4, <1>7, <1>8
  <1> QED
    BY <1>2, <1>3, <1>9 DEF w

(* Where a part of s has a tag, if it has one.                              *)
LEMMA FindInPart ==
  ASSUME NEW T, NEW s \in Seq(T), NEW n \in 0..Len(s), NEW k \in 1..(n + 1),
         NEW tag, Len(tag) \in Nat \ {0}
  PROVE  \/ Find(SubSeq(s, k, n), tag) = 0 /\ NoneBefore(s, tag, k, n - Len(tag) + 2)
         \/ \E i \in Int : /\ Find(SubSeq(s, k, n), tag) = i - k + 1 /\ i - k + 1 # 0
                           /\ ComesFirst(s, tag, k, i) /\ i + Len(tag) - 1 <= n
  <1>1. n \in Int /\ k \in Int /\ 1 \in Int /\ 1 >= 1
    OBVIOUS
  <1>2. PICK l \in Nat : l = Len(tag) /\ l >= 1
    OBVIOUS
  <1>3. PICK w \in Seq(T) : w = SubSeq(s, k, n)
    BY <1>1, StandsInPart
  <1>4. \A i \in Int : i >= 1 =>
          (Stands(w, tag, i) <=> Stands(s, tag, k + i - 1) /\ k + i + l - 2 <= n)
    <2> SUFFICES ASSUME NEW i \in Int, i >= 1
                 PROVE  Stands(w, tag, i) <=> Stands(s, tag, k + i - 1) /\ k + i + l - 2 <= n
      OBVIOUS
    <2> QED
      BY <1>2, <1>3, StandsInPart
  <1>5. CASE Find(w, tag) = 0 /\ \A i \in Int : ~Stands(w, tag, i)
    <2>1. ASSUME NEW j \in k..(n - l + 2 - 1), Stands(s, tag, j) PROVE FALSE
      <3>1. j - k + 1 \in Int /\ j - k + 1 >= 1 /\ k + (j - k + 1) - 1 = j /\ k + (j - k + 1) + l - 2 <= n
        BY ONLY <1>1, <1>2, <2>1
      <3> QED
        BY ONLY <1>4, <1>5, <2>1, <3>1
    <2> QED
      BY <1>2, <1>3, <1>5, <2>1 DEF NoneBefore
  <1>6. CASE Find(w, tag) \in Int /\ ComesFirst(w, tag, 1, Find(w, tag))
    <2>1. PICK m \in Int : m = Find(w, tag) /\ m >= 1 /\ Stands(w, tag, m)
                           /\ \A j \in 1..(m - 1) : ~Stands(w, tag, j)
      BY <1>6 DEF ComesFirst
    <2>2. PICK i \in Int : i = k + m - 1 /\ i - k + 1 = m /\ k <= i
      BY <1>1, <2>1
    <2>3. Stands(s, tag, i) /\ i + l - 1 <= n
      <3>1. Stands(s, tag, k + m - 1) /\ k + m + l - 2 <= n
        BY ONLY <1>4, <2>1
      <3> QED
        BY ONLY <1>1, <1>2, <2>1, <2>2, <3>1
    <2>4. ASSUME NEW j \in k..(i - 1), Stands(s, tag, j) PROVE FALSE
      <3>1. PICK d \in Int : d = j - k + 1 /\ d >= 1 /\ d <= m - 1 /\ j = k + d - 1
        BY ONLY <1>1, <2>1, <2>2, <2>4
      <3>2. d \in 1..(m - 1) /\ k + d + l - 2 <= n
        <4>1. i + l - 1 <= n /\ l \in Int /\ i \in Int /\ m \in Int /\ i = k + m - 1
          BY ONLY <1>2, <2>1, <2>2, <2>3
        <4>2. d \in Int /\ d >= 1 /\ d <= m - 1
          BY ONLY <3>1
        <4>3. d \in 1..(m - 1)
          BY ONLY <4>1, <4>2
        <4>4. k + d + l - 2 <= n
          BY ONLY <1>1, <4>1, <4>2
        <4> QED
          BY ONLY <4>3, <4>4
      <3>3. ~Stands(w, tag, d) /\ (Stands(w, tag, d) <=> Stands(s, tag, k + d - 1) /\ k + d + l - 2 <= n)
        BY ONLY <1>4, <2>1, <3>1, <3>2
      <3> QED
        BY ONLY <2>4, <3>1, <3>2, <3>3
    <2>5. ComesFirst(s, tag, k, i)
      BY <2>2, <2>3, <2>4 DEF ComesFirst
    <2> QED
      BY <1>2, <1>3, <2>1, <2>2, <2>3, <2>5
  <1> QED
    BY <1>2, <1>3, <1>5, <1>6, FindIs

LEMMA OneFirst ==
  ASSUME NEW s, NEW tag, NEW f \in Int, NEW i \in Int, NEW j \in Int,
         ComesFirst(s, tag, f, i), ComesFirst(s, tag, f, j)
  PROVE  i = j
  <1>1. Stands(s, tag, i) /\ Stands(s, tag, j) /\ f <= i /\ f <= j
    BY DEF ComesFirst
  <1>2. ~(i \in f..(j - 1)) /\ ~(j \in f..(i - 1))
    BY <1>1 DEF ComesFirst
  <1> QED
    BY ONLY <1>1, <1>2, f \in Int, i \in Int, j \in Int

LEMMA NoRationale ==
  ASSUME NEW T, NEW s \in Seq(T), NoneBefore(s, OPEN, 1, Len(s) - 1)
  PROVE  Rationale(s) = <<>> /\ ~Closed(s)
  <1>1. Len(OPEN) = 3 /\ Len(OPEN) \in Nat \ {0} /\ Len(s) \in Nat
    BY Tags
  <1>2. \A i \in Int : ~Stands(s, OPEN, i)
    <2>1. ASSUME NEW i \in Int, Stands(s, OPEN, i) PROVE FALSE
      <3>1. i \in 1..(Len(s) - 3 + 1)
        BY ONLY <1>1, <2>1 DEF Stands
      <3>2. i \in 1..(Len(s) - 1 - 1)
        BY ONLY <1>1, <3>1
      <3> QED
        BY <2>1, <3>2 DEF NoneBefore
    <2> QED
      BY <2>1
  <1>3. Find(s, OPEN) = 0
    BY ONLY <1>1, <1>2, FindIs, s \in Seq(T) DEF ComesFirst
  <1> QED
    BY <1>3 DEF Rationale, Closed

(* The rationale of a reply whose first tag stands at o.                    *)
LEMMA RationaleIs ==
  ASSUME NEW T, NEW s \in Seq(T), NEW o \in Int, ComesFirst(s, OPEN, 1, o)
  PROVE  \/ /\ NoneBefore(s, CLOSE, o + 3, Len(s) - 2)
            /\ Rationale(s) = SubSeq(s, o + 3, Len(s)) /\ ~Closed(s)
         \/ \E e \in Int : /\ ComesFirst(s, CLOSE, o + 3, e) /\ e + 3 <= Len(s)
                           /\ Rationale(s) = SubSeq(s, o + 3, e - 1) /\ Closed(s)
                           /\ AfterTags(s) = SubSeq(s, e + 4, Len(s))
  <1>1. PICK n \in Nat : n = Len(s)
    OBVIOUS
  <1>2. Len(OPEN) = 3 /\ Len(OPEN) \in Nat \ {0} /\ Len(CLOSE) = 4 /\ Len(CLOSE) \in Nat \ {0}
    BY Tags
  <1>3. o \in 1..(n - 3 + 1)
    BY ONLY <1>1, <1>2, ComesFirst(s, OPEN, 1, o) DEF ComesFirst, Stands
  <1>4. PICK k \in Int : k = o + 3 /\ k \in 1..(n + 1) /\ n \in 0..Len(s)
    BY ONLY <1>1, <1>3
  <1>5. Find(s, OPEN) = o
    <2>1. ASSUME Find(s, OPEN) = 0, \A i \in Int : ~Stands(s, OPEN, i) PROVE FALSE
      BY <2>1 DEF ComesFirst
    <2>2. Find(s, OPEN) \in Int /\ ComesFirst(s, OPEN, 1, Find(s, OPEN))
      BY ONLY <1>2, <2>1, FindIs, s \in Seq(T)
    <2> QED
      BY ONLY <2>2, OneFirst, o \in Int, 1 \in Int, ComesFirst(s, OPEN, 1, o)
  <1>6. PICK rest \in Seq(T) : rest = SubSeq(s, k, n)
    <2>1. 1 \in Int /\ 1 >= 1
      OBVIOUS
    <2>2. SubSeq(s, k, n) \in Seq(T)
      BY ONLY <1>2, <1>4, <2>1, StandsInPart, s \in Seq(T)
    <2> QED
      BY <2>2
  <1>7. rest = From(s, Find(s, OPEN) + Len(OPEN)) /\ o # 0
    BY ONLY <1>1, <1>2, <1>3, <1>4, <1>5, <1>6 DEF From
  <1>8. /\ Rationale(s) = IF Find(rest, CLOSE) = 0 THEN rest ELSE SubSeq(rest, 1, Find(rest, CLOSE) - 1)
        /\ Closed(s) <=> Find(rest, CLOSE) # 0
    BY <1>5, <1>7 DEF Rationale, Closed
  <1>9. CASE Find(rest, CLOSE) = 0 /\ NoneBefore(s, CLOSE, k, n - 4 + 2)
    <2>1. n - 4 + 2 = n - 2
      OBVIOUS
    <2> QED
      BY <1>1, <1>4, <1>6, <1>8, <1>9, <2>1
  <1>10. ASSUME NEW e \in Int, Find(rest, CLOSE) = e - k + 1, e - k + 1 # 0,
                ComesFirst(s, CLOSE, k, e), e + 4 - 1 <= n
         PROVE  /\ ComesFirst(s, CLOSE, o + 3, e) /\ e + 3 <= Len(s)
                /\ Rationale(s) = SubSeq(s, o + 3, e - 1) /\ Closed(s)
                /\ AfterTags(s) = SubSeq(s, e + 4, Len(s))
    <2>1. k <= e
      BY <1>10 DEF ComesFirst
    <2>2. Rationale(s) = SubSeq(rest, 1, e - k) /\ Closed(s)
      <3>1. e - k + 1 - 1 = e - k
        BY <1>4
      <3> QED
        BY <1>8, <1>10, <3>1
    <2>3. SubSeq(rest, 1, e - k) = SubSeq(s, k, e - 1)
      <3>1. CASE e = k
        <4>1. e - k < 1 /\ e - 1 < k /\ e - k \in Int /\ e - 1 \in Int /\ 1 \in Int
          BY <1>4, <3>1
        <4> QED
          BY ONLY <4>1, <1>4, SubSeqEmpty
      <3>2. CASE e # k
        <4>1. /\ k \in 1..Len(s) /\ n \in 1..Len(s) /\ 1 \in 1..(n - k + 1)
              /\ e - k \in 1..(n - k + 1) /\ k + 1 - 1 = k /\ k + (e - k) - 1 = e - 1
          BY ONLY <1>1, <1>4, <1>10, <2>1, <3>2
        <4>2. SubSeq(SubSeq(s, k, n), 1, e - k) = SubSeq(s, k + 1 - 1, k + (e - k) - 1)
          BY ONLY <4>1, SubSeqOfSubSeq, s \in Seq(T)
        <4> QED
          BY ONLY <1>6, <4>1, <4>2
      <3> QED
        BY <3>1, <3>2
    <2>4. Len(Rationale(s)) = e - k
      <3>1. e - 1 \in 0..Len(s) /\ k \in 1..(e - 1 + 1) /\ 1 \in Int /\ 1 >= 1
        BY ONLY <1>1, <1>4, <1>10, <2>1
      <3>2. Len(SubSeq(s, k, e - 1)) = e - 1 - k + 1
        BY ONLY <1>2, <3>1, StandsInPart, s \in Seq(T)
      <3>3. e - 1 - k + 1 = e - k
        BY <1>4
      <3> QED
        BY ONLY <2>2, <2>3, <3>2, <3>3
    <2>5. AfterTags(s) = SubSeq(s, e + 4, Len(s))
      <3>1. o + 3 + (e - k) + 4 = e + 4
        BY ONLY <1>4, o \in Int, e \in Int
      <3> QED
        BY ONLY <1>2, <1>5, <2>4, <3>1 DEF AfterTags, From
    <2>6. e + 3 <= Len(s)
      BY <1>1, <1>10
    <2> QED
      BY ONLY <1>4, <1>10, <2>2, <2>3, <2>5, <2>6
  <1>11. \/ Find(rest, CLOSE) = 0 /\ NoneBefore(s, CLOSE, k, n - 4 + 2)
         \/ \E i \in Int : /\ Find(rest, CLOSE) = i - k + 1 /\ i - k + 1 # 0
                           /\ ComesFirst(s, CLOSE, k, i) /\ i + 4 - 1 <= n
    BY ONLY <1>2, <1>4, <1>6, FindInPart, s \in Seq(T)
  <1> QED
    BY <1>9, <1>10, <1>11

(* A tag that has come comes first in every beginning that holds it, and    *)
(* none that has not come in the whole comes in a beginning.                *)
LEMMA InBeginning ==
  ASSUME NEW T, NEW s \in Seq(T), NEW n \in 0..Len(s), NEW tag, Len(tag) \in Nat \ {0}
  PROVE  /\ SubSeq(s, 1, n) \in Seq(T) /\ Len(SubSeq(s, 1, n)) = n
         /\ \A i \in Int : i >= 1 =>
              (Stands(SubSeq(s, 1, n), tag, i) <=> Stands(s, tag, i) /\ i + Len(tag) - 1 <= n)
  <1>1. 1 \in 1..(n + 1) /\ 1 \in Int /\ 1 >= 1 /\ n \in Int
    OBVIOUS
  <1>2. SubSeq(s, 1, n) \in Seq(T) /\ Len(SubSeq(s, 1, n)) = n - 1 + 1
    BY ONLY <1>1, StandsInPart, s \in Seq(T), n \in 0..Len(s), Len(tag) \in Nat \ {0}
  <1>3. ASSUME NEW i \in Int, i >= 1
        PROVE  Stands(SubSeq(s, 1, n), tag, i) <=> Stands(s, tag, i) /\ i + Len(tag) - 1 <= n
    <2>1. Stands(SubSeq(s, 1, n), tag, i) <=> Stands(s, tag, 1 + i - 1) /\ 1 + i + Len(tag) - 2 <= n
      BY ONLY <1>1, <1>3, StandsInPart, s \in Seq(T), n \in 0..Len(s), Len(tag) \in Nat \ {0}
    <2>2. 1 + i - 1 = i /\ 1 + i + Len(tag) - 2 = i + Len(tag) - 1
      BY <1>3
    <2> QED
      BY ONLY <2>1, <2>2
  <1>4. n - 1 + 1 = n
    BY <1>1
  <1> QED
    BY <1>2, <1>3, <1>4

(* Where the parser stands once n symbols of s have been fed to it: before  *)
(* the first tag, between the two, after the second.  What it has not used  *)
(* begins at k.                                                             *)
Formed(p) == DOMAIN p = {"st", "buf", "shown", "tail"}

BeforeTag(p, s, n, k) ==
  /\ p.st = "PRE" /\ p.shown = <<>> /\ p.tail = <<>>
  /\ k \in 1..(n + 1) /\ p.buf = SubSeq(s, k, n)
  /\ NoneBefore(s, OPEN, 1, k)

InRationale(p, s, n, k, o) ==
  /\ p.st = "IN" /\ p.tail = <<>>
  /\ ComesFirst(s, OPEN, 1, o) /\ NoneBefore(s, CLOSE, o + 3, k)
  /\ k \in (o + 3)..(n + 1) /\ p.buf = SubSeq(s, k, n) /\ p.shown = SubSeq(s, o + 3, k - 1)

PastTags(p, s, n, k, o, e) ==
  /\ p.st = "POST"
  /\ ComesFirst(s, OPEN, 1, o) /\ ComesFirst(s, CLOSE, o + 3, e)
  /\ k \in (e + 4)..(n + 1) /\ p.buf = SubSeq(s, k, n)
  /\ p.shown = SubSeq(s, o + 3, e - 1) /\ p.tail = SubSeq(s, e + 4, k - 1)

(* Between two calls of feed().                                             *)
Waits(p, s, n) ==
  \/ \E k \in Int : BeforeTag(p, s, n, k) /\ n - k <= 1
  \/ \E k, o \in Int : InRationale(p, s, n, k, o) /\ n - k <= 2
  \/ \E o, e \in Int : PastTags(p, s, n, n + 1, o, e)

(* Within one, where the parser has yet to look at what it holds.           *)
Looks(p, s, n) ==
  \/ \E k \in Int : BeforeTag(p, s, n, k)
  \/ \E k, o \in Int : InRationale(p, s, n, k, o)
  \/ \E k, o, e \in Int : PastTags(p, s, n, k, o, e)

LEMMA NewestOfPart ==
  ASSUME NEW T, NEW s \in Seq(T), NEW n \in 0..Len(s), NEW k \in 1..(n + 1), NEW m \in Nat \ {0}
  PROVE  /\ Len(SubSeq(s, k, n)) = n - k + 1
         /\ n - k + 1 <= m => Newest(SubSeq(s, k, n), m) = SubSeq(s, k, n)
         /\ n - k + 1 > m => /\ Newest(SubSeq(s, k, n), m) = SubSeq(s, n - m + 1, n)
                             /\ Len(Newest(SubSeq(s, k, n), m)) = m
                             /\ SubSeq(SubSeq(s, k, n), 1, n - k + 1 - m) = SubSeq(s, k, n - m)
  <1>1. n \in Int /\ k \in Int /\ 1 \in Int /\ 1 >= 1 /\ m \in Int
    OBVIOUS
  <1>2. Len(OPEN) \in Nat \ {0}
    BY Tags
  <1>3. PICK w : w = SubSeq(s, k, n)
    OBVIOUS
  <1>4. Len(w) = n - k + 1
    BY ONLY <1>1, <1>2, <1>3, StandsInPart, s \in Seq(T), n \in 0..Len(s), k \in 1..(n + 1)
  <1>5. ASSUME n - k + 1 <= m PROVE Newest(w, m) = w
    <2>1. ~(n - k + 1 > m)
      BY <1>1, <1>5
    <2> QED
      BY ONLY <1>4, <2>1 DEF Newest
  <1>6. ASSUME n - k + 1 > m
        PROVE  /\ Newest(w, m) = SubSeq(s, n - m + 1, n) /\ Len(Newest(w, m)) = m
               /\ SubSeq(w, 1, n - k + 1 - m) = SubSeq(s, k, n - m)
    <2>1. Newest(w, m) = SubSeq(w, n - k + 1 - m + 1, n - k + 1)
      BY ONLY <1>4, <1>6 DEF Newest, From
    <2>2. /\ k \in 1..Len(s) /\ n \in 1..Len(s)
          /\ n - k + 1 - m + 1 \in 1..(n - k + 1) /\ n - k + 1 \in 1..(n - k + 1)
          /\ 1 \in 1..(n - k + 1) /\ n - k + 1 - m \in 1..(n - k + 1)
      BY ONLY <1>1, <1>6, n \in 0..Len(s), k \in 1..(n + 1), m \in Nat \ {0}
    <2>3. /\ k + (n - k + 1 - m + 1) - 1 = n - m + 1 /\ k + (n - k + 1) - 1 = n
          /\ k + 1 - 1 = k /\ k + (n - k + 1 - m) - 1 = n - m
      BY ONLY <1>1
    <2>4. SubSeq(SubSeq(s, k, n), n - k + 1 - m + 1, n - k + 1)
            = SubSeq(s, k + (n - k + 1 - m + 1) - 1, k + (n - k + 1) - 1)
      BY ONLY <2>2, SubSeqOfSubSeq, s \in Seq(T)
    <2>5. SubSeq(SubSeq(s, k, n), 1, n - k + 1 - m) = SubSeq(s, k + 1 - 1, k + (n - k + 1 - m) - 1)
      BY ONLY <2>2, SubSeqOfSubSeq, s \in Seq(T)
    <2>6. Newest(w, m) = SubSeq(s, n - m + 1, n) /\ SubSeq(w, 1, n - k + 1 - m) = SubSeq(s, k, n - m)
      BY ONLY <1>3, <2>1, <2>3, <2>4, <2>5
    <2>7. n - m + 1 \in 1..(n + 1) /\ n - (n - m + 1) + 1 = m
      BY ONLY <1>1, <1>6, <2>2, m \in Nat \ {0}, k \in 1..(n + 1), n \in 0..Len(s)
    <2>8. Len(SubSeq(s, n - m + 1, n)) = n - (n - m + 1) + 1
      BY ONLY <1>1, <1>2, <2>7, StandsInPart, s \in Seq(T), n \in 0..Len(s)
    <2> QED
      BY ONLY <2>6, <2>7, <2>8
  <1> QED
    BY ONLY <1>3, <1>4, <1>5, <1>6

(* What follows the i-th symbol of a part.                                  *)
LEMMA RestOfPart ==
  ASSUME NEW T, NEW s \in Seq(T), NEW n \in 0..Len(s), NEW k \in 1..(n + 1), NEW i \in 1..(n - k + 2)
  PROVE  From(SubSeq(s, k, n), i) = SubSeq(s, k + i - 1, n)
  <1>1. n \in Int /\ k \in Int /\ i \in Int /\ 1 \in Int /\ 1 >= 1
    OBVIOUS
  <1>2. Len(OPEN) \in Nat \ {0}
    BY Tags
  <1>3. Len(SubSeq(s, k, n)) = n - k + 1
    BY ONLY <1>1, <1>2, StandsInPart, s \in Seq(T), n \in 0..Len(s), k \in 1..(n + 1)
  <1>4. CASE i = n - k + 2
    <2>1. n - k + 1 < i /\ n < k + i - 1 /\ n - k + 1 \in Int /\ k + i - 1 \in Int
      BY <1>1, <1>4
    <2>2. SubSeq(SubSeq(s, k, n), i, n - k + 1) = <<>>
      BY ONLY <1>1, <2>1, SubSeqEmpty
    <2>3. SubSeq(s, k + i - 1, n) = <<>>
      BY ONLY <1>1, <2>1, SubSeqEmpty
    <2> QED
      BY ONLY <1>3, <2>2, <2>3 DEF From
  <1>5. CASE i # n - k + 2
    <2>1. /\ k \in 1..Len(s) /\ n \in 1..Len(s) /\ i \in 1..(n - k + 1)
          /\ n - k + 1 \in 1..(n - k + 1) /\ k + (n - k + 1) - 1 = n
      BY ONLY <1>1, <1>5, n \in 0..Len(s), k \in 1..(n + 1), i \in 1..(n - k + 2)
    <2>2. SubSeq(SubSeq(s, k, n), i, n - k + 1) = SubSeq(s, k + i - 1, k + (n - k + 1) - 1)
      BY ONLY <2>1, SubSeqOfSubSeq, s \in Seq(T)
    <2> QED
      BY ONLY <1>3, <2>1, <2>2 DEF From
  <1> QED
    BY <1>4, <1>5

LEMMA BeginningOfPart ==
  ASSUME NEW T, NEW s \in Seq(T), NEW n \in 0..Len(s), NEW k \in 1..(n + 1), NEW j \in 0..(n - k + 1)
  PROVE  SubSeq(SubSeq(s, k, n), 1, j) = SubSeq(s, k, k + j - 1)
  <1>1. n \in Int /\ k \in Int /\ j \in Int /\ 1 \in Int
    OBVIOUS
  <1>2. CASE j = 0
    <2>1. j < 1 /\ k + j - 1 < k /\ k + j - 1 \in Int
      BY <1>1, <1>2
    <2> QED
      BY ONLY <1>1, <2>1, SubSeqEmpty
  <1>3. CASE j # 0
    <2>1. /\ k \in 1..Len(s) /\ n \in 1..Len(s) /\ 1 \in 1..(n - k + 1) /\ j \in 1..(n - k + 1)
          /\ k + 1 - 1 = k
      BY ONLY <1>1, <1>3, n \in 0..Len(s), k \in 1..(n + 1), j \in 0..(n - k + 1)
    <2>2. SubSeq(SubSeq(s, k, n), 1, j) = SubSeq(s, k + 1 - 1, k + j - 1)
      BY ONLY <2>1, SubSeqOfSubSeq, s \in Seq(T)
    <2> QED
      BY ONLY <2>1, <2>2
  <1> QED
    BY <1>2, <1>3

LEMMA NoneThenFirst ==
  ASSUME NEW s, NEW tag, NEW f \in Int, NEW k \in Int, f <= k, NoneBefore(s, tag, f, k)
  PROVE  /\ \A i \in Int : ComesFirst(s, tag, k, i) => ComesFirst(s, tag, f, i)
         /\ \A m \in Int : NoneBefore(s, tag, k, m) => NoneBefore(s, tag, f, m)
  <1>1. ASSUME NEW m \in Int, NoneBefore(s, tag, k, m) PROVE NoneBefore(s, tag, f, m)
    <2>1. \A j \in f..(m - 1) : j \in f..(k - 1) \/ j \in k..(m - 1)
      OBVIOUS
    <2> QED
      BY <1>1, <2>1 DEF NoneBefore
  <1>2. ASSUME NEW i \in Int, ComesFirst(s, tag, k, i) PROVE ComesFirst(s, tag, f, i)
    <2>1. Stands(s, tag, i) /\ k <= i /\ NoneBefore(s, tag, k, i)
      BY <1>2 DEF ComesFirst, NoneBefore
    <2>2. NoneBefore(s, tag, f, i) /\ f <= i
      BY <1>1, <2>1
    <2> QED
      BY <2>1, <2>2 DEF ComesFirst, NoneBefore
  <1> QED
    BY <1>1, <1>2

LEMMA OthersPass ==
  ASSUME NEW p
  PROVE  /\ p.st # "PRE" => InPre(p) = p
         /\ p.st # "IN" => InIn(p) = p
         /\ p.st # "POST" => InPost(p) = p
  BY DEF InPre, InIn, InPost

LEMMA PreStep ==
  ASSUME NEW T, NEW s \in Seq(T), NEW n \in 0..Len(s), NEW p, Formed(p), NEW k \in Int,
         BeforeTag(p, s, n, k)
  PROVE  /\ Formed(InPre(p))
         /\ \/ \E j \in Int : BeforeTag(InPre(p), s, n, j) /\ n - j <= 1
            \/ \E j, o \in Int : InRationale(InPre(p), s, n, j, o)
  <1>1. /\ p.st = "PRE" /\ p.shown = <<>> /\ p.tail = <<>> /\ k \in 1..(n + 1)
        /\ p.buf = SubSeq(s, k, n) /\ NoneBefore(s, OPEN, 1, k)
    BY DEF BeforeTag
  <1>2. Len(OPEN) = 3 /\ Len(OPEN) \in Nat \ {0} /\ n \in Int /\ k \in Int /\ 1 \in Int /\ 1 <= k
        /\ 2 \in Nat \ {0}
    BY <1>1, Tags
  <1>4. CASE Find(p.buf, OPEN) = 0 /\ NoneBefore(s, OPEN, k, n - 3 + 2)
    <2>1. InPre(p) = [p EXCEPT !.buf = Newest(p.buf, 2)]
      BY <1>1, <1>2, <1>4 DEF InPre
    <2>2. PICK q : q = InPre(p)
      OBVIOUS
    <2>3. Formed(q) /\ q.st = "PRE" /\ q.shown = <<>> /\ q.tail = <<>> /\ q.buf = Newest(p.buf, 2)
      BY ONLY <1>1, <2>1, <2>2, Formed(p) DEF Formed
    <2>4. CASE n - k + 1 <= 2
      <3>1. q.buf = SubSeq(s, k, n)
        BY ONLY <1>1, <1>2, <2>3, <2>4, NewestOfPart, s \in Seq(T), n \in 0..Len(s)
      <3>2. BeforeTag(q, s, n, k) /\ n - k <= 1
        BY <1>1, <1>2, <2>3, <2>4, <3>1 DEF BeforeTag
      <3> QED
        BY ONLY <1>2, <2>2, <2>3, <3>2
    <2>5. CASE ~(n - k + 1 <= 2)
      <3>1. n - k + 1 > 2 /\ n - 2 + 1 = n - 1 /\ n - 3 + 2 = n - 1 /\ n - 1 \in 1..(n + 1)
            /\ n - (n - 1) <= 1 /\ n - 1 \in Int
        BY ONLY <1>1, <1>2, <2>5
      <3>a. Newest(SubSeq(s, k, n), 2) = SubSeq(s, n - 2 + 1, n)
        BY ONLY <1>1, <1>2, <3>1, NewestOfPart, s \in Seq(T), n \in 0..Len(s)
      <3>2. q.buf = SubSeq(s, n - 2 + 1, n)
        BY ONLY <1>1, <2>3, <3>a
      <3>3. NoneBefore(s, OPEN, 1, n - 3 + 2)
        BY ONLY <1>1, <1>2, <1>4, <3>1, NoneThenFirst
      <3>4. BeforeTag(q, s, n, n - 1)
        BY ONLY <2>3, <3>1, <3>2, <3>3 DEF BeforeTag
      <3> QED
        BY ONLY <2>2, <2>3, <3>1, <3>4
    <2> QED
      BY <2>4, <2>5
  <1>5. ASSUME NEW i \in Int, Find(p.buf, OPEN) = i - k + 1, i - k + 1 # 0,
               ComesFirst(s, OPEN, k, i), i + 3 - 1 <= n
        PROVE  Formed(InPre(p)) /\ InRationale(InPre(p), s, n, i + 3, i)
    <2>1. InPre(p) = [p EXCEPT !.buf = From(p.buf, i - k + 1 + 3), !.st = "IN"]
      BY <1>1, <1>2, <1>5 DEF InPre
    <2>2. PICK q : q = InPre(p)
      OBVIOUS
    <2>3. /\ Formed(q) /\ q.st = "IN" /\ q.shown = <<>> /\ q.tail = <<>>
          /\ q.buf = From(p.buf, i - k + 1 + 3)
      BY ONLY <1>1, <2>1, <2>2, Formed(p) DEF Formed
    <2>4. k <= i
      BY <1>5 DEF ComesFirst
    <2>5. i - k + 1 + 3 \in 1..(n - k + 2) /\ k + (i - k + 1 + 3) - 1 = i + 3
          /\ i + 3 \in (i + 3)..(n + 1) /\ i + 3 - 1 < i + 3 /\ i + 3 - 1 \in Int /\ i + 3 \in Int
      <3>1. i + 3 - 1 <= n /\ i \in Int
        BY ONLY <1>5
      <3>2. n \in Int /\ k \in Int
        BY ONLY <1>2
      <3>3. i - k + 1 + 3 \in 1..(n - k + 2)
        BY ONLY <2>4, <3>1, <3>2
      <3>4. i + 3 \in (i + 3)..(n + 1)
        BY ONLY <3>1, <3>2
      <3>5. /\ k + (i - k + 1 + 3) - 1 = i + 3 /\ i + 3 - 1 < i + 3
            /\ i + 3 - 1 \in Int /\ i + 3 \in Int
        BY ONLY <3>1, <3>2
      <3> QED
        BY ONLY <3>3, <3>4, <3>5
    <2>6. q.buf = SubSeq(s, k + (i - k + 1 + 3) - 1, n)
      BY ONLY <1>1, <2>3, <2>5, RestOfPart, s \in Seq(T), n \in 0..Len(s)
    <2>7. q.shown = SubSeq(s, i + 3, i + 3 - 1)
      BY ONLY <2>3, <2>5, SubSeqEmpty
    <2>8. ComesFirst(s, OPEN, 1, i)
      BY ONLY <1>1, <1>2, <1>5, NoneThenFirst
    <2>9. NoneBefore(s, CLOSE, i + 3, i + 3)
      BY <2>5 DEF NoneBefore
    <2>10. q.buf = SubSeq(s, i + 3, n)
      BY ONLY <2>5, <2>6
    <2>11. q.st = "IN" /\ q.tail = <<>> /\ i + 3 \in (i + 3)..(n + 1)
      BY ONLY <2>3, <2>5
    <2>12. InRationale(q, s, n, i + 3, i)
      BY ONLY <2>7, <2>8, <2>9, <2>10, <2>11 DEF InRationale
    <2> QED
      BY ONLY <2>2, <2>3, <2>12
  <1>6. \/ Find(p.buf, OPEN) = 0 /\ NoneBefore(s, OPEN, k, n - 3 + 2)
        \/ \E i \in Int : /\ Find(p.buf, OPEN) = i - k + 1 /\ i - k + 1 # 0
                          /\ ComesFirst(s, OPEN, k, i) /\ i + 3 - 1 <= n
    <2>1. \/ Find(SubSeq(s, k, n), OPEN) = 0 /\ NoneBefore(s, OPEN, k, n - Len(OPEN) + 2)
          \/ \E i \in Int : /\ Find(SubSeq(s, k, n), OPEN) = i - k + 1 /\ i - k + 1 # 0
                            /\ ComesFirst(s, OPEN, k, i) /\ i + Len(OPEN) - 1 <= n
      BY ONLY <1>1, <1>2, FindInPart, s \in Seq(T), n \in 0..Len(s)
    <2> QED
      BY ONLY <1>1, <1>2, <2>1
  <1>7. \A i \in Int : i + 3 \in Int
    OBVIOUS
  <1> QED
    BY <1>4, <1>5, <1>6, <1>7

LEMMA RationaleStep ==
  ASSUME NEW T, NEW s \in Seq(T), NEW n \in 0..Len(s), NEW p, Formed(p), NEW k \in Int, NEW o \in Int,
         InRationale(p, s, n, k, o)
  PROVE  /\ Formed(InIn(p))
         /\ \/ \E j \in Int : InRationale(InIn(p), s, n, j, o) /\ n - j <= 2
            \/ \E j, e \in Int : PastTags(InIn(p), s, n, j, o, e)
  <1>1. /\ p.st = "IN" /\ p.tail = <<>> /\ p.shown = SubSeq(s, o + 3, k - 1)
        /\ ComesFirst(s, OPEN, 1, o) /\ k \in (o + 3)..(n + 1) /\ p.buf = SubSeq(s, k, n)
        /\ NoneBefore(s, CLOSE, o + 3, k)
    BY DEF InRationale
  <1>2. Len(CLOSE) = 4 /\ Len(CLOSE) \in Nat \ {0} /\ n \in Int /\ k \in Int /\ o \in Int /\ 3 \in Nat \ {0}
    BY Tags
  <1>3. 1 <= o
    BY <1>1 DEF ComesFirst
  <1>4. /\ k \in 1..(n + 1) /\ o + 3 <= k /\ o + 3 \in Int /\ n <= Len(s) /\ Len(s) \in Nat
        /\ o + 3 \in 1..(Len(s) + 1) /\ k - 1 \in (o + 3 - 1)..Len(s) /\ k - 1 + 1 = k
    BY ONLY <1>1, <1>2, <1>3, n \in 0..Len(s), s \in Seq(T)
  <1>5. p.shown \in Seq(T)
    <2>1. \A i \in (o + 3)..(k - 1) : s[i] \in T
      BY ONLY <1>2, <1>4, s \in Seq(T)
    <2>2. k - 1 \in Int
      BY <1>2
    <2>3. SubSeq(s, o + 3, k - 1) \in Seq(T)
      BY ONLY <1>4, <2>1, <2>2, SubSeqProperties
    <2> QED
      BY ONLY <1>1, <2>3
  <1>6. CASE Find(p.buf, CLOSE) = 0 /\ NoneBefore(s, CLOSE, k, n - 4 + 2)
    <2>1. InIn(p) = [p EXCEPT !.buf = Newest(p.buf, 3),
               !.shown = p.shown \o SubSeq(p.buf, 1, Len(p.buf) - Len(Newest(p.buf, 3)))]
      BY <1>1, <1>2, <1>6 DEF InIn, Kept
    <2>2. PICK q : q = InIn(p)
      OBVIOUS
    <2>3. /\ Formed(q) /\ q.st = "IN" /\ q.tail = <<>> /\ q.buf = Newest(p.buf, 3)
          /\ q.shown = p.shown \o SubSeq(p.buf, 1, Len(p.buf) - Len(Newest(p.buf, 3)))
      BY ONLY <1>1, <2>1, <2>2, Formed(p) DEF Formed
    <2>4. CASE n - k + 1 <= 3
      <3>1. Len(SubSeq(s, k, n)) = n - k + 1 /\ Newest(SubSeq(s, k, n), 3) = SubSeq(s, k, n)
        BY ONLY <1>2, <1>4, <2>4, NewestOfPart, s \in Seq(T), n \in 0..Len(s)
      <3>2. n - k + 1 - (n - k + 1) = 0 /\ 0 < 1 /\ 0 \in Int /\ 1 \in Int
        BY <1>2
      <3>3. SubSeq(p.buf, 1, 0) = <<>>
        BY ONLY <3>2, SubSeqEmpty
      <3>4. p.shown \o <<>> = p.shown
        BY ONLY <1>5
      <3>5. q.shown = p.shown /\ q.buf = p.buf
        <4>1. Newest(p.buf, 3) = p.buf /\ Len(p.buf) = n - k + 1
          BY ONLY <1>1, <3>1
        <4>2. Len(p.buf) - Len(Newest(p.buf, 3)) = 0
          BY ONLY <3>2, <4>1
        <4>3. q.shown = p.shown \o SubSeq(p.buf, 1, 0)
          BY ONLY <2>3, <4>2
        <4> QED
          BY ONLY <2>3, <3>3, <3>4, <4>1, <4>3
      <3>6. InRationale(q, s, n, k, o)
        BY ONLY <1>1, <2>3, <3>5 DEF InRationale
      <3>7. n - k <= 2
        BY ONLY <1>2, <2>4
      <3> QED
        BY ONLY <1>2, <2>2, <2>3, <3>6, <3>7
    <2>5. CASE ~(n - k + 1 <= 3)
      <3>1. /\ n - k + 1 > 3 /\ n - 3 + 1 = n - 2 /\ n - 4 + 2 = n - 2 /\ n - 2 \in (o + 3)..(n + 1)
            /\ n - (n - 2) <= 2 /\ n - 2 \in Int /\ n - 2 - 1 = n - 3 /\ n - 3 \in (k - 1)..Len(s)
        BY ONLY <1>1, <1>2, <1>4, <2>5
      <3>2. /\ Len(p.buf) = n - k + 1 /\ Newest(p.buf, 3) = SubSeq(s, n - 3 + 1, n)
            /\ Len(Newest(p.buf, 3)) = 3
            /\ SubSeq(p.buf, 1, n - k + 1 - 3) = SubSeq(s, k, n - 3)
        <4>1. Len(SubSeq(s, k, n)) = n - k + 1
          BY ONLY <1>2, <1>4, NewestOfPart, s \in Seq(T), n \in 0..Len(s)
        <4>0. n - k + 1 > 3 /\ k \in 1..(n + 1) /\ 3 \in Nat \ {0}
          BY ONLY <1>2, <1>4, <3>1
        <4>2. n - k + 1 > 3 =>
                /\ Newest(SubSeq(s, k, n), 3) = SubSeq(s, n - 3 + 1, n)
                /\ Len(Newest(SubSeq(s, k, n), 3)) = 3
                /\ SubSeq(SubSeq(s, k, n), 1, n - k + 1 - 3) = SubSeq(s, k, n - 3)
          BY ONLY <4>0, NewestOfPart, s \in Seq(T), n \in 0..Len(s)
        <4> QED
          BY ONLY <1>1, <4>0, <4>1, <4>2
      <3>3. q.buf = SubSeq(s, n - 2, n) /\ q.shown = SubSeq(s, o + 3, k - 1) \o SubSeq(s, k, n - 3)
        <4>0. PICK a \in Int : a = n - k + 1 /\ a - 3 = n - k + 1 - 3
          BY ONLY <1>2
        <4>1. Len(p.buf) = a /\ Len(Newest(p.buf, 3)) = 3
          BY ONLY <3>2, <4>0
        <4>3. q.shown = p.shown \o SubSeq(p.buf, 1, a - 3)
          BY ONLY <2>3, <4>1
        <4>4. SubSeq(p.buf, 1, a - 3) = SubSeq(p.buf, 1, n - k + 1 - 3)
          BY ONLY <4>0
        <4>2. q.shown = p.shown \o SubSeq(p.buf, 1, n - k + 1 - 3)
          BY ONLY <4>3, <4>4
        <4> QED
          BY ONLY <1>1, <2>3, <3>1, <3>2, <4>2
      <3>4. SubSeq(s, o + 3, k - 1) \o SubSeq(s, k - 1 + 1, n - 3) = SubSeq(s, o + 3, n - 3)
        BY ONLY <1>4, <3>1, ConcatAdjacentSubSeq, s \in Seq(T)
      <3>5. q.shown = SubSeq(s, o + 3, n - 2 - 1)
        BY ONLY <1>4, <3>1, <3>3, <3>4
      <3>6. NoneBefore(s, CLOSE, o + 3, n - 4 + 2)
        BY ONLY <1>1, <1>2, <1>4, <1>6, <3>1, NoneThenFirst
      <3>7. InRationale(q, s, n, n - 2, o)
        BY ONLY <1>1, <2>3, <3>1, <3>3, <3>5, <3>6 DEF InRationale
      <3> QED
        BY ONLY <2>2, <2>3, <3>1, <3>7
    <2> QED
      BY <2>4, <2>5
  <1>7. ASSUME NEW i \in Int, Find(p.buf, CLOSE) = i - k + 1, i - k + 1 # 0,
               ComesFirst(s, CLOSE, k, i), i + 4 - 1 <= n
        PROVE  Formed(InIn(p)) /\ PastTags(InIn(p), s, n, i + 4, o, i)
    <2>1. InIn(p) = [p EXCEPT !.buf = From(p.buf, i - k + 1 + 4), !.st = "POST",
                              !.shown = p.shown \o SubSeq(p.buf, 1, i - k + 1 - 1)]
      <3>1. PICK f : f = Find(p.buf, CLOSE) /\ f # 0 /\ i - k + 1 = f
        BY <1>7
      <3>2. InIn(p) = [p EXCEPT !.buf = From(p.buf, f + 4), !.st = "POST",
                                !.shown = p.shown \o SubSeq(p.buf, 1, f - 1)]
        BY <1>1, <1>2, <3>1 DEF InIn
      <3>3. From(p.buf, f + 4) = From(p.buf, i - k + 1 + 4) /\ SubSeq(p.buf, 1, f - 1) = SubSeq(p.buf, 1, i - k + 1 - 1)
        BY ONLY <3>1
      <3> QED
        BY ONLY <3>2, <3>3
    <2>2. PICK q : q = InIn(p)
      OBVIOUS
    <2>3. /\ Formed(q) /\ q.st = "POST" /\ q.tail = <<>> /\ q.buf = From(p.buf, i - k + 1 + 4)
          /\ q.shown = p.shown \o SubSeq(p.buf, 1, i - k + 1 - 1)
      BY ONLY <1>1, <2>1, <2>2, Formed(p) DEF Formed
    <2>4. k <= i
      BY <1>7 DEF ComesFirst
    <2>5. /\ i - k + 1 + 4 \in 1..(n - k + 2) /\ k + (i - k + 1 + 4) - 1 = i + 4
          /\ i + 4 \in (i + 4)..(n + 1) /\ i + 4 - 1 < i + 4 /\ i + 4 - 1 \in Int /\ i + 4 \in Int
          /\ i - k + 1 - 1 = i - k /\ i - k \in 0..(n - k + 1) /\ k + (i - k) - 1 = i - 1
          /\ i - 1 \in (k - 1)..Len(s)
      BY ONLY <1>2, <1>4, <1>7, <2>4
    <2>6. From(SubSeq(s, k, n), i - k + 1 + 4) = SubSeq(s, k + (i - k + 1 + 4) - 1, n)
      BY ONLY <1>4, <2>5, RestOfPart, s \in Seq(T), n \in 0..Len(s)
    <2>7. SubSeq(SubSeq(s, k, n), 1, i - k) = SubSeq(s, k, k + (i - k) - 1)
      BY ONLY <1>4, <2>5, BeginningOfPart, s \in Seq(T), n \in 0..Len(s)
    <2>8. SubSeq(s, o + 3, k - 1) \o SubSeq(s, k - 1 + 1, i - 1) = SubSeq(s, o + 3, i - 1)
      BY ONLY <1>4, <2>5, ConcatAdjacentSubSeq, s \in Seq(T)
    <2>9. q.buf = SubSeq(s, i + 4, n) /\ q.shown = SubSeq(s, o + 3, i - 1)
      BY ONLY <1>1, <1>4, <2>3, <2>5, <2>6, <2>7, <2>8
    <2>10. q.tail = SubSeq(s, i + 4, i + 4 - 1)
      BY ONLY <2>3, <2>5, SubSeqEmpty
    <2>11. ComesFirst(s, CLOSE, o + 3, i)
      BY ONLY <1>1, <1>2, <1>4, <1>7, NoneThenFirst
    <2>12. PastTags(q, s, n, i + 4, o, i)
      <3>1. q.st = "POST" /\ ComesFirst(s, OPEN, 1, o) /\ i + 4 \in (i + 4)..(n + 1)
        BY ONLY <1>1, <2>3, <2>5
      <3> QED
        BY ONLY <2>9, <2>10, <2>11, <3>1 DEF PastTags
    <2> QED
      BY ONLY <2>2, <2>3, <2>12
  <1>8. \/ Find(p.buf, CLOSE) = 0 /\ NoneBefore(s, CLOSE, k, n - 4 + 2)
        \/ \E i \in Int : /\ Find(p.buf, CLOSE) = i - k + 1 /\ i - k + 1 # 0
                          /\ ComesFirst(s, CLOSE, k, i) /\ i + 4 - 1 <= n
    <2>1. \/ Find(SubSeq(s, k, n), CLOSE) = 0 /\ NoneBefore(s, CLOSE, k, n - Len(CLOSE) + 2)
          \/ \E i \in Int : /\ Find(SubSeq(s, k, n), CLOSE) = i - k + 1 /\ i - k + 1 # 0
                            /\ ComesFirst(s, CLOSE, k, i) /\ i + Len(CLOSE) - 1 <= n
      BY ONLY <1>2, <1>4, FindInPart, s \in Seq(T), n \in 0..Len(s)
    <2> QED
      BY ONLY <1>1, <1>2, <2>1
  <1>9. \A i \in Int : i + 4 \in Int
    OBVIOUS
  <1> QED
    BY <1>6, <1>7, <1>8, <1>9

LEMMA PostStep ==
  ASSUME NEW T, NEW s \in Seq(T), NEW n \in 0..Len(s), NEW p, Formed(p),
         NEW k \in Int, NEW o \in Int, NEW e \in Int, PastTags(p, s, n, k, o, e)
  PROVE  PastTags(InPost(p), s, n, n + 1, o, e)
  <1>1. /\ p.st = "POST" /\ p.shown = SubSeq(s, o + 3, e - 1)
        /\ ComesFirst(s, OPEN, 1, o) /\ ComesFirst(s, CLOSE, o + 3, e)
        /\ k \in (e + 4)..(n + 1) /\ p.buf = SubSeq(s, k, n) /\ p.tail = SubSeq(s, e + 4, k - 1)
    BY DEF PastTags
  <1>2. 1 <= o /\ o + 3 <= e
    BY <1>1 DEF ComesFirst
  <1>3. InPost(p) = [p EXCEPT !.tail = p.tail \o p.buf, !.buf = <<>>]
    BY <1>1 DEF InPost
  <1>4. PICK q : q = InPost(p)
    OBVIOUS
  <1>5. q.st = "POST" /\ q.shown = p.shown /\ q.tail = p.tail \o p.buf /\ q.buf = <<>>
    BY ONLY <1>1, <1>3, <1>4, Formed(p) DEF Formed
  <1>6. /\ e + 4 \in 1..(Len(s) + 1) /\ k - 1 \in (e + 4 - 1)..Len(s) /\ n \in (k - 1)..Len(s)
        /\ k - 1 + 1 = k /\ n + 1 \in (e + 4)..(n + 1) /\ n < n + 1 /\ n + 1 - 1 = n
        /\ n \in Int /\ n + 1 \in Int
    BY ONLY <1>1, <1>2, n \in 0..Len(s), s \in Seq(T), k \in Int, o \in Int, e \in Int
  <1>7. SubSeq(s, e + 4, k - 1) \o SubSeq(s, k - 1 + 1, n) = SubSeq(s, e + 4, n)
    BY ONLY <1>6, ConcatAdjacentSubSeq, s \in Seq(T)
  <1>8. q.buf = SubSeq(s, n + 1, n)
    BY ONLY <1>5, <1>6, SubSeqEmpty
  <1>9. q.tail = SubSeq(s, e + 4, n + 1 - 1)
    BY ONLY <1>1, <1>5, <1>6, <1>7
  <1>10. /\ q.st = "POST" /\ q.shown = SubSeq(s, o + 3, e - 1) /\ ComesFirst(s, OPEN, 1, o)
         /\ ComesFirst(s, CLOSE, o + 3, e) /\ n + 1 \in (e + 4)..(n + 1)
    BY ONLY <1>1, <1>5, <1>6
  <1>11. PastTags(q, s, n, n + 1, o, e)
    BY ONLY <1>8, <1>9, <1>10 DEF PastTags
  <1> QED
    BY ONLY <1>4, <1>11

LEMMA LooksThenWaits ==
  ASSUME NEW T, NEW s \in Seq(T), NEW n \in 0..Len(s), NEW p, Formed(p), Looks(p, s, n)
  PROVE  Waits(InPost(InIn(InPre(p))), s, n)
  <1>1. ASSUME NEW q, Formed(q), NEW k \in Int, NEW o \in Int, NEW e \in Int, PastTags(q, s, n, k, o, e)
        PROVE  Waits(InPost(q), s, n)
    <2>1. PastTags(InPost(q), s, n, n + 1, o, e)
      BY <1>1, PostStep
    <2> QED
      BY <2>1 DEF Waits
  <1>2. ASSUME NEW q, Formed(q), NEW k \in Int, NEW o \in Int, InRationale(q, s, n, k, o)
        PROVE  Waits(InPost(InIn(q)), s, n)
    <2>1. /\ Formed(InIn(q))
          /\ \/ \E j \in Int : InRationale(InIn(q), s, n, j, o) /\ n - j <= 2
             \/ \E j, e \in Int : PastTags(InIn(q), s, n, j, o, e)
      BY <1>2, RationaleStep
    <2>2. CASE \E j \in Int : InRationale(InIn(q), s, n, j, o) /\ n - j <= 2
      <3>1. InPost(InIn(q)) = InIn(q)
        BY <2>2, OthersPass DEF InRationale
      <3> QED
        BY <2>2, <3>1 DEF Waits
    <2>3. CASE \E j, e \in Int : PastTags(InIn(q), s, n, j, o, e)
      BY <1>1, <2>1, <2>3
    <2> QED
      BY <2>1, <2>2, <2>3
  <1>3. CASE \E k \in Int : BeforeTag(p, s, n, k)
    <2>1. /\ Formed(InPre(p))
          /\ \/ \E j \in Int : BeforeTag(InPre(p), s, n, j) /\ n - j <= 1
             \/ \E j, o \in Int : InRationale(InPre(p), s, n, j, o)
      BY <1>3, PreStep
    <2>2. CASE \E j \in Int : BeforeTag(InPre(p), s, n, j) /\ n - j <= 1
      <3>1. InPre(p).st = "PRE"
        BY <2>2 DEF BeforeTag
      <3>2. InIn(InPre(p)) = InPre(p)
        BY <3>1, OthersPass
      <3>3. InPost(InPre(p)) = InPre(p)
        BY <3>1, OthersPass
      <3> QED
        BY <2>2, <3>2, <3>3 DEF Waits
    <2>3. CASE \E j, o \in Int : InRationale(InPre(p), s, n, j, o)
      BY <1>2, <2>1, <2>3
    <2> QED
      BY <2>1, <2>2, <2>3
  <1>4. CASE \E k, o \in Int : InRationale(p, s, n, k, o)
    <2>1. InPre(p) = p
      BY <1>4, OthersPass DEF InRationale
    <2> QED
      BY <1>2, <1>4, <2>1
  <1>5. CASE \E k, o, e \in Int : PastTags(p, s, n, k, o, e)
    <2>1. p.st = "POST"
      BY <1>5 DEF PastTags
    <2>2. InPre(p) = p /\ InIn(p) = p
      BY <2>1, OthersPass
    <2> QED
      BY <1>1, <1>5, <2>2
  <1> QED
    BY <1>3, <1>4, <1>5 DEF Looks

(* What is read off the parser's place in the reply: nothing but rationale  *)
(* has been shown, and all of it but a few symbols.                         *)
LEMMA PartsAreLong ==
  ASSUME NEW T, NEW s \in Seq(T), NEW n \in 0..Len(s), NEW k \in 1..(n + 1)
  PROVE  Len(SubSeq(s, k, n)) = n - k + 1 /\ SubSeq(s, k, n) \in Seq(T)
  <1>1. Len(OPEN) \in Nat \ {0} /\ 1 \in Int /\ 1 >= 1
    BY Tags
  <1> QED
    BY ONLY <1>1, StandsInPart, s \in Seq(T), n \in 0..Len(s), k \in 1..(n + 1)

LEMMA PrefixIs ==
  ASSUME NEW T, NEW s \in Seq(T), NEW d \in 0..Len(s), NEW c \in 0..d, NEW a \in 1..(c + 1)
  PROVE  IsPrefix(SubSeq(s, a, c), SubSeq(s, a, d))
  <1>1. /\ c \in 0..Len(s) /\ a \in 1..(d + 1) /\ c - a + 1 \in 0..(c - a + 1)
        /\ c - a + 1 \in 0..(d - a + 1) /\ c - a + 1 <= d - a + 1
    BY ONLY s \in Seq(T), d \in 0..Len(s), c \in 0..d, a \in 1..(c + 1)
  <1>2. Len(SubSeq(s, a, c)) = c - a + 1 /\ Len(SubSeq(s, a, d)) = d - a + 1
    BY ONLY <1>1, PartsAreLong, s \in Seq(T), d \in 0..Len(s), a \in 1..(c + 1)
  <1>3. SubSeq(SubSeq(s, a, c), 1, c - a + 1) = SubSeq(s, a, a + (c - a + 1) - 1)
    BY ONLY <1>1, BeginningOfPart, s \in Seq(T), a \in 1..(c + 1)
  <1>4. SubSeq(SubSeq(s, a, d), 1, c - a + 1) = SubSeq(s, a, a + (c - a + 1) - 1)
    BY ONLY <1>1, BeginningOfPart, s \in Seq(T), d \in 0..Len(s)
  <1> QED
    BY ONLY <1>1, <1>2, <1>3, <1>4 DEF IsPrefix

LEMMA FirstInBeginning ==
  ASSUME NEW T, NEW s \in Seq(T), NEW n \in 0..Len(s), NEW tag, Len(tag) \in Nat \ {0},
         NEW f \in Int, f >= 1, NEW i \in Int, ComesFirst(s, tag, f, i), i + Len(tag) - 1 <= n
  PROVE  ComesFirst(SubSeq(s, 1, n), tag, f, i)
  <1>1. Stands(s, tag, i) /\ f <= i /\ \A j \in f..(i - 1) : ~Stands(s, tag, j)
    BY DEF ComesFirst
  <1>2. \A j \in Int : j >= 1 =>
          (Stands(SubSeq(s, 1, n), tag, j) <=> Stands(s, tag, j) /\ j + Len(tag) - 1 <= n)
    BY ONLY InBeginning, s \in Seq(T), n \in 0..Len(s), Len(tag) \in Nat \ {0}
  <1>3. i >= 1 /\ \A j \in f..(i - 1) : j \in Int /\ j >= 1
    BY ONLY <1>1, f \in Int, f >= 1, i \in Int
  <1>4. Stands(SubSeq(s, 1, n), tag, i)
    BY ONLY <1>1, <1>2, <1>3, i \in Int, i + Len(tag) - 1 <= n
  <1>5. \A j \in f..(i - 1) : ~Stands(SubSeq(s, 1, n), tag, j)
    BY ONLY <1>1, <1>2, <1>3
  <1> QED
    BY ONLY <1>1, <1>4, <1>5 DEF ComesFirst

(* The rationale of a reply, or of its beginning, that has both tags.       *)
LEMMA RationaleBetween ==
  ASSUME NEW T, NEW s \in Seq(T), NEW o \in Int, NEW e \in Int,
         ComesFirst(s, OPEN, 1, o), ComesFirst(s, CLOSE, o + 3, e), e + 3 <= Len(s)
  PROVE  /\ Rationale(s) = SubSeq(s, o + 3, e - 1) /\ Closed(s)
         /\ AfterTags(s) = SubSeq(s, e + 4, Len(s))
  <1>1. o + 3 \in Int /\ Len(s) \in Nat
    OBVIOUS
  <1>2. Stands(s, CLOSE, e) /\ o + 3 <= e
    BY DEF ComesFirst
  <1>3. ~NoneBefore(s, CLOSE, o + 3, Len(s) - 2)
    <2>1. e \in (o + 3)..(Len(s) - 2 - 1)
      BY ONLY <1>1, <1>2, e \in Int, e + 3 <= Len(s)
    <2> QED
      BY <1>2, <2>1 DEF NoneBefore
  <1>4. PICK d \in Int : /\ ComesFirst(s, CLOSE, o + 3, d) /\ d + 3 <= Len(s)
                         /\ Rationale(s) = SubSeq(s, o + 3, d - 1) /\ Closed(s)
                         /\ AfterTags(s) = SubSeq(s, d + 4, Len(s))
    BY ONLY <1>3, RationaleIs, s \in Seq(T), o \in Int, ComesFirst(s, OPEN, 1, o)
  <1>5. d = e
    BY ONLY <1>1, <1>4, OneFirst, e \in Int, ComesFirst(s, CLOSE, o + 3, e)
  <1> QED
    BY ONLY <1>4, <1>5

LEMMA RationaleIsPart ==
  ASSUME NEW T, NEW s \in Seq(T)
  PROVE  Rationale(s) \in Seq(T)
  <1>0. /\ Len(OPEN) = 3 /\ Len(OPEN) \in Nat \ {0} /\ Len(CLOSE) = 4 /\ Len(s) \in Nat
    BY Tags
  <1>1. \/ Find(s, OPEN) = 0
        \/ Find(s, OPEN) \in Int /\ ComesFirst(s, OPEN, 1, Find(s, OPEN))
    BY ONLY <1>0, FindIs, s \in Seq(T)
  <1>2. CASE Find(s, OPEN) = 0
    <2>1. Rationale(s) = <<>>
      BY <1>2 DEF Rationale
    <2> QED
      BY ONLY <2>1
  <1>3. ASSUME NEW o \in Int, ComesFirst(s, OPEN, 1, o) PROVE Rationale(s) \in Seq(T)
    <2>1. 1 <= o /\ o \in 1..(Len(s) - 3 + 1)
      BY ONLY <1>0, <1>3 DEF ComesFirst, Stands
    <2>2. CASE Rationale(s) = SubSeq(s, o + 3, Len(s))
      <3>1. Len(s) \in 0..Len(s) /\ o + 3 \in 1..(Len(s) + 1)
        BY ONLY <1>0, <2>1
      <3>2. SubSeq(s, o + 3, Len(s)) \in Seq(T)
        BY ONLY <3>1, PartsAreLong, s \in Seq(T)
      <3> QED
        BY ONLY <2>2, <3>2
    <2>3. ASSUME NEW e \in Int, ComesFirst(s, CLOSE, o + 3, e), e + 3 <= Len(s),
                 Rationale(s) = SubSeq(s, o + 3, e - 1)
          PROVE  Rationale(s) \in Seq(T)
      <3>1. o + 3 <= e
        BY <2>3 DEF ComesFirst
      <3>2. e - 1 \in 0..Len(s) /\ o + 3 \in 1..(e - 1 + 1)
        BY ONLY <1>0, <2>1, <2>3, <3>1
      <3>3. SubSeq(s, o + 3, e - 1) \in Seq(T)
        BY ONLY <3>2, PartsAreLong, s \in Seq(T)
      <3> QED
        BY ONLY <2>3, <3>3
    <2> QED
      BY ONLY <1>3, <2>2, <2>3, RationaleIs, s \in Seq(T), o \in Int
  <1> QED
    BY ONLY <1>1, <1>2, <1>3

LEMMA NothingLeaks ==
  ASSUME NEW T, NEW s \in Seq(T), NEW n \in 0..Len(s), NEW p, Waits(p, s, n)
  PROVE  /\ IsPrefix(p.shown, Rationale(s))
         /\ Len(Rationale(SubSeq(s, 1, n))) - Len(p.shown) < Len(CLOSE)
  <1>1. PICK w : w = SubSeq(s, 1, n)
    OBVIOUS
  <1>2. /\ Len(OPEN) = 3 /\ Len(OPEN) \in Nat \ {0} /\ Len(CLOSE) = 4 /\ Len(CLOSE) \in Nat \ {0}
        /\ n \in Int /\ Len(s) \in Nat /\ n <= Len(s)
    BY Tags
  <1>3. /\ w \in Seq(T) /\ Len(w) = n
        /\ \A i \in Int : i >= 1 => (Stands(w, OPEN, i) <=> Stands(s, OPEN, i) /\ i + 3 - 1 <= n)
    BY ONLY <1>1, <1>2, InBeginning, s \in Seq(T), n \in 0..Len(s)
  <1>4. ASSUME NEW k \in Int, BeforeTag(p, s, n, k), n - k <= 1
        PROVE  IsPrefix(p.shown, Rationale(s)) /\ Len(Rationale(w)) - Len(p.shown) < 4
    <2>1. p.shown = <<>> /\ NoneBefore(s, OPEN, 1, k)
      BY <1>4 DEF BeforeTag
    <2>2. NoneBefore(w, OPEN, 1, n - 1)
      <3>1. ASSUME NEW j \in 1..(n - 1 - 1), Stands(w, OPEN, j) PROVE FALSE
        <4>1. j \in Int /\ j >= 1 /\ j \in 1..(k - 1)
          BY ONLY <1>2, <1>4, <3>1
        <4>2. Stands(s, OPEN, j)
          BY ONLY <1>3, <3>1, <4>1
        <4> QED
          BY ONLY <2>1, <4>1, <4>2 DEF NoneBefore
      <3> QED
        BY <3>1 DEF NoneBefore
    <2>3. Rationale(w) = <<>>
      BY ONLY <1>3, <2>2, NoRationale
    <2>4. Len(p.shown) = 0 /\ Len(Rationale(w)) = 0
      BY ONLY <2>1, <2>3
    <2>5. Rationale(s) \in Seq(T)
      BY ONLY RationaleIsPart, s \in Seq(T)
    <2>6. IsPrefix(<<>>, Rationale(s))
      <3>1. 0 < 1 /\ 0 \in Int /\ 1 \in Int /\ Len(<<>>) = 0
        OBVIOUS
      <3>2. SubSeq(<<>>, 1, 0) = <<>> /\ SubSeq(Rationale(s), 1, 0) = <<>>
        BY ONLY <3>1, SubSeqEmpty
      <3>3. 0 <= Len(Rationale(s))
        BY ONLY <2>5
      <3> QED
        BY ONLY <3>1, <3>2, <3>3 DEF IsPrefix
    <2>7. 0 - 0 < 4
      OBVIOUS
    <2> QED
      BY ONLY <2>1, <2>4, <2>6, <2>7
  <1>5. ASSUME NEW k \in Int, NEW o \in Int, InRationale(p, s, n, k, o), n - k <= 2
        PROVE  IsPrefix(p.shown, Rationale(s)) /\ Len(Rationale(w)) - Len(p.shown) < 4
    <2>1. /\ ComesFirst(s, OPEN, 1, o) /\ p.shown = SubSeq(s, o + 3, k - 1)
          /\ k \in (o + 3)..(n + 1) /\ NoneBefore(s, CLOSE, o + 3, k)
      BY <1>5 DEF InRationale
    <2>2. 1 <= o
      BY <2>1 DEF ComesFirst
    <2>3. /\ k - 1 \in 0..Len(s) /\ o + 3 \in 1..(k - 1 + 1) /\ o + 3 - 1 <= n /\ 1 >= 1 /\ 1 \in Int
          /\ Len(s) \in 0..Len(s) /\ k - 1 \in 0..Len(s) /\ o + 3 \in Int
      BY ONLY <1>2, <1>5, <2>1, <2>2
    <2>4. Len(p.shown) = k - 1 - (o + 3) + 1
      BY ONLY <2>1, <2>3, PartsAreLong, s \in Seq(T)
    <2>5. IsPrefix(p.shown, Rationale(s))
      <3>1. CASE Rationale(s) = SubSeq(s, o + 3, Len(s))
        <4>1. IsPrefix(SubSeq(s, o + 3, k - 1), SubSeq(s, o + 3, Len(s)))
          BY ONLY <2>3, PrefixIs, s \in Seq(T)
        <4> QED
          BY ONLY <2>1, <3>1, <4>1
      <3>2. ASSUME NEW e \in Int, ComesFirst(s, CLOSE, o + 3, e), e + 3 <= Len(s),
                   Rationale(s) = SubSeq(s, o + 3, e - 1)
            PROVE  IsPrefix(p.shown, Rationale(s))
        <4>1. Stands(s, CLOSE, e) /\ o + 3 <= e
          BY <3>2 DEF ComesFirst
        <4>2. ~(e \in (o + 3)..(k - 1))
          BY <2>1, <4>1 DEF NoneBefore
        <4>3. e - 1 \in 0..Len(s) /\ k - 1 \in 0..(e - 1)
          BY ONLY <1>2, <1>5, <2>2, <2>3, <3>2, <4>1, <4>2
        <4>4. IsPrefix(SubSeq(s, o + 3, k - 1), SubSeq(s, o + 3, e - 1))
          BY ONLY <2>3, <4>3, PrefixIs, s \in Seq(T)
        <4> QED
          BY ONLY <2>1, <3>2, <4>4
      <3> QED
        BY ONLY <1>5, <2>1, <3>1, <3>2, RationaleIs, s \in Seq(T)
    <2>6. ComesFirst(w, OPEN, 1, o)
      BY ONLY <1>1, <1>2, <1>5, <2>1, <2>3, FirstInBeginning, s \in Seq(T), n \in 0..Len(s)
    <2>7. CASE Rationale(w) = SubSeq(w, o + 3, n)
      <3>1. n \in 0..Len(w) /\ o + 3 \in 1..(n + 1)
        BY ONLY <1>2, <1>3, <1>5, <2>1, <2>2
      <3>2. Len(SubSeq(w, o + 3, n)) = n - (o + 3) + 1
        BY ONLY <1>3, <3>1, PartsAreLong
      <3>3. n - (o + 3) + 1 - (k - 1 - (o + 3) + 1) < 4
        BY ONLY <1>2, <1>5
      <3> QED
        BY ONLY <2>4, <2>5, <2>7, <3>2, <3>3
    <2>8. ASSUME NEW e \in Int, ComesFirst(w, CLOSE, o + 3, e), e + 3 <= n,
                 Rationale(w) = SubSeq(w, o + 3, e - 1)
          PROVE  Len(Rationale(w)) - Len(p.shown) < 4
      <3>1. o + 3 <= e
        BY <2>8 DEF ComesFirst
      <3>2. e - 1 \in 0..Len(w) /\ o + 3 \in 1..(e - 1 + 1)
        BY ONLY <1>2, <1>3, <1>5, <2>2, <2>8, <3>1
      <3>3. Len(SubSeq(w, o + 3, e - 1)) = e - 1 - (o + 3) + 1
        BY ONLY <1>3, <3>2, PartsAreLong
      <3>4. e - 1 - (o + 3) + 1 - (k - 1 - (o + 3) + 1) < 4
        BY ONLY <1>2, <1>5, <2>8
      <3> QED
        BY ONLY <2>4, <2>8, <3>3, <3>4
    <2>9. \/ Rationale(w) = SubSeq(w, o + 3, n)
          \/ \E e \in Int : /\ ComesFirst(w, CLOSE, o + 3, e) /\ e + 3 <= n
                            /\ Rationale(w) = SubSeq(w, o + 3, e - 1)
      BY ONLY <1>3, <1>5, <2>6, RationaleIs
    <2> QED
      BY ONLY <2>5, <2>7, <2>8, <2>9
  <1>6. ASSUME NEW o \in Int, NEW e \in Int, PastTags(p, s, n, n + 1, o, e)
        PROVE  IsPrefix(p.shown, Rationale(s)) /\ Len(Rationale(w)) - Len(p.shown) < 4
    <2>1. /\ ComesFirst(s, OPEN, 1, o) /\ ComesFirst(s, CLOSE, o + 3, e)
          /\ n + 1 \in (e + 4)..(n + 1) /\ p.shown = SubSeq(s, o + 3, e - 1)
      BY <1>6 DEF PastTags
    <2>2. 1 <= o /\ o + 3 <= e
      BY <2>1 DEF ComesFirst
    <2>3. /\ e + 3 <= n /\ e + 3 <= Len(s) /\ o + 3 - 1 <= n /\ e + 4 - 1 <= n
          /\ 1 \in Int /\ 1 >= 1 /\ o + 3 \in Int /\ o + 3 >= 1
          /\ e - 1 \in 0..Len(s) /\ e - 1 \in 0..(e - 1) /\ e - 1 \in 0..n /\ o + 3 \in 1..(e - 1 + 1)
      BY ONLY <1>2, <1>6, <2>1, <2>2
    <2>4. Rationale(s) = SubSeq(s, o + 3, e - 1)
      BY ONLY <1>6, <2>1, <2>3, RationaleBetween, s \in Seq(T)
    <2>5. IsPrefix(SubSeq(s, o + 3, e - 1), SubSeq(s, o + 3, e - 1))
      BY ONLY <2>3, PrefixIs, s \in Seq(T)
    <2>6. ComesFirst(w, OPEN, 1, o)
      BY ONLY <1>1, <1>2, <1>6, <2>1, <2>3, FirstInBeginning, s \in Seq(T), n \in 0..Len(s)
    <2>7. ComesFirst(w, CLOSE, o + 3, e)
      BY ONLY <1>1, <1>2, <1>6, <2>1, <2>3, FirstInBeginning, s \in Seq(T), n \in 0..Len(s)
    <2>8. Rationale(w) = SubSeq(w, o + 3, e - 1)
      BY ONLY <1>3, <1>6, <2>3, <2>6, <2>7, RationaleBetween
    <2>9. Len(SubSeq(w, o + 3, e - 1)) = e - 1 - (o + 3) + 1
      BY ONLY <1>3, <2>3, PartsAreLong
    <2>10. Len(SubSeq(s, o + 3, e - 1)) = e - 1 - (o + 3) + 1
      BY ONLY <2>3, PartsAreLong, s \in Seq(T)
    <2>11. e - 1 - (o + 3) + 1 - (e - 1 - (o + 3) + 1) < 4
      BY ONLY <1>6
    <2> QED
      BY ONLY <2>1, <2>4, <2>5, <2>8, <2>9, <2>10, <2>11
  <1>7. IsPrefix(p.shown, Rationale(s)) /\ Len(Rationale(w)) - Len(p.shown) < 4
    BY <1>4, <1>5, <1>6 DEF Waits
  <1> QED
    BY ONLY <1>1, <1>2, <1>7

(* What finish() makes of it.                                               *)
LEMMA EndsRight ==
  ASSUME NEW T, NEW s \in Seq(T), NEW p, Waits(p, s, Len(s)), NEW C, NEW all, NEW rest,
         all = IF p.st = "IN" THEN p.shown \o p.buf ELSE p.shown,
         rest = IF IsBlank(p.tail) /\ C # {} THEN CHOOSE c \in C : TRUE ELSE p.tail
  PROVE  /\ all = Rationale(s)
         /\ Closed(s) /\ ~IsBlank(AfterTags(s)) => rest = AfterTags(s)
         /\ ~Closed(s) => rest \in C \union {<<>>}
  <1>1. PICK n \in Nat : n = Len(s) /\ n \in Int
    OBVIOUS
  <1>2. p.tail = <<>> => rest \in C \union {<<>>}
    OBVIOUS
  <1>3. ASSUME NEW k \in Int, BeforeTag(p, s, n, k), n - k <= 1
        PROVE  all = Rationale(s) /\ ~Closed(s) /\ p.tail = <<>>
    <2>1. p.st = "PRE" /\ p.shown = <<>> /\ p.tail = <<>> /\ NoneBefore(s, OPEN, 1, k)
      BY <1>3 DEF BeforeTag
    <2>2. NoneBefore(s, OPEN, 1, n - 1)
      <3>1. \A j \in 1..(n - 1 - 1) : j \in 1..(k - 1)
        BY ONLY <1>1, <1>3
      <3> QED
        BY <2>1, <3>1 DEF NoneBefore
    <2>3. Rationale(s) = <<>> /\ ~Closed(s)
      BY ONLY <1>1, <2>2, NoRationale, s \in Seq(T)
    <2> QED
      BY <2>1, <2>3
  <1>4. ASSUME NEW k \in Int, NEW o \in Int, InRationale(p, s, n, k, o), n - k <= 2
        PROVE  all = Rationale(s) /\ ~Closed(s) /\ p.tail = <<>>
    <2>1. /\ ComesFirst(s, OPEN, 1, o) /\ p.shown = SubSeq(s, o + 3, k - 1) /\ p.buf = SubSeq(s, k, n)
          /\ k \in (o + 3)..(n + 1) /\ NoneBefore(s, CLOSE, o + 3, k) /\ p.st = "IN" /\ p.tail = <<>>
      BY <1>4 DEF InRationale
    <2>2. 1 <= o
      BY <2>1 DEF ComesFirst
    <2>3. ASSUME NEW e \in Int, ComesFirst(s, CLOSE, o + 3, e), e + 3 <= n PROVE FALSE
      <3>1. Stands(s, CLOSE, e) /\ o + 3 <= e
        BY <2>3 DEF ComesFirst
      <3>2. e \in (o + 3)..(k - 1)
        BY ONLY <1>1, <1>4, <2>3, <3>1
      <3> QED
        BY <2>1, <3>1, <3>2 DEF NoneBefore
    <2>4. Rationale(s) = SubSeq(s, o + 3, n) /\ ~Closed(s)
      BY ONLY <1>1, <1>4, <2>1, <2>3, RationaleIs, s \in Seq(T)
    <2>5. /\ o + 3 \in 1..(Len(s) + 1) /\ k - 1 \in (o + 3 - 1)..Len(s) /\ n \in (k - 1)..Len(s)
          /\ k - 1 + 1 = k
      BY ONLY <1>1, <1>4, <2>1, <2>2
    <2>6. SubSeq(s, o + 3, k - 1) \o SubSeq(s, k - 1 + 1, n) = SubSeq(s, o + 3, n)
      BY ONLY <2>5, ConcatAdjacentSubSeq, s \in Seq(T)
    <2>7. p.shown \o p.buf = Rationale(s)
      BY ONLY <2>1, <2>4, <2>5, <2>6
    <2> QED
      BY <2>1, <2>4, <2>7
  <1>5. ASSUME NEW o \in Int, NEW e \in Int, PastTags(p, s, n, n + 1, o, e)
        PROVE  all = Rationale(s) /\ Closed(s) /\ p.tail = AfterTags(s)
    <2>1. /\ ComesFirst(s, OPEN, 1, o) /\ ComesFirst(s, CLOSE, o + 3, e)
          /\ n + 1 \in (e + 4)..(n + 1) /\ p.shown = SubSeq(s, o + 3, e - 1)
          /\ p.tail = SubSeq(s, e + 4, n + 1 - 1) /\ p.st = "POST"
      BY <1>5 DEF PastTags
    <2>2. e + 3 <= n /\ n + 1 - 1 = n
      BY ONLY <1>1, <1>5, <2>1
    <2>3. /\ Rationale(s) = SubSeq(s, o + 3, e - 1) /\ Closed(s)
          /\ AfterTags(s) = SubSeq(s, e + 4, n)
      BY ONLY <1>1, <1>5, <2>1, <2>2, RationaleBetween, s \in Seq(T)
    <2>4. p.tail = AfterTags(s)
      BY ONLY <2>1, <2>2, <2>3
    <2> QED
      BY <2>1, <2>3, <2>4
  <1>6. ~IsBlank(p.tail) => rest = p.tail
    OBVIOUS
  <1>7. \/ all = Rationale(s) /\ ~Closed(s) /\ p.tail = <<>>
        \/ all = Rationale(s) /\ Closed(s) /\ p.tail = AfterTags(s)
    BY <1>1, <1>3, <1>4, <1>5 DEF Waits
  <1> QED
    BY ONLY <1>2, <1>6, <1>7

(* The next chunk joins what is held back.                                  *)
LEMMA ChunkJoins ==
  ASSUME NEW T, NEW s \in Seq(T), NEW n \in 0..Len(s), NEW m \in n..Len(s),
         NEW p, NEW q, Waits(p, s, n), q.st = p.st, q.shown = p.shown, q.tail = p.tail,
         q.buf = p.buf \o SubSeq(s, n + 1, m)
  PROVE  Looks(q, s, m)
  <1>1. n \in Int /\ m \in Int /\ Len(s) \in Nat /\ m \in 0..Len(s)
    OBVIOUS
  <1>2. ASSUME NEW k \in 1..(n + 1), p.buf = SubSeq(s, k, n)
        PROVE  q.buf = SubSeq(s, k, m) /\ \A f \in Int : k \in f..(n + 1) => k \in f..(m + 1)
    <2>1. k \in 1..(Len(s) + 1) /\ n \in (k - 1)..Len(s)
      BY ONLY <1>1, n \in 0..Len(s), k \in 1..(n + 1)
    <2>2. SubSeq(s, k, n) \o SubSeq(s, n + 1, m) = SubSeq(s, k, m)
      BY ONLY <2>1, ConcatAdjacentSubSeq, s \in Seq(T), m \in n..Len(s)
    <2>3. \A f \in Int : k \in f..(n + 1) => k \in f..(m + 1)
      BY ONLY <1>1, k \in 1..(n + 1), m \in n..Len(s)
    <2> QED
      BY <1>2, <2>2, <2>3
  <1>3. ASSUME NEW k \in Int, BeforeTag(p, s, n, k) PROVE BeforeTag(q, s, m, k)
    <2>1. k \in 1..(n + 1) /\ p.buf = SubSeq(s, k, n)
      BY <1>3 DEF BeforeTag
    <2>2. q.buf = SubSeq(s, k, m) /\ k \in 1..(m + 1)
      BY <1>2, <2>1
    <2> QED
      BY <1>3, <2>2 DEF BeforeTag
  <1>4. ASSUME NEW k \in Int, NEW o \in Int, InRationale(p, s, n, k, o)
        PROVE  InRationale(q, s, m, k, o)
    <2>1. /\ k \in (o + 3)..(n + 1) /\ p.buf = SubSeq(s, k, n) /\ ComesFirst(s, OPEN, 1, o)
      BY <1>4 DEF InRationale
    <2>2. 1 <= o
      BY <2>1 DEF ComesFirst
    <2>3. k \in 1..(n + 1) /\ o + 3 \in Int
      BY ONLY <1>1, <1>4, <2>1, <2>2
    <2>4. q.buf = SubSeq(s, k, m) /\ k \in (o + 3)..(m + 1)
      BY <1>2, <2>1, <2>3
    <2> QED
      BY <1>4, <2>4 DEF InRationale
  <1>5. ASSUME NEW o \in Int, NEW e \in Int, PastTags(p, s, n, n + 1, o, e)
        PROVE  PastTags(q, s, m, n + 1, o, e)
    <2>1. n + 1 \in (e + 4)..(n + 1) /\ p.buf = SubSeq(s, n + 1, n)
      BY <1>5 DEF PastTags
    <2>2. n + 1 \in 1..(n + 1) /\ e + 4 \in Int
      BY ONLY <1>1, <1>5, n \in 0..Len(s)
    <2>3. q.buf = SubSeq(s, n + 1, m) /\ n + 1 \in (e + 4)..(m + 1)
      BY <1>2, <2>1, <2>2
    <2> QED
      BY <1>5, <2>3 DEF PastTags
  <1>6. n + 1 \in Int
    BY <1>1
  <1> QED
    BY <1>3, <1>4, <1>5, <1>6 DEF Waits, Looks

StreamInv ==
  /\ reply \in Replies /\ fed \in 0..Len(reply)
  /\ st # "DONE" => Waits(Parser, reply, fed)
  /\ st = "DONE" => fed = Len(reply) /\ EndsWhole

LEMMA WaitsInState ==
  ASSUME NEW p, NEW q, NEW s, NEW n, Waits(p, s, n),
         q.st = p.st, q.buf = p.buf, q.shown = p.shown, q.tail = p.tail
  PROVE  Waits(q, s, n) /\ q.st \in {"PRE", "IN", "POST"}
  <1>1. /\ \A k \in Int : BeforeTag(p, s, n, k) => BeforeTag(q, s, n, k) /\ q.st = "PRE"
        /\ \A k, o \in Int : InRationale(p, s, n, k, o) => InRationale(q, s, n, k, o) /\ q.st = "IN"
        /\ \A k, o, e \in Int : PastTags(p, s, n, k, o, e) => PastTags(q, s, n, k, o, e) /\ q.st = "POST"
    BY DEF BeforeTag, InRationale, PastTags
  <1>2. \A o, e \in Int : PastTags(p, s, n, n + 1, o, e) => PastTags(q, s, n, n + 1, o, e) /\ q.st = "POST"
    BY DEF PastTags
  <1> QED
    BY ONLY <1>1, <1>2, Waits(p, s, n) DEF Waits

LEMMA StreamInvHolds == StreamSpec => []StreamInv
  <1>1. StreamInit => StreamInv
    <2> SUFFICES ASSUME StreamInit PROVE StreamInv
      OBVIOUS
    <2>1. reply \in Seq(Symbols) /\ reply \in Replies /\ fed = 0 /\ st = "PRE"
      BY RepliesAreSequences DEF StreamInit
    <2>2. Len(reply) \in Nat /\ 0 < 1 /\ 0 \in Int /\ 1 \in Int /\ 1 \in 1..(0 + 1) /\ 0 - 1 <= 1
      BY <2>1
    <2>3. SubSeq(reply, 1, 0) = <<>>
      BY ONLY <2>2, SubSeqEmpty
    <2>4. NoneBefore(reply, OPEN, 1, 1)
      BY DEF NoneBefore
    <2>5. BeforeTag(Parser, reply, 0, 1)
      BY <2>2, <2>3, <2>4 DEF BeforeTag, Parser, StreamInit
    <2>6. Waits(Parser, reply, fed)
      BY <2>1, <2>2, <2>5 DEF Waits
    <2> QED
      BY <2>1, <2>2, <2>6 DEF StreamInv
  <1>2. StreamInv /\ [StreamNext]_streamVars => StreamInv'
    <2> SUFFICES ASSUME StreamInv, [StreamNext]_streamVars PROVE StreamInv'
      OBVIOUS
    <2>1. reply \in Replies /\ reply \in Seq(Symbols) /\ fed \in 0..Len(reply) /\ Len(reply) \in Nat
      BY RepliesAreSequences DEF StreamInv
    <2>2. ASSUME NEW n \in 1..Len(reply), Feed(n) PROVE StreamInv'
      <3>1. /\ st # "DONE" /\ fed + n <= Len(reply) /\ fed' = fed + n /\ reply' = reply
            /\ Become(InPost(InIn(InPre([Parser EXCEPT !.buf = buf \o SubSeq(reply, fed + 1, fed + n)]))))
        BY <2>2 DEF Feed
      <3>2. PICK q : q = [Parser EXCEPT !.buf = buf \o SubSeq(reply, fed + 1, fed + n)]
        OBVIOUS
      <3>3. /\ Formed(q) /\ q.st = Parser.st /\ q.shown = Parser.shown /\ q.tail = Parser.tail
            /\ q.buf = Parser.buf \o SubSeq(reply, fed + 1, fed + n)
        BY ONLY <3>2 DEF Formed, Parser
      <3>4. fed + n \in fed..Len(reply) /\ fed + n \in 0..Len(reply)
        BY ONLY <2>1, <3>1, n \in 1..Len(reply)
      <3>5. Waits(Parser, reply, fed)
        BY <3>1 DEF StreamInv
      <3>6. Looks(q, reply, fed + n)
        BY ONLY <2>1, <3>3, <3>4, <3>5, ChunkJoins
      <3>7. PICK r : r = InPost(InIn(InPre(q)))
        OBVIOUS
      <3>8. Waits(r, reply, fed + n)
        BY ONLY <2>1, <3>3, <3>4, <3>6, <3>7, LooksThenWaits
      <3>9. st' = r.st /\ buf' = r.buf /\ shown' = r.shown /\ tail' = r.tail
        BY ONLY <3>1, <3>2, <3>7 DEF Become
      <3>10. PICK t : t = [st |-> st', buf |-> buf', shown |-> shown', tail |-> tail']
        OBVIOUS
      <3>11. t.st = r.st /\ t.buf = r.buf /\ t.shown = r.shown /\ t.tail = r.tail /\ t.st = st'
        BY ONLY <3>9, <3>10
      <3>12. Waits(t, reply, fed + n) /\ t.st \in {"PRE", "IN", "POST"}
        BY ONLY <3>8, <3>11, WaitsInState
      <3>13. Waits(Parser, reply, fed)'
        BY ONLY <3>1, <3>10, <3>12 DEF Waits, BeforeTag, InRationale, PastTags, ComesFirst, NoneBefore, Stands, Parser
      <3> QED
        BY <2>1, <3>1, <3>4, <3>11, <3>12, <3>13 DEF StreamInv
    <2>3. CASE Finish
      <3>1. /\ st # "DONE" /\ fed = Len(reply) /\ reply' = reply /\ fed' = fed /\ st' = "DONE"
            /\ shown' = IF st = "IN" THEN shown \o buf ELSE shown
            /\ tail' = IF IsBlank(tail) /\ Clip(reply) # {} THEN CHOOSE c \in Clip(reply) : TRUE ELSE tail
        BY <2>3 DEF Finish
      <3>2. Waits(Parser, reply, Len(reply))
        BY <3>1 DEF StreamInv
      <3>3. Parser.st = st /\ Parser.buf = buf /\ Parser.shown = shown /\ Parser.tail = tail
        BY DEF Parser
      <3>4. /\ shown' = Rationale(reply)
            /\ Closed(reply) /\ ~IsBlank(AfterTags(reply)) => tail' = AfterTags(reply)
            /\ ~Closed(reply) => tail' \in Clip(reply) \union {<<>>}
        <4>1. PICK C, all, rest : C = Clip(reply) /\ all = shown' /\ rest = tail'
          OBVIOUS
        <4>2. all = IF Parser.st = "IN" THEN Parser.shown \o Parser.buf ELSE Parser.shown
          BY ONLY <3>1, <3>3, <4>1
        <4>3. rest = IF IsBlank(Parser.tail) /\ C # {} THEN CHOOSE c \in C : TRUE ELSE Parser.tail
          BY ONLY <3>1, <3>3, <4>1
        <4>4. /\ all = Rationale(reply)
              /\ Closed(reply) /\ ~IsBlank(AfterTags(reply)) => rest = AfterTags(reply)
              /\ ~Closed(reply) => rest \in C \union {<<>>}
          BY ONLY <2>1, <3>2, <4>2, <4>3, EndsRight
        <4> QED
          BY ONLY <4>1, <4>4
      <3>5. EndsWhole'
        BY ONLY <3>1, <3>4 DEF EndsWhole
      <3> QED
        BY <2>1, <3>1, <3>5 DEF StreamInv
    <2>4. CASE UNCHANGED streamVars
      <3>1. Parser' = Parser /\ reply' = reply /\ fed' = fed /\ st' = st /\ shown' = shown /\ tail' = tail
        BY <2>4 DEF streamVars, Parser
      <3>2. EndsWhole' <=> EndsWhole
        BY ONLY <3>1 DEF EndsWhole
      <3>3. Waits(Parser, reply, fed)' <=> Waits(Parser, reply, fed)
        BY ONLY <3>1 DEF Waits, BeforeTag, InRationale, PastTags
      <3> QED
        BY <3>1, <3>2, <3>3 DEF StreamInv
    <2> QED
      BY <2>2, <2>3, <2>4 DEF StreamNext
  <1> QED
    BY <1>1, <1>2, PTL DEF StreamSpec

(* However the reply is cut into chunks, no character of a tag is shown, at *)
(* most the length of a tag is held back and at the end everything is where *)
(* it belongs (_RationaleStreamParser.feed and finish).                     *)
THEOREM StreamIsExact == StreamSpec => []StreamExact
  <1>1. StreamInv => StreamExact
    <2> SUFFICES ASSUME StreamInv PROVE StreamExact
      OBVIOUS
    <2>1. reply \in Seq(Symbols) /\ fed \in 0..Len(reply) /\ Len(reply) \in Nat
      BY RepliesAreSequences DEF StreamInv
    <2>2. CASE st # "DONE"
      <3>1. Waits(Parser, reply, fed) /\ Parser.shown = shown
        BY <2>2 DEF StreamInv, Parser
      <3>2. /\ IsPrefix(Parser.shown, Rationale(reply))
            /\ Len(Rationale(SubSeq(reply, 1, fed))) - Len(Parser.shown) < Len(CLOSE)
        BY ONLY <2>1, <3>1, NothingLeaks
      <3> QED
        BY <2>2, <3>1, <3>2 DEF StreamExact, NeverLeaks, HoldsBackATag, EndsWhole
    <2>3. CASE st = "DONE"
      <3>1. fed = Len(reply) /\ shown = Rationale(reply) /\ EndsWhole
        BY <2>3 DEF StreamInv, EndsWhole
      <3>2. SubSeq(reply, 1, Len(reply)) = reply
        BY ONLY <2>1
      <3>3. Rationale(reply) \in Seq(Symbols)
        BY ONLY <2>1, RationaleIsPart
      <3>4. Len(Rationale(reply)) \in Nat /\ Len(CLOSE) = 4
        BY <3>3, Tags
      <3>5. NeverLeaks
        BY ONLY <3>1, <3>4 DEF NeverLeaks, IsPrefix
      <3>6. Len(Rationale(reply)) - Len(Rationale(reply)) < 4
        BY ONLY <3>4
      <3>7. HoldsBackATag
        BY ONLY <3>1, <3>2, <3>4, <3>6 DEF HoldsBackATag
      <3> QED
        BY <3>1, <3>5, <3>7 DEF StreamExact
    <2> QED
      BY <2>2, <2>3
  <1> QED
    BY <1>1, StreamInvHolds, PTL
=============================================================================
