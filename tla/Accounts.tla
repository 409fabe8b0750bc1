------------------------------- MODULE Accounts -------------------------------
(***************************************************************************)
(* Signing in to the appview: a start mails a link and keeps one pending   *)
(* row per email; a verification redeems the row by its link or its short  *)
(* code, and logs in or provisions an account at the PDS; sessions are     *)
(* extended by requests, expire, and end with a logout.                    *)
(*                                                                         *)
(* A step is one statement, one call to the PDS or one mail: none of them  *)
(* shares a transaction with another.  Simplifications:                    *)
(*   - a code stands for the token, the short code and the mail of a       *)
(*     start, and is named after it; the id of a pending row is the start  *)
(*     that inserted it;                                                   *)
(*   - requests come from the browser that started, the device binding     *)
(*     refuses others before anything is written;                          *)
(*   - a link that is refused, or has expired, changes nothing and is      *)
(*     left out;                                                           *)
(*   - a PDS account is named after the verification that made it.         *)
(* Bounds: Starts, Verifications, MaxFaults.                               *)
(***************************************************************************)
EXTENDS Integers, FiniteSets

CONSTANTS
  Emails,         \* peppered digests
  Starts,         \* calls of start_handler
  Verifications,  \* calls of verifyLogin, verifyRegistration, verifyShortCode
  MaxTries,       \* MAX_FAILED_ATTEMPTS
  MaxSends,       \* MAX_SENDS_PER_EMAIL
  MaxAccounts,    \* MAX_PDS_ACCOUNTS
  MaxFaults,
  None

ASSUME AccountsAssumption ==
  /\ IsFiniteSet(Starts) /\ IsFiniteSet(Verifications)
  /\ {MaxTries, MaxSends} \subseteq Nat \ {0}
  /\ {MaxAccounts, MaxFaults} \subseteq Nat
  /\ None \notin Emails \cup Starts \cup Verifications

Tables == {"logins", "registrations"}

VARIABLES
  creds,    \* auth_creds: the account of an email
  pending,  \* auth_pending_logins and _registrations, a row per email
  start,    \* a call of start_handler
  verif,    \* a verification: its step, the email and the row it found
  account,  \* PDS accounts: none, there or deleted
  session,  \* the session a verification opened
  checked,  \* sessions a request has found valid and is about to extend
  tries,    \* how often a typed code was compared with a code
  redeemed, \* how often a pending row was redeemed by its short code
  faults

vars == <<creds, pending, start, verif, account, session, checked, tries, redeemed,
          faults>>
history == <<tries, redeemed>>

NoRow == [id |-> None, code |-> None, attempts |-> 0, sends |-> 0]
Unused == [step |-> "new", email |-> None, table |-> "logins", id |-> None, code |-> None]

Ended == {"refused", "dead", "done"}
Registering == {"admitted", "created", "broken", "provisioned", "stored"}

TypeOK ==
  /\ creds \in [Emails -> Verifications \cup {None}]
  /\ pending \in [Tables -> [Emails ->
       {NoRow} \cup [id : Starts, code : Starts, attempts : Nat, sends : Nat \ {0}]]]
  /\ start \in [Starts ->
       [step : {"new", "decided", "mailing", "mailed", "silent"},
        email : Emails \cup {None}, table : Tables]]
  /\ verif \in [Verifications ->
       [step : {"new", "link", "typed", "right", "exhausted", "redeemed"}
                 \cup Registering \cup Ended,
        email : Emails \cup {None}, table : Tables,
        id : Starts \cup {None}, code : Starts \cup {None}]]
  /\ account \in [Verifications -> {"none", "there", "deleted"}]
  /\ session \in [Verifications -> {"none", "open", "expired", "ended"}]
  /\ checked \in SUBSET Verifications
  /\ tries \in [Starts -> Nat]
  /\ redeemed \in [Starts -> Nat]
  /\ faults \in 0..MaxFaults

Init ==
  /\ creds = [e \in Emails |-> None]
  /\ pending = [t \in Tables |-> [e \in Emails |-> NoRow]]
  /\ start = [s \in Starts |-> [step |-> "new", email |-> None, table |-> "logins"]]
  /\ verif = [v \in Verifications |-> Unused]
  /\ account = [v \in Verifications |-> "none"]
  /\ session = [v \in Verifications |-> "none"]
  /\ checked = {}
  /\ tries = [s \in Starts |-> 0]
  /\ redeemed = [s \in Starts |-> 0]
  /\ faults = 0

-----------------------------------------------------------------------------
(***************************************************************************)
(* start_handler.                                                          *)
(***************************************************************************)
\* Which table, by whether the email has an account now.
Decide(s, e) ==
  /\ start[s].step = "new"
  /\ start' = [start EXCEPT ![s] =
       [step |-> "decided", email |-> e,
        table |-> IF creds[e] = None THEN "registrations" ELSE "logins"]]
  /\ UNCHANGED <<creds, pending, verif, account, session, checked, history, faults>>

\* _upsert_pending_send: the row keeps its id and gets a new code, and a new code
\* has its own attempts.  The mails are counted within a window that may have run
\* out.  Past the cap the answer is the same and no mail goes out, but the old link
\* is dead.
Upsert(s) ==
  LET t == start[s].table  e == start[s].email  old == pending[t][e] IN
  /\ start[s].step = "decided"
  /\ \E sends \in {1, old.sends + 1} :
       /\ pending' = [pending EXCEPT ![t][e] =
            [id |-> IF old = NoRow THEN s ELSE old.id, code |-> s,
             attempts |-> 0, sends |-> sends]]
       /\ start' = [start EXCEPT ![s].step = IF sends > MaxSends THEN "silent" ELSE "mailing"]
  /\ UNCHANGED <<creds, verif, account, session, checked, history, faults>>

SendMail(s) ==
  /\ start[s].step = "mailing"
  /\ start' = [start EXCEPT ![s].step = "mailed"]
  /\ UNCHANGED <<creds, pending, verif, account, session, checked, history, faults>>

\* 500: the row has the new code all the same.
FailMail(s) ==
  /\ start[s].step = "mailing"
  /\ faults < MaxFaults /\ faults' = faults + 1
  /\ start' = [start EXCEPT ![s].step = "silent"]
  /\ UNCHANGED <<creds, pending, verif, account, session, checked, history>>

-----------------------------------------------------------------------------
(***************************************************************************)
(* Redeeming a pending row.                                                *)
(***************************************************************************)
Moves(v, step) == verif' = [verif EXCEPT ![v].step = step]

\* Mutant: a row that is used up is emptied, to keep the count of its mails.
Empty(t, e, id) ==
  pending' = [pending EXCEPT ![t][e] =
    IF @.id = id THEN [NoRow EXCEPT !.sends = pending[t][e].sends] ELSE @]

\* DELETE ... WHERE id: whatever code the row has by now.
Delete(t, e, id) ==
  pending' = [pending EXCEPT ![t][e] = IF @.id = id THEN NoRow ELSE @]

\* A link whose code is the row's.
OpenLink(v, t, e) ==
  /\ verif[v].step = "new"
  /\ pending[t][e] # NoRow /\ start[pending[t][e].code].step = "mailed"
  /\ verif' = [verif EXCEPT ![v] =
       [step |-> "link", email |-> e, table |-> t,
        id |-> pending[t][e].id, code |-> pending[t][e].code]]
  /\ UNCHANGED <<creds, pending, start, account, session, checked, history, faults>>

\* The second statement succeeds whether or not it finds the row.
RedeemLink(v) ==
  /\ verif[v].step = "link"
  /\ Delete(verif[v].table, verif[v].email, verif[v].id)
  /\ Moves(v, "redeemed")
  /\ UNCHANGED <<creds, start, account, session, checked, history, faults>>

\* A short code is typed: right, or None for a wrong one.  The row of the logins
\* table goes first.
TypeCode(v, e) ==
  LET t == IF pending["logins"][e] # NoRow THEN "logins" ELSE "registrations"
      mailed == {s \in Starts : start[s].step = "mailed" /\ start[s].email = e}
  IN
  /\ verif[v].step = "new"
  /\ pending[t][e] # NoRow
  /\ \E code \in mailed \cup {None} :
       verif' = [verif EXCEPT ![v] = [step |-> "typed", email |-> e, table |-> t,
                                      id |-> pending[t][e].id, code |-> code]]
  /\ UNCHANGED <<creds, pending, start, account, session, checked, history, faults>>

\* Mutant: the attempts are compared before they are counted.
TryUncounted(v) ==
  LET row == pending[verif[v].table][verif[v].email] IN
  /\ verif[v].step = "typed" /\ row.id = verif[v].id
  /\ tries' = [tries EXCEPT ![row.code] = @ + 1]
  /\ pending' = [pending EXCEPT ![verif[v].table][verif[v].email].attempts = @ + 1]
  /\ Moves(v, IF row.code = verif[v].code THEN "right"
              ELSE IF row.attempts > MaxTries THEN "exhausted" ELSE "refused")
  /\ UNCHANGED <<creds, start, account, session, checked, redeemed, faults>>

\* UPDATE ... RETURNING counts the attempt and returns the code to compare with,
\* which a start may have replaced since the row was looked up.
Try(v) ==
  LET row   == pending[verif[v].table][verif[v].email]
      count == row.attempts + 1
  IN
  /\ verif[v].step = "typed" /\ row.id = verif[v].id
  /\ pending' = [pending EXCEPT ![verif[v].table][verif[v].email].attempts = count]
  /\ tries' = [tries EXCEPT ![row.code] = IF count > MaxTries THEN @ ELSE @ + 1]
  /\ Moves(v, IF count <= MaxTries /\ row.code = verif[v].code THEN "right"
              ELSE IF count >= MaxTries THEN "exhausted" ELSE "refused")
  /\ UNCHANGED <<creds, start, account, session, checked, redeemed, faults>>

\* The row that was looked up is gone.
TryGone(v) ==
  /\ verif[v].step = "typed"
  /\ pending[verif[v].table][verif[v].email].id # verif[v].id
  /\ Moves(v, "refused")
  /\ UNCHANGED <<creds, pending, start, account, session, checked, history, faults>>

Exhaust(v) ==
  /\ verif[v].step = "exhausted"
  /\ Delete(verif[v].table, verif[v].email, verif[v].id)
  /\ Moves(v, "refused")
  /\ UNCHANGED <<creds, start, account, session, checked, history, faults>>

\* Mutant: a DELETE that does not ask what it deleted.
RedeemCodeBlindly(v) ==
  /\ verif[v].step = "right"
  /\ Delete(verif[v].table, verif[v].email, verif[v].id)
  /\ redeemed' = [redeemed EXCEPT ![verif[v].id] = @ + 1]
  /\ Moves(v, "redeemed")
  /\ UNCHANGED <<creds, start, account, session, checked, tries, faults>>

\* DELETE ... RETURNING: only one of those who were right gets the row.
RedeemCode(v) ==
  LET mine == pending[verif[v].table][verif[v].email].id = verif[v].id IN
  /\ verif[v].step = "right"
  /\ Delete(verif[v].table, verif[v].email, verif[v].id)
  /\ redeemed' = [redeemed EXCEPT ![verif[v].id] = IF mine THEN @ + 1 ELSE @]
  /\ Moves(v, IF mine THEN "redeemed" ELSE "refused")
  /\ UNCHANGED <<creds, start, account, session, checked, tries, faults>>

-----------------------------------------------------------------------------
(***************************************************************************)
(* create_account and provision_pds_account.                               *)
(***************************************************************************)
Registered == {e \in Emails : creds[e] # None}

\* check_email_availability and the count of accounts.
Admit(v) ==
  /\ verif[v].step = "redeemed" /\ verif[v].table = "registrations"
  /\ Moves(v, IF \/ verif[v].email \in Registered
                 \/ MaxAccounts > 0 /\ Cardinality(Registered) >= MaxAccounts
              THEN "refused" ELSE "admitted")
  /\ UNCHANGED <<creds, pending, start, account, session, checked, history, faults>>

CreateAccount(v) ==
  /\ verif[v].step = "admitted"
  /\ account' = [account EXCEPT ![v] = "there"]
  /\ Moves(v, "created")
  /\ UNCHANGED <<creds, pending, start, session, checked, history, faults>>

\* RuntimeError or a time-out, after which the account may be there: its did is
\* not known, so there is nothing to clean up.
FailCreate(v) ==
  /\ verif[v].step = "admitted"
  /\ faults < MaxFaults /\ faults' = faults + 1
  /\ \E outcome \in {"none", "there"} : account' = [account EXCEPT ![v] = outcome]
  /\ Moves(v, "refused")
  /\ UNCHANGED <<creds, pending, start, session, checked, history>>

\* Resolution, profile, crawl, relay, handle.
Provision(v) ==
  /\ verif[v].step = "created"
  /\ Moves(v, "provisioned")
  /\ UNCHANGED <<creds, pending, start, account, session, checked, history, faults>>

\* Mutant: a failure after the creation is answered and no more.
FailProvisionOnly(v) ==
  /\ verif[v].step = "created"
  /\ faults < MaxFaults
  /\ Moves(v, "refused")
  /\ UNCHANGED <<creds, pending, start, account, session, checked, history, faults>>

FailProvision(v) ==
  /\ verif[v].step = "created"
  /\ faults < MaxFaults /\ faults' = faults + 1
  /\ Moves(v, "broken")
  /\ UNCHANGED <<creds, pending, start, account, session, checked, history>>

CleanUp(v) ==
  /\ verif[v].step = "broken"
  /\ account' = [account EXCEPT ![v] = "deleted"]
  /\ Moves(v, "refused")
  /\ UNCHANGED <<creds, pending, start, session, checked, history, faults>>

\* UNIQUE (email_hmac): of two registrations the second fails, a 500, and its PDS
\* account stays.
InsertCreds(v) ==
  LET free == verif[v].email \notin Registered IN
  /\ verif[v].step = "provisioned"
  /\ creds' = [creds EXCEPT ![verif[v].email] = IF free THEN v ELSE @]
  /\ Moves(v, IF free THEN "stored" ELSE "refused")
  /\ UNCHANGED <<pending, start, account, session, checked, history, faults>>

\* The appview dies, a statement or the clean-up fails.
Die(v) ==
  /\ verif[v].step \notin Ended \cup {"new"}
  /\ faults < MaxFaults /\ faults' = faults + 1
  /\ Moves(v, "dead")
  /\ UNCHANGED <<creds, pending, start, account, session, checked, history>>

-----------------------------------------------------------------------------
(***************************************************************************)
(* Sessions.                                                               *)
(***************************************************************************)
\* create_session_cookie, after a registration or for a row of the logins table.
OpenSession(v) ==
  /\ \/ verif[v].step = "stored"
     \/ /\ verif[v].step = "redeemed" /\ verif[v].table = "logins"
        /\ verif[v].email \in Registered
  /\ session' = [session EXCEPT ![v] = "open"]
  /\ Moves(v, "done")
  /\ UNCHANGED <<creds, pending, start, account, checked, history, faults>>

Expire(v) ==
  /\ session[v] = "open"
  /\ session' = [session EXCEPT ![v] = "expired"]
  /\ UNCHANGED <<creds, pending, start, verif, account, checked, history, faults>>

\* verify_session_token: the SELECT ...
CheckSession(v) ==
  /\ session[v] = "open"
  /\ checked' = checked \cup {v}
  /\ UNCHANGED <<creds, pending, start, verif, account, session, history, faults>>

DropExpired(v) ==
  /\ session[v] = "expired"
  /\ session' = [session EXCEPT ![v] = "ended"]
  /\ UNCHANGED <<creds, pending, start, verif, account, checked, history, faults>>

\* Mutant: an upsert, that brings an ended session back.
ExtendAnew(v) ==
  /\ v \in checked
  /\ session' = [session EXCEPT ![v] = "open"]
  /\ checked' = checked \ {v}
  /\ UNCHANGED <<creds, pending, start, verif, account, history, faults>>

\* ... and the UPDATE, of a row that may be gone or may just have expired.
ExtendSession(v) ==
  /\ v \in checked
  /\ session' = [session EXCEPT ![v] = IF @ = "ended" THEN @ ELSE "open"]
  /\ checked' = checked \ {v}
  /\ UNCHANGED <<creds, pending, start, verif, account, history, faults>>

\* Logout on one device ends the sessions of all.
Logout(v) ==
  /\ session[v] = "open"
  /\ session' = [w \in Verifications |->
       IF session[w] # "none" /\ verif[w].email = verif[v].email THEN "ended" ELSE session[w]]
  /\ UNCHANGED <<creds, pending, start, verif, account, checked, history, faults>>

-----------------------------------------------------------------------------
Starting ==
  \E s \in Starts : \/ \E e \in Emails : Decide(s, e)
                    \/ Upsert(s) \/ SendMail(s) \/ FailMail(s)

Verifying ==
  \E v \in Verifications :
    \/ \E e \in Emails : TypeCode(v, e) \/ \E t \in Tables : OpenLink(v, t, e)
    \/ RedeemLink(v) \/ Try(v) \/ TryGone(v) \/ Exhaust(v) \/ RedeemCode(v)
    \/ Admit(v) \/ CreateAccount(v) \/ FailCreate(v) \/ Provision(v) \/ FailProvision(v)
    \/ CleanUp(v) \/ InsertCreds(v) \/ OpenSession(v) \/ Die(v)

Visiting ==
  \E v \in Verifications : \/ Expire(v) \/ CheckSession(v) \/ DropExpired(v)
                           \/ ExtendSession(v) \/ Logout(v)

Next == Starting \/ Verifying \/ Visiting

Spec == Init /\ [][Next]_vars

-----------------------------------------------------------------------------
\* However many verifications run at once, and however often the row behind them
\* gets a new code meanwhile, no code is compared with more guesses than its
\* attempts allow.
GuessesBounded == \A s \in Starts : tries[s] <= MaxTries

\* A pending row is redeemed by a short code at most once, though several right
\* ones may be on their way and the code may be replaced between the steps.
RedeemedOnce == \A s \in Starts : redeemed[s] <= 1

\* Whoever is registered has an account at the PDS that the clean-up has left
\* alone.
RegisteredHasAccount ==
  \A e \in Emails : creds[e] # None => account[creds[e]] = "there"

\* A verification that ended and left an account behind lost the race for its
\* email to another, or one thing went wrong on its way: no two accounts are left
\* behind for one failure.
OrphansAccounted ==
  Cardinality({v \in Verifications :
    /\ verif[v].step \in {"refused", "dead"} /\ account[v] = "there"
    /\ creds[verif[v].email] = None}) <= faults

\* A session that was ended by a logout or dropped stays ended, although a
\* request that had found it valid extends it afterwards.
EndedStaysEnded ==
  [][\A v \in Verifications : session[v] = "ended" => session'[v] = "ended"]_vars
=============================================================================
