--------------------------- MODULE AccountsProofs ---------------------------
(***************************************************************************)
(* Safety of Accounts for every value of the constants, however many       *)
(* starts, verifications and requests interleave: what a pending row       *)
(* allows, what stands behind a registration, and how a session ends.      *)
(***************************************************************************)
EXTENDS Accounts, FiniteSetTheorems, TLAPS

(***************************************************************************)
(* Types.  Beyond TypeOK: whoever has begun knows its email, and whoever   *)
(* is about to touch a pending row knows its id.                           *)
(***************************************************************************)
Redeeming == {"link", "typed", "right", "exhausted"}

KnowsWhat ==
  /\ \A s \in Starts : start[s].step # "new" => start[s].email \in Emails
  /\ \A v \in Verifications :
       /\ verif[v].step # "new" => verif[v].email \in Emails
       /\ verif[v].step \in Redeeming => verif[v].id \in Starts

TypeInv == TypeOK /\ KnowsWhat

StartRecs == [step : {"new", "decided", "mailing", "mailed", "silent"},
              email : Emails \cup {None}, table : Tables]
VerifRecs == [step : {"new", "link", "typed", "right", "exhausted", "redeemed"}
                        \cup Registering \cup Ended,
              email : Emails \cup {None}, table : Tables,
              id : Starts \cup {None}, code : Starts \cup {None}]
PendingRows == {NoRow} \cup [id : Starts, code : Starts, attempts : Nat, sends : Nat \ {0}]

LEMMA TypeInvInit == Init => TypeInv
  BY AccountsAssumption DEF Init, TypeInv, TypeOK, KnowsWhat, NoRow, Unused, Tables,
     Redeeming, Registering, Ended

\* A step of a verification that only moves on.
LEMMA MovesKeepsTypes ==
  ASSUME TypeInv, NEW v \in Verifications, NEW step, Moves(v, step),
         verif[v].step # "new",
         step \in {"right", "exhausted", "redeemed"} \cup Registering \cup Ended,
         step \in Redeeming => verif[v].step \in Redeeming
  PROVE  /\ verif' \in [Verifications -> VerifRecs]
         /\ \A w \in Verifications :
              /\ verif'[w].step # "new" => verif'[w].email \in Emails
              /\ verif'[w].step \in Redeeming => verif'[w].id \in Starts
  <1>1. verif \in [Verifications -> VerifRecs]
    BY DEF TypeInv, TypeOK, VerifRecs
  <1>2. verif' = [verif EXCEPT ![v] = [verif[v] EXCEPT !.step = step]]
    BY DEF Moves
  <1>3. /\ [verif[v] EXCEPT !.step = step] \in VerifRecs
        /\ [verif[v] EXCEPT !.step = step].step = step
        /\ [verif[v] EXCEPT !.step = step].email = verif[v].email
        /\ [verif[v] EXCEPT !.step = step].id = verif[v].id
    BY <1>1 DEF VerifRecs
  <1>4. verif' \in [Verifications -> VerifRecs]
    BY <1>1, <1>2, <1>3
  <1> QED
    BY <1>1, <1>2, <1>3, <1>4 DEF TypeInv, KnowsWhat

\* A step of a start that only moves on.
LEMMA StartKeepsTypes ==
  ASSUME TypeInv, NEW s \in Starts, NEW step \in {"mailing", "mailed", "silent"},
         start' = [start EXCEPT ![s].step = step], start[s].step # "new"
  PROVE  /\ start' \in [Starts -> StartRecs]
         /\ \A r \in Starts : start'[r].step # "new" => start'[r].email \in Emails
  <1>1. start \in [Starts -> StartRecs]
    BY DEF TypeInv, TypeOK, StartRecs
  <1>2. start' = [start EXCEPT ![s] = [start[s] EXCEPT !.step = step]]
    OBVIOUS
  <1>3. /\ [start[s] EXCEPT !.step = step] \in StartRecs
        /\ [start[s] EXCEPT !.step = step].email = start[s].email
    BY <1>1 DEF StartRecs
  <1> QED
    BY <1>1, <1>2, <1>3 DEF TypeInv, KnowsWhat

\* A deleted row is no row.
LEMMA DeleteKeepsTypes ==
  ASSUME TypeInv, NEW t, NEW e, NEW id, Delete(t, e, id)
  PROVE  pending' \in [Tables -> [Emails -> PendingRows]]
  <1>1. pending \in [Tables -> [Emails -> PendingRows]]
    BY DEF TypeInv, TypeOK, PendingRows
  <1>2. NoRow \in PendingRows
    BY DEF PendingRows
  <1>3. pending' = [pending EXCEPT ![t][e] =
                      IF pending[t][e].id = id THEN NoRow ELSE pending[t][e]]
    BY DEF Delete
  <1> QED
    BY <1>1, <1>2, <1>3

LEMMA TypeInvStep == TypeInv /\ [Next]_vars => TypeInv'
  <1> SUFFICES ASSUME TypeInv, [Next]_vars PROVE TypeInv'
    OBVIOUS
  <1> USE AccountsAssumption
  <1>1. ASSUME NEW s \in Starts, NEW e \in Emails, Decide(s, e)
        PROVE  TypeInv'
    BY <1>1 DEF Decide, TypeInv, TypeOK, KnowsWhat, Tables, history
  <1>2. ASSUME NEW s \in Starts, Upsert(s)
        PROVE  TypeInv'
    <2>1. PICK n \in {1, pending[start[s].table][start[s].email].sends + 1} :
            /\ pending' = [pending EXCEPT ![start[s].table][start[s].email] =
                 [id |-> IF pending[start[s].table][start[s].email] = NoRow THEN s
                         ELSE pending[start[s].table][start[s].email].id,
                  code |-> s, attempts |-> 0, sends |-> n]]
            /\ start' = [start EXCEPT ![s].step = IF n > MaxSends THEN "silent" ELSE "mailing"]
      BY <1>2 DEF Upsert
    <2>2. start[s].table \in Tables /\ start[s].email \in Emails
      BY <1>2 DEF Upsert, TypeInv, TypeOK, KnowsWhat
    <2>3. pending[start[s].table][start[s].email] \in PendingRows
      BY <2>2 DEF TypeInv, TypeOK, PendingRows
    <2>4. n \in Nat \ {0}
      BY <2>1, <2>3 DEF PendingRows, NoRow
    <2>5. pending' \in [Tables -> [Emails -> PendingRows]]
      BY <2>1, <2>2, <2>3, <2>4 DEF TypeInv, TypeOK, PendingRows, NoRow
    <2>6. /\ start' \in [Starts -> StartRecs]
          /\ \A r \in Starts : start'[r].step # "new" => start'[r].email \in Emails
      BY <1>2, <2>1, StartKeepsTypes DEF Upsert
    <2>7. KnowsWhat'
      BY <1>2, <2>6 DEF Upsert, TypeInv, KnowsWhat
    <2> QED
      BY <1>2, <2>5, <2>6, <2>7 DEF Upsert, TypeInv, TypeOK, PendingRows, StartRecs, history
  <1>3. ASSUME NEW s \in Starts, SendMail(s) \/ FailMail(s)
        PROVE  TypeInv'
    <2>1. \E step \in {"mailed", "silent"} : start' = [start EXCEPT ![s].step = step]
      BY <1>3 DEF SendMail, FailMail
    <2>2. /\ start' \in [Starts -> StartRecs]
          /\ \A r \in Starts : start'[r].step # "new" => start'[r].email \in Emails
      BY <1>3, <2>1, StartKeepsTypes DEF SendMail, FailMail
    <2>3. faults' \in 0..MaxFaults
      BY <1>3 DEF SendMail, FailMail, TypeInv, TypeOK
    <2> QED
      BY <1>3, <2>2, <2>3
         DEF SendMail, FailMail, TypeInv, TypeOK, KnowsWhat, StartRecs, history
  <1>4. ASSUME NEW v \in Verifications, NEW e \in Emails, TypeCode(v, e)
        PROVE  TypeInv'
    <2>1. PICK t \in Tables, code \in Starts \cup {None} :
            /\ pending[t][e] # NoRow
            /\ verif' = [verif EXCEPT ![v] = [step |-> "typed", email |-> e, table |-> t,
                                              id |-> pending[t][e].id, code |-> code]]
      BY <1>4 DEF TypeCode, Tables
    <2>2. pending[t][e].id \in Starts
      BY <2>1 DEF TypeInv, TypeOK
    <2> QED
      BY <1>4, <2>1, <2>2 DEF TypeCode, TypeInv, TypeOK, KnowsWhat, Redeeming, history
  <1>5. ASSUME NEW v \in Verifications, NEW e \in Emails, NEW t \in Tables, OpenLink(v, t, e)
        PROVE  TypeInv'
    <2>1. pending[t][e].id \in Starts /\ pending[t][e].code \in Starts
      BY <1>5 DEF OpenLink, TypeInv, TypeOK
    <2> QED
      BY <1>5, <2>1 DEF OpenLink, TypeInv, TypeOK, KnowsWhat, Redeeming, history
  <1>6. ASSUME NEW v \in Verifications, Try(v)
        PROVE  TypeInv'
    <2> DEFINE row == pending[verif[v].table][verif[v].email]
    <2>1. /\ verif[v].table \in Tables /\ verif[v].email \in Emails
          /\ verif[v].id \in Starts
      BY <1>6 DEF Try, TypeInv, TypeOK, KnowsWhat, Redeeming
    <2>2. row \in [id : Starts, code : Starts, attempts : Nat, sends : Nat \ {0}]
      <3>1. row \in PendingRows
        BY <2>1 DEF TypeInv, TypeOK, PendingRows
      <3>2. row.id \in Starts
        BY <1>6, <2>1 DEF Try
      <3> HIDE DEF row
      <3> QED
        BY <3>1, <3>2 DEF PendingRows, NoRow
    <2>3. pending' \in [Tables -> [Emails -> PendingRows]]
      <3>1. pending' = [pending EXCEPT ![verif[v].table][verif[v].email] =
                          [row EXCEPT !.attempts = row.attempts + 1]]
        BY <1>6, <2>1 DEF Try, TypeInv, TypeOK
      <3>2. [row EXCEPT !.attempts = row.attempts + 1] \in PendingRows
        BY <2>2 DEF PendingRows
      <3> HIDE DEF row
      <3> QED
        BY <2>1, <3>1, <3>2 DEF TypeInv, TypeOK, PendingRows
    <2>4. tries' \in [Starts -> Nat]
      <3>1. PICK n \in {tries[row.code], tries[row.code] + 1} :
              tries' = [tries EXCEPT ![row.code] = n]
        BY <1>6 DEF Try
      <3>2. n \in Nat
        BY <2>2, <3>1 DEF TypeInv, TypeOK
      <3> HIDE DEF row
      <3> QED
        BY <2>2, <3>1, <3>2 DEF TypeInv, TypeOK
    <2>5. \E step \in {"right", "exhausted", "refused"} : Moves(v, step)
      BY <1>6 DEF Try
    <2>6. /\ verif' \in [Verifications -> VerifRecs]
          /\ \A w \in Verifications :
               /\ verif'[w].step # "new" => verif'[w].email \in Emails
               /\ verif'[w].step \in Redeeming => verif'[w].id \in Starts
      BY <1>6, <2>5, MovesKeepsTypes DEF Try, Redeeming, Ended
    <2> QED
      BY <1>6, <2>3, <2>4, <2>6 DEF Try, TypeInv, TypeOK, KnowsWhat, PendingRows, VerifRecs
  <1>7. ASSUME NEW v \in Verifications,
               RedeemLink(v) \/ TryGone(v) \/ Exhaust(v) \/ RedeemCode(v)
        PROVE  TypeInv'
    <2>1. \E step \in {"redeemed", "refused"} : Moves(v, step)
      BY <1>7 DEF RedeemLink, TryGone, Exhaust, RedeemCode
    <2>2. verif[v].step # "new"
      BY <1>7 DEF RedeemLink, TryGone, Exhaust, RedeemCode
    <2>3. /\ verif' \in [Verifications -> VerifRecs]
          /\ \A w \in Verifications :
               /\ verif'[w].step # "new" => verif'[w].email \in Emails
               /\ verif'[w].step \in Redeeming => verif'[w].id \in Starts
      BY <2>1, <2>2, MovesKeepsTypes DEF Redeeming, Ended
    <2>4. pending' \in [Tables -> [Emails -> PendingRows]]
      BY <1>7, DeleteKeepsTypes DEF RedeemLink, TryGone, Exhaust, RedeemCode, TypeInv, TypeOK,
         PendingRows
    <2>5. tries' \in [Starts -> Nat] /\ redeemed' \in [Starts -> Nat]
      BY <1>7 DEF RedeemLink, TryGone, Exhaust, RedeemCode, history, TypeInv, TypeOK
    <2> QED
      BY <1>7, <2>3, <2>4, <2>5
         DEF RedeemLink, TryGone, Exhaust, RedeemCode, TypeInv, TypeOK, KnowsWhat,
             PendingRows, VerifRecs, history
  <1>8. ASSUME NEW v \in Verifications,
               \/ Admit(v) \/ CreateAccount(v) \/ FailCreate(v) \/ Provision(v)
               \/ FailProvision(v) \/ CleanUp(v) \/ InsertCreds(v) \/ OpenSession(v) \/ Die(v)
        PROVE  TypeInv'
    <2>1. \E step \in Registering \cup Ended : Moves(v, step)
      BY <1>8 DEF Admit, CreateAccount, FailCreate, Provision, FailProvision, CleanUp,
         InsertCreds, OpenSession, Die, Registering, Ended
    <2>2. verif[v].step # "new"
      BY <1>8 DEF Admit, CreateAccount, FailCreate, Provision, FailProvision, CleanUp,
         InsertCreds, OpenSession, Die
    <2>3. /\ verif' \in [Verifications -> VerifRecs]
          /\ \A w \in Verifications :
               /\ verif'[w].step # "new" => verif'[w].email \in Emails
               /\ verif'[w].step \in Redeeming => verif'[w].id \in Starts
      BY <2>1, <2>2, MovesKeepsTypes DEF Redeeming, Registering, Ended
    <2>4. creds' \in [Emails -> Verifications \cup {None}]
      <3>1. UNCHANGED creds \/ InsertCreds(v)
        BY <1>8 DEF Admit, CreateAccount, FailCreate, Provision, FailProvision, CleanUp,
           OpenSession, Die
      <3> QED
        BY <3>1 DEF InsertCreds, TypeInv, TypeOK
    <2>5. account' \in [Verifications -> {"none", "there", "deleted"}]
      BY <1>8 DEF Admit, CreateAccount, FailCreate, Provision, FailProvision, CleanUp,
         InsertCreds, OpenSession, Die, TypeInv, TypeOK
    <2>6. /\ session' \in [Verifications -> {"none", "open", "expired", "ended"}]
          /\ faults' \in 0..MaxFaults
      <3>1. UNCHANGED session \/ session' = [session EXCEPT ![v] = "open"]
        BY <1>8 DEF Admit, CreateAccount, FailCreate, Provision, FailProvision, CleanUp,
           InsertCreds, OpenSession, Die
      <3>2. UNCHANGED faults \/ (faults < MaxFaults /\ faults' = faults + 1)
        BY <1>8 DEF Admit, CreateAccount, FailCreate, Provision, FailProvision, CleanUp,
           InsertCreds, OpenSession, Die
      <3>3. session' \in [Verifications -> {"none", "open", "expired", "ended"}]
        BY <3>1 DEF TypeInv, TypeOK
      <3>4. faults' \in 0..MaxFaults
        BY <3>2 DEF TypeInv, TypeOK
      <3> QED
        BY <3>3, <3>4
    <2>7. UNCHANGED <<pending, start, checked, history>>
      BY <1>8 DEF Admit, CreateAccount, FailCreate, Provision, FailProvision, CleanUp,
         InsertCreds, OpenSession, Die
    <2> QED
      BY <2>3, <2>4, <2>5, <2>6, <2>7 DEF TypeInv, TypeOK, KnowsWhat, VerifRecs, history
  <1>9. ASSUME NEW v \in Verifications,
               Expire(v) \/ CheckSession(v) \/ DropExpired(v) \/ ExtendSession(v) \/ Logout(v)
        PROVE  TypeInv'
    BY <1>9 DEF Expire, CheckSession, DropExpired, ExtendSession, Logout, TypeInv, TypeOK,
       KnowsWhat, history
  <1>10. CASE UNCHANGED vars
    BY <1>10 DEF vars, TypeInv, TypeOK, KnowsWhat
  <1> QED
    BY <1>1, <1>2, <1>3, <1>4, <1>5, <1>6, <1>7, <1>8, <1>9, <1>10
       DEF Next, Starting, Verifying, Visiting

\* TypeOK for all constants.
THEOREM TypeCorrect == Spec => []TypeOK
  BY TypeInvInit, TypeInvStep, PTL DEF Spec, TypeInv

-----------------------------------------------------------------------------
(***************************************************************************)
(* Pending rows.  A start issues one code, into one row: no two rows share *)
(* an id or a code, so what is counted on a row is counted for its code.   *)
(***************************************************************************)
Issued(s) == start[s].step \notin {"new", "decided"}

IssuedFor(s, t, e) == s \in Starts /\ Issued(s) /\ start[s].table = t /\ start[s].email = e

RowsMatch ==
  \A t \in Tables, e \in Emails : pending[t][e] # NoRow =>
    IssuedFor(pending[t][e].id, t, e) /\ IssuedFor(pending[t][e].code, t, e)

CountsMatch ==
  \A t \in Tables, e \in Emails : pending[t][e] # NoRow =>
    tries[pending[t][e].code] <= pending[t][e].attempts /\ redeemed[pending[t][e].id] = 0

Bounded ==
  \A s \in Starts :
    /\ tries[s] <= MaxTries /\ redeemed[s] <= 1
    /\ ~Issued(s) => tries[s] = 0 /\ redeemed[s] = 0

RowsInv == RowsMatch /\ CountsMatch /\ Bounded

LEMMA RowsInvInit == Init => RowsInv
  BY AccountsAssumption DEF Init, RowsInv, RowsMatch, CountsMatch, Bounded, Issued, Tables

\* A row is one of the set its type says.
LEMMA RowType ==
  ASSUME TypeInv, NEW t \in Tables, NEW e \in Emails
  PROVE  /\ pending[t][e] \in PendingRows
         /\ pending[t][e] # NoRow =>
              /\ pending[t][e].id \in Starts /\ pending[t][e].code \in Starts
              /\ pending[t][e].attempts \in Nat
         /\ pending[t][e].id \in Starts => pending[t][e] # NoRow
  <1>1. pending[t][e] \in PendingRows
    BY DEF TypeInv, TypeOK, PendingRows
  <1> QED
    BY <1>1, AccountsAssumption DEF PendingRows, NoRow

\* Rows that are left alone or deleted, while the counters stand.
LEMMA FewerRows ==
  ASSUME TypeInv, RowsInv,
         \A t \in Tables, e \in Emails : pending'[t][e] \in {pending[t][e], NoRow},
         \A s \in Starts : Issued(s) =>
           Issued(s)' /\ start'[s].table = start[s].table /\ start'[s].email = start[s].email,
         UNCHANGED history
  PROVE  RowsInv'
  <1>1. RowsMatch'
    BY DEF RowsInv, RowsMatch, IssuedFor, Issued
  <1>2. CountsMatch'
    BY DEF RowsInv, CountsMatch, history
  <1>3. Bounded'
    BY DEF RowsInv, Bounded, Issued, history
  <1> QED
    BY <1>1, <1>2, <1>3 DEF RowsInv

LEMMA Deleted ==
  ASSUME TypeInv, NEW t, NEW e, NEW id, Delete(t, e, id)
  PROVE  /\ \A u \in Tables, f \in Emails :
              /\ pending'[u][f] \in {pending[u][f], NoRow}
              /\ u = t /\ f = e /\ pending[u][f].id = id => pending'[u][f] = NoRow
  BY DEF TypeInv, TypeOK, Delete

LEMMA RowsInvStep == TypeInv /\ RowsInv /\ [Next]_vars => RowsInv'
  <1> SUFFICES ASSUME TypeInv, RowsInv, [Next]_vars PROVE RowsInv'
    OBVIOUS
  <1> USE AccountsAssumption
  <1>1. ASSUME NEW s \in Starts, NEW e \in Emails, Decide(s, e)
        PROVE  RowsInv'
    <2>1. \A r \in Starts : Issued(r) =>
            Issued(r)' /\ start'[r].table = start[r].table /\ start'[r].email = start[r].email
      BY <1>1 DEF Decide, Issued, TypeInv, TypeOK
    <2>2. \A t \in Tables, f \in Emails : pending'[t][f] \in {pending[t][f], NoRow}
      BY <1>1 DEF Decide
    <2> QED
      BY <1>1, <2>1, <2>2, FewerRows DEF Decide
  <1>2. ASSUME NEW s \in Starts, Upsert(s)
        PROVE  RowsInv'
    <2>1. PICK t \in Tables, e \in Emails :
            t = start[s].table /\ e = start[s].email /\ ~Issued(s)
      BY <1>2 DEF Upsert, TypeInv, TypeOK, KnowsWhat, Issued
    <2>10. PICK id \in Starts : id = IF pending[t][e] = NoRow THEN s ELSE pending[t][e].id
      BY RowType
    <2>2. PICK n \in {1, pending[t][e].sends + 1} :
            /\ pending' = [pending EXCEPT ![t][e] =
                             [id |-> id, code |-> s, attempts |-> 0, sends |-> n]]
            /\ start' = [start EXCEPT ![s].step = IF n > MaxSends THEN "silent" ELSE "mailing"]
      BY <1>2, <2>1, <2>10 DEF Upsert
    <2>3. /\ \A r \in Starts : start'[r].table = start[r].table
                               /\ start'[r].email = start[r].email
          /\ \A r \in Starts : Issued(r)' <=> Issued(r) \/ r = s
      BY <2>2 DEF Issued, TypeInv, TypeOK
    <2>4. /\ pending'[t][e] = [id |-> id, code |-> s, attempts |-> 0, sends |-> n]
          /\ \A u \in Tables, f \in Emails :
               u # t \/ f # e => pending'[u][f] = pending[u][f]
      BY <2>2 DEF TypeInv, TypeOK
    <2>5. /\ pending'[t][e].id = id /\ pending'[t][e].code = s
          /\ pending'[t][e].attempts = 0
      BY <2>4
    <2>6. IssuedFor(id, t, e)' /\ IssuedFor(s, t, e)' /\ redeemed[id] = 0 /\ tries[s] = 0
      <3>1. CASE pending[t][e] = NoRow
        BY <2>1, <2>10, <2>3, <3>1 DEF RowsInv, Bounded, IssuedFor
      <3>2. CASE pending[t][e] # NoRow
        BY <2>1, <2>10, <2>3, <3>2 DEF RowsInv, RowsMatch, CountsMatch, Bounded, IssuedFor
      <3> QED
        BY <3>1, <3>2
    <2>7. RowsMatch'
      <3> SUFFICES ASSUME NEW u \in Tables, NEW f \in Emails, pending'[u][f] # NoRow
                   PROVE  IssuedFor(pending[u][f].id, u, f)'
                          /\ IssuedFor(pending[u][f].code, u, f)'
        BY DEF RowsMatch
      <3>1. CASE u = t /\ f = e
        BY <2>5, <2>6, <3>1
      <3>2. CASE u # t \/ f # e
        BY <2>3, <2>4, <3>2 DEF RowsInv, RowsMatch, IssuedFor
      <3> QED
        BY <3>1, <3>2
    <2>8. CountsMatch'
      <3> SUFFICES ASSUME NEW u \in Tables, NEW f \in Emails, pending'[u][f] # NoRow
                   PROVE  /\ tries'[pending'[u][f].code] <= pending'[u][f].attempts
                          /\ redeemed'[pending'[u][f].id] = 0
        BY DEF CountsMatch
      <3>1. tries' = tries /\ redeemed' = redeemed
        BY <1>2 DEF Upsert, history
      <3>2. CASE u = t /\ f = e
        BY <2>5, <2>6, <3>1, <3>2
      <3>3. CASE u # t \/ f # e
        BY <2>4, <3>1, <3>3 DEF RowsInv, CountsMatch
      <3> QED
        BY <3>2, <3>3
    <2>9. Bounded'
      BY <1>2, <2>3 DEF RowsInv, Bounded, Upsert, history
    <2> QED
      BY <2>7, <2>8, <2>9 DEF RowsInv
  <1>3. ASSUME NEW s \in Starts, SendMail(s) \/ FailMail(s)
        PROVE  RowsInv'
    <2>1. \A r \in Starts : Issued(r) =>
            Issued(r)' /\ start'[r].table = start[r].table /\ start'[r].email = start[r].email
      <3>1. \E step \in {"mailed", "silent"} : start' = [start EXCEPT ![s].step = step]
        BY <1>3 DEF SendMail, FailMail
      <3>2. start \in [Starts -> StartRecs]
        BY DEF TypeInv, TypeOK, StartRecs
      <3> QED
        BY <3>1, <3>2 DEF Issued, StartRecs
    <2>2. \A t \in Tables, f \in Emails : pending'[t][f] \in {pending[t][f], NoRow}
      BY <1>3 DEF SendMail, FailMail
    <2> QED
      BY <1>3, <2>1, <2>2, FewerRows DEF SendMail, FailMail
  <1>4. ASSUME NEW v \in Verifications, Try(v)
        PROVE  RowsInv'
    <2> DEFINE t == verif[v].table
               e == verif[v].email
               code == pending[t][e].code
               count == pending[t][e].attempts + 1
    <2>1. /\ t \in Tables /\ e \in Emails /\ pending[t][e] # NoRow
          /\ code \in Starts /\ count \in Nat
      <3>1. t \in Tables /\ e \in Emails /\ verif[v].id \in Starts
        BY <1>4 DEF Try, TypeInv, TypeOK, KnowsWhat, Redeeming
      <3>2. pending[t][e].id \in Starts
        BY <1>4, <3>1 DEF Try
      <3> QED
        BY <3>1, <3>2, RowType
    <2>2. /\ pending'[t][e] # NoRow => /\ pending'[t][e].id = pending[t][e].id
                                       /\ pending'[t][e].code = code
                                       /\ pending'[t][e].attempts = count
          /\ \A u \in Tables, f \in Emails :
               u # t \/ f # e => pending'[u][f] = pending[u][f]
      <3>1. pending' = [pending EXCEPT ![t][e] = [pending[t][e] EXCEPT !.attempts = count]]
        BY <1>4, <2>1 DEF Try, TypeInv, TypeOK
      <3>2. pending[t][e] \in [id : Starts, code : Starts, attempts : Nat, sends : Nat \ {0}]
        BY <2>1, RowType DEF PendingRows
      <3>3. /\ [pending[t][e] EXCEPT !.attempts = count].id = pending[t][e].id
            /\ [pending[t][e] EXCEPT !.attempts = count].code = code
            /\ [pending[t][e] EXCEPT !.attempts = count].attempts = count
        BY <3>2
      <3> HIDE DEF t, e, code, count
      <3> QED
        BY <2>1, <3>1, <3>3 DEF TypeInv, TypeOK
    <2>3. /\ tries' = [tries EXCEPT ![code] = IF count > MaxTries THEN @ ELSE @ + 1]
          /\ UNCHANGED <<start, redeemed>>
      BY <1>4 DEF Try
    <2>4. /\ Issued(code) /\ tries[code] <= pending[t][e].attempts
          /\ redeemed[pending[t][e].id] = 0
      BY <2>1 DEF RowsInv, RowsMatch, CountsMatch, IssuedFor
    <2>5. /\ tries[code] \in Nat /\ tries' \in [Starts -> Nat]
          /\ tries'[code] <= count /\ tries'[code] <= MaxTries
          /\ \A s \in Starts : s # code => tries'[s] = tries[s]
      <3>1. tries[code] <= MaxTries
        BY <2>1 DEF RowsInv, Bounded
      <3>2. pending[t][e].attempts \in Nat
        BY <2>1, RowType
      <3> HIDE DEF t, e, code
      <3> QED
        BY <2>1, <2>3, <2>4, <3>1, <3>2 DEF TypeInv, TypeOK
    <2>6. \A u \in Tables, f \in Emails :
            pending[u][f] # NoRow /\ pending[u][f].code = code => u = t /\ f = e
      BY <2>1 DEF RowsInv, RowsMatch, IssuedFor
    <2>7. pending[t][e].code = code
      OBVIOUS
    <2> HIDE DEF t, e, code, count
    <2>8. RowsMatch'
      BY <2>1, <2>2, <2>3, <2>7 DEF RowsInv, RowsMatch, IssuedFor, Issued
    <2>9. CountsMatch'
      <3> SUFFICES ASSUME NEW u \in Tables, NEW f \in Emails, pending'[u][f] # NoRow
                   PROVE  /\ tries'[pending'[u][f].code] <= pending'[u][f].attempts
                          /\ redeemed'[pending'[u][f].id] = 0
        BY DEF CountsMatch
      <3>1. CASE u = t /\ f = e
        BY <2>2, <2>3, <2>4, <2>5, <3>1
      <3>2. CASE u # t \/ f # e
        <4>1. pending[u][f] # NoRow /\ pending[u][f].code \in Starts
              /\ pending[u][f].code # code /\ pending'[u][f] = pending[u][f]
          BY <2>2, <2>6, <3>2, RowType
        <4> QED
          BY <2>3, <2>5, <4>1 DEF RowsInv, CountsMatch
      <3> QED
        BY <3>1, <3>2
    <2>10. Bounded'
      BY <2>3, <2>4, <2>5 DEF RowsInv, Bounded, Issued
    <2> QED
      BY <2>8, <2>9, <2>10 DEF RowsInv
  <1>5. ASSUME NEW v \in Verifications, RedeemLink(v) \/ Exhaust(v)
        PROVE  RowsInv'
    <2>1. Delete(verif[v].table, verif[v].email, verif[v].id)
          /\ UNCHANGED <<start, history>>
      BY <1>5 DEF RedeemLink, Exhaust
    <2> QED
      BY <2>1, Deleted, FewerRows DEF Issued
  <1>6. ASSUME NEW v \in Verifications, RedeemCode(v)
        PROVE  RowsInv'
    <2> DEFINE t == verif[v].table
               e == verif[v].email
               id == verif[v].id
    <2>1. t \in Tables /\ e \in Emails /\ id \in Starts
      BY <1>6 DEF RedeemCode, TypeInv, TypeOK, KnowsWhat, Redeeming
    <2>2. /\ Delete(t, e, id) /\ UNCHANGED <<start, tries>>
          /\ redeemed' = [redeemed EXCEPT ![id] = IF pending[t][e].id = id THEN @ + 1 ELSE @]
      BY <1>6 DEF RedeemCode
    <2>3. \A u \in Tables, f \in Emails :
            /\ pending'[u][f] \in {pending[u][f], NoRow}
            /\ u = t /\ f = e /\ pending[u][f].id = id => pending'[u][f] = NoRow
      BY <2>2, Deleted
    <2> HIDE DEF t, e, id
    <2>4. CASE pending[t][e].id # id
      <3>1. redeemed' = redeemed
        BY <2>1, <2>2, <2>4 DEF TypeInv, TypeOK
      <3> QED
        BY <2>2, <2>3, <3>1, FewerRows DEF Issued, history
    <2>5. CASE pending[t][e].id = id
      <3>1. pending[t][e] # NoRow
        BY <2>1, <2>5, RowType
      <3>2. IssuedFor(id, t, e) /\ redeemed[id] = 0
        BY <2>1, <2>5, <3>1 DEF RowsInv, RowsMatch, CountsMatch
      <3>3. /\ redeemed'[id] = 1
            /\ \A s \in Starts : s # id => redeemed'[s] = redeemed[s]
        BY <2>1, <2>2, <2>5, <3>2 DEF TypeInv, TypeOK
      <3>4. RowsMatch'
        BY <2>2, <2>3 DEF RowsInv, RowsMatch, IssuedFor, Issued
      <3>5. CountsMatch'
        <4> SUFFICES ASSUME NEW u \in Tables, NEW f \in Emails, pending'[u][f] # NoRow
                     PROVE  /\ tries'[pending'[u][f].code] <= pending'[u][f].attempts
                            /\ redeemed'[pending'[u][f].id] = 0
          BY DEF CountsMatch
        <4>1. pending'[u][f] = pending[u][f] /\ pending[u][f] # NoRow
          BY <2>3
        <4>2. IssuedFor(pending[u][f].id, u, f) /\ redeemed[pending[u][f].id] = 0
              /\ tries[pending[u][f].code] <= pending[u][f].attempts
          BY <4>1 DEF RowsInv, RowsMatch, CountsMatch
        <4>3. pending[u][f].id # id
          BY <2>3, <3>2, <4>1, <4>2 DEF IssuedFor
        <4> QED
          BY <2>2, <3>3, <4>1, <4>2, <4>3 DEF IssuedFor
      <3>6. Bounded'
        BY <2>2, <3>2, <3>3 DEF RowsInv, Bounded, IssuedFor, Issued
      <3> QED
        BY <3>4, <3>5, <3>6 DEF RowsInv
    <2> QED
      BY <2>4, <2>5
  <1>7. CASE UNCHANGED <<pending, start, history>>
    BY <1>7, FewerRows DEF Issued
  <1>8. ASSUME NEW v \in Verifications,
               \/ TryGone(v) \/ Admit(v) \/ CreateAccount(v) \/ FailCreate(v) \/ Provision(v)
               \/ FailProvision(v) \/ CleanUp(v) \/ InsertCreds(v) \/ OpenSession(v) \/ Die(v)
               \/ (\E e \in Emails : TypeCode(v, e) \/ \E t \in Tables : OpenLink(v, t, e))
        PROVE  RowsInv'
    BY <1>7, <1>8 DEF TryGone, Admit, CreateAccount, FailCreate, Provision, FailProvision,
       CleanUp, InsertCreds, OpenSession, Die, TypeCode, OpenLink
  <1>9. ASSUME Visiting
        PROVE  RowsInv'
    BY <1>7, <1>9 DEF Visiting, Expire, CheckSession, DropExpired, ExtendSession, Logout
  <1>10. CASE UNCHANGED vars
    BY <1>7, <1>10 DEF vars, history
  <1> QED
    BY <1>1, <1>2, <1>3, <1>4, <1>5, <1>6, <1>8, <1>9, <1>10 DEF Next, Starting, Verifying

\* GuessesBounded for all constants: rotating the code of a row, or guessing at it
\* from many requests at once, never buys a guess.
THEOREM GuessesAreBounded == Spec => []GuessesBounded
  <1>1. RowsInv => GuessesBounded
    BY DEF RowsInv, Bounded, GuessesBounded
  <1> QED
    BY <1>1, TypeInvInit, TypeInvStep, RowsInvInit, RowsInvStep, PTL DEF Spec

\* RedeemedOnce for all constants: the DELETE that returns its row has one winner.
THEOREM CodesAreRedeemedOnce == Spec => []RedeemedOnce
  <1>1. RowsInv => RedeemedOnce
    BY DEF RowsInv, Bounded, RedeemedOnce
  <1> QED
    BY <1>1, TypeInvInit, TypeInvStep, RowsInvInit, RowsInvStep, PTL DEF Spec

-----------------------------------------------------------------------------
(***************************************************************************)
(* What stands behind a registration, and behind a session.                *)
(***************************************************************************)
Before == {"new", "redeemed", "admitted"} \cup Redeeming
Backed == {"created", "provisioned", "stored"}
Keeping == {"stored", "done", "dead"}

AccountInv ==
  /\ \A v \in Verifications :
       /\ verif[v].step \in Before => account[v] = "none"
       /\ verif[v].step \in Backed => account[v] = "there"
  /\ \A e \in Emails : creds[e] # None =>
       account[creds[e]] = "there" /\ verif[creds[e]].step \in Keeping

SessionInv ==
  /\ \A v \in Verifications : session[v] # "none" => verif[v].step = "done"
  /\ \A v \in checked : session[v] # "none"

LEMMA AccountInvInit == Init => AccountInv /\ SessionInv
  BY DEF Init, AccountInv, SessionInv, Unused, Backed

Steps == {"redeemed", "right", "exhausted", "done"} \cup Registering \cup Ended

LEMMA MovesOnly ==
  ASSUME TypeInv, NEW v \in Verifications, NEW step, Moves(v, step)
  PROVE  /\ \A w \in Verifications \ {v} : verif'[w] = verif[w]
         /\ verif'[v].step = step /\ verif'[v].email = verif[v].email
  <1>1. verif \in [Verifications -> VerifRecs]
    BY DEF TypeInv, TypeOK, VerifRecs
  <1> QED
    BY <1>1 DEF Moves, VerifRecs

\* Steps that neither make, nor clean up, nor store an account.
LEMMA AccountsLeftAlone ==
  ASSUME TypeInv, AccountInv, UNCHANGED <<creds, account>>, NEW v \in Verifications,
         \A w \in Verifications \ {v} : verif'[w] = verif[w],
         verif'[v].step \in Before => verif[v].step \in Before,
         verif'[v].step \in Backed => verif[v].step \in Backed,
         verif[v].step \in Keeping => verif'[v].step \in Keeping
  PROVE  AccountInv'
  <1>1. \A w \in Verifications :
          /\ verif'[w].step \in Before => verif[w].step \in Before
          /\ verif'[w].step \in Backed => verif[w].step \in Backed
          /\ verif[w].step \in Keeping => verif'[w].step \in Keeping
    OBVIOUS
  <1>2. \A e \in Emails : creds[e] # None => creds[e] \in Verifications
    BY DEF TypeInv, TypeOK
  <1> QED
    BY <1>1, <1>2 DEF AccountInv

LEMMA AccountInvStep == TypeInv /\ AccountInv /\ [Next]_vars => AccountInv'
  <1> SUFFICES ASSUME TypeInv, AccountInv, [Next]_vars PROVE AccountInv'
    OBVIOUS
  <1> USE AccountsAssumption
  <1>1. CASE UNCHANGED <<creds, account, verif>>
    BY <1>1 DEF AccountInv
  <1>2. ASSUME NEW v \in Verifications,
               \E e \in Emails : TypeCode(v, e) \/ \E t \in Tables : OpenLink(v, t, e)
        PROVE  AccountInv'
    <2>1. /\ UNCHANGED <<creds, account>> /\ verif[v].step = "new"
          /\ \A w \in Verifications \ {v} : verif'[w] = verif[w]
          /\ verif'[v].step \in {"typed", "link"}
      BY <1>2 DEF TypeCode, OpenLink, TypeInv, TypeOK
    <2> QED
      BY <2>1, AccountsLeftAlone DEF Before, Redeeming, Backed, Keeping
  <1>3. ASSUME NEW v \in Verifications,
               RedeemLink(v) \/ Try(v) \/ TryGone(v) \/ Exhaust(v) \/ RedeemCode(v) \/ Admit(v)
        PROVE  AccountInv'
    <2>1. /\ UNCHANGED <<creds, account>> /\ verif[v].step \in Before
          /\ \E step \in {"redeemed", "right", "exhausted", "refused", "admitted"} : Moves(v, step)
      BY <1>3 DEF RedeemLink, Try, TryGone, Exhaust, RedeemCode, Admit, Before, Redeeming
    <2>2. /\ \A w \in Verifications \ {v} : verif'[w] = verif[w]
          /\ verif'[v].step \in {"redeemed", "right", "exhausted", "refused", "admitted"}
      BY <2>1, MovesOnly
    <2> QED
      BY <2>1, <2>2, AccountsLeftAlone DEF Before, Redeeming, Backed, Keeping
  <1>4. ASSUME NEW v \in Verifications, CreateAccount(v) \/ FailCreate(v)
        PROVE  AccountInv'
    <2>1. PICK a \in {"none", "there"}, step \in {"created", "refused"} :
            /\ account' = [account EXCEPT ![v] = a] /\ Moves(v, step)
            /\ step = "created" => a = "there"
      BY <1>4 DEF CreateAccount, FailCreate
    <2>2. verif[v].step = "admitted" /\ UNCHANGED creds
      BY <1>4 DEF CreateAccount, FailCreate
    <2>3. \A e \in Emails : creds[e] # v
      BY <2>2 DEF AccountInv, Keeping
    <2>4. /\ \A w \in Verifications \ {v} : verif'[w] = verif[w] /\ account'[w] = account[w]
          /\ verif'[v].step = step /\ account'[v] = a
      BY <2>1, MovesOnly DEF TypeInv, TypeOK
    <2>5. \A e \in Emails : creds[e] # None => creds[e] \in Verifications \ {v}
      BY <2>3 DEF TypeInv, TypeOK
    <2> QED
      BY <2>1, <2>2, <2>4, <2>5 DEF AccountInv, Before, Redeeming, Backed
  <1>5. ASSUME NEW v \in Verifications, Provision(v) \/ FailProvision(v) \/ OpenSession(v) \/ Die(v)
        PROVE  AccountInv'
    <2>1. PICK step \in {"provisioned", "broken", "done", "dead"} :
            /\ Moves(v, step) /\ UNCHANGED <<creds, account>>
            /\ step \in {"provisioned", "broken"} => verif[v].step = "created"
            /\ step = "done" => verif[v].step \in {"stored", "redeemed"}
      BY <1>5 DEF Provision, FailProvision, OpenSession, Die
    <2>2. /\ \A w \in Verifications \ {v} : verif'[w] = verif[w]
          /\ verif'[v].step = step
      BY <2>1, MovesOnly
    <2> QED
      BY <2>1, <2>2, AccountsLeftAlone DEF Before, Redeeming, Backed, Keeping
  <1>6. ASSUME NEW v \in Verifications, CleanUp(v)
        PROVE  AccountInv'
    <2>1. \A e \in Emails : creds[e] # v
      BY <1>6 DEF CleanUp, AccountInv, Keeping
    <2>2. /\ \A w \in Verifications \ {v} : verif'[w] = verif[w] /\ account'[w] = account[w]
          /\ verif'[v].step = "refused" /\ UNCHANGED creds
      BY <1>6, MovesOnly DEF CleanUp, TypeInv, TypeOK
    <2>3. \A e \in Emails : creds[e] # None => creds[e] \in Verifications \ {v}
      BY <2>1 DEF TypeInv, TypeOK
    <2> QED
      BY <2>2, <2>3 DEF AccountInv, Before, Redeeming, Backed
  <1>7. ASSUME NEW v \in Verifications, InsertCreds(v)
        PROVE  AccountInv'
    <2>1. PICK step \in {"stored", "refused"} :
            /\ Moves(v, step) /\ UNCHANGED account /\ verif[v].step = "provisioned"
            /\ \A e \in Emails : creds'[e] = creds[e] \/ (creds'[e] = v /\ step = "stored")
      BY <1>7 DEF InsertCreds, TypeInv, TypeOK
    <2>2. /\ \A w \in Verifications \ {v} : verif'[w] = verif[w]
          /\ verif'[v].step = step
      BY <2>1, MovesOnly
    <2>3. account[v] = "there" /\ \A e \in Emails : creds[e] # v
      BY <2>1 DEF AccountInv, Backed, Keeping
    <2>4. \A e \in Emails : creds'[e] # None =>
            \/ creds'[e] = v /\ step = "stored"
            \/ creds'[e] = creds[e] /\ creds[e] \in Verifications \ {v}
      BY <2>1, <2>3 DEF TypeInv, TypeOK
    <2>5. \A w \in Verifications : account'[w] = account[w]
      BY <2>1
    <2>6. \A w \in Verifications :
            /\ verif'[w].step \in Before => account'[w] = "none"
            /\ verif'[w].step \in Backed => account'[w] = "there"
      BY <2>1, <2>2, <2>3, <2>5 DEF AccountInv, Before, Redeeming
    <2>7. \A e \in Emails : creds'[e] # None =>
            account'[creds'[e]] = "there" /\ verif'[creds'[e]].step \in Keeping
      BY <2>2, <2>3, <2>4, <2>5 DEF AccountInv, Keeping
    <2> QED
      BY <2>6, <2>7 DEF AccountInv
  <1>8. CASE Starting \/ Visiting \/ UNCHANGED vars
    BY <1>1, <1>8 DEF Starting, Decide, Upsert, SendMail, FailMail, Visiting, Expire,
       CheckSession, DropExpired, ExtendSession, Logout, vars
  <1> QED
    BY <1>2, <1>3, <1>4, <1>5, <1>6, <1>7, <1>8 DEF Next, Verifying

\* RegisteredHasAccount for all constants: the clean-up never hits an account whose
\* credentials are stored.
THEOREM RegistrationsAreBacked == Spec => []RegisteredHasAccount
  <1>1. AccountInv => RegisteredHasAccount
    BY DEF AccountInv, RegisteredHasAccount
  <1> QED
    BY <1>1, TypeInvInit, TypeInvStep, AccountInvInit, AccountInvStep, PTL DEF Spec

-----------------------------------------------------------------------------
\* Whoever has a session is done, so nobody opens one twice.
LEMMA SessionInvStep ==
  TypeInv /\ SessionInv /\ [Next]_vars =>
    SessionInv' /\ \A v \in Verifications : session[v] = "ended" => session'[v] = "ended"
  <1> SUFFICES ASSUME TypeInv, SessionInv, [Next]_vars
               PROVE  /\ SessionInv'
                      /\ \A v \in Verifications : session[v] = "ended" => session'[v] = "ended"
    OBVIOUS
  <1>1. ASSUME NEW v \in Verifications, UNCHANGED <<session, checked>>,
               verif[v].step # "done",
               \A w \in Verifications \ {v} : verif'[w] = verif[w]
        PROVE  /\ SessionInv'
               /\ \A w \in Verifications : session[w] = "ended" => session'[w] = "ended"
    BY <1>1 DEF SessionInv, TypeInv, TypeOK
  <1>2. ASSUME NEW v \in Verifications,
               \E e \in Emails : TypeCode(v, e) \/ \E t \in Tables : OpenLink(v, t, e)
        PROVE  /\ SessionInv'
               /\ \A w \in Verifications : session[w] = "ended" => session'[w] = "ended"
    <2>1. /\ UNCHANGED <<session, checked>> /\ verif[v].step = "new"
          /\ \A w \in Verifications \ {v} : verif'[w] = verif[w]
      BY <1>2 DEF TypeCode, OpenLink, TypeInv, TypeOK
    <2> QED
      BY <1>1, <2>1
  <1>3. ASSUME NEW v \in Verifications,
               \/ RedeemLink(v) \/ Try(v) \/ TryGone(v) \/ Exhaust(v) \/ RedeemCode(v)
               \/ Admit(v) \/ CreateAccount(v) \/ FailCreate(v) \/ Provision(v)
               \/ FailProvision(v) \/ CleanUp(v) \/ InsertCreds(v) \/ Die(v)
        PROVE  /\ SessionInv'
               /\ \A w \in Verifications : session[w] = "ended" => session'[w] = "ended"
    <2>1. /\ UNCHANGED <<session, checked>> /\ verif[v].step # "done"
          /\ \E step \in Steps : Moves(v, step)
      BY <1>3 DEF RedeemLink, Try, TryGone, Exhaust, RedeemCode, Admit, CreateAccount,
         FailCreate, Provision, FailProvision, CleanUp, InsertCreds, Die, Ended, Registering,
         Steps
    <2> QED
      BY <1>1, <2>1, MovesOnly
  <1>4. ASSUME NEW v \in Verifications, OpenSession(v)
        PROVE  /\ SessionInv'
               /\ \A w \in Verifications : session[w] = "ended" => session'[w] = "ended"
    <2>1. /\ session[v] = "none" /\ UNCHANGED checked
          /\ session' = [session EXCEPT ![v] = "open"]
      BY <1>4 DEF OpenSession, SessionInv
    <2>2. /\ \A w \in Verifications \ {v} : verif'[w] = verif[w]
          /\ verif'[v].step = "done"
      BY <1>4, MovesOnly DEF OpenSession
    <2> QED
      BY <2>1, <2>2 DEF SessionInv, TypeInv, TypeOK
  <1>5. ASSUME NEW v \in Verifications,
               Expire(v) \/ CheckSession(v) \/ DropExpired(v) \/ ExtendSession(v) \/ Logout(v)
        PROVE  /\ SessionInv'
               /\ \A w \in Verifications : session[w] = "ended" => session'[w] = "ended"
    BY <1>5 DEF Expire, CheckSession, DropExpired, ExtendSession, Logout, SessionInv, TypeInv,
       TypeOK
  <1>6. CASE Starting \/ UNCHANGED vars
    BY <1>6 DEF Starting, Decide, Upsert, SendMail, FailMail, vars, SessionInv
  <1> QED
    BY <1>2, <1>3, <1>4, <1>5, <1>6 DEF Next, Verifying, Visiting

\* EndedStaysEnded for all constants: an UPDATE does not bring a row back, and no
\* verification opens a second session.
THEOREM SessionsEndForGood == Spec => EndedStaysEnded
  <1>1. TypeInv /\ SessionInv /\ [Next]_vars =>
          [\A v \in Verifications : session[v] = "ended" => session'[v] = "ended"]_vars
    BY SessionInvStep
  <1>2. TypeInv /\ SessionInv /\ [Next]_vars => SessionInv'
    BY SessionInvStep
  <1> QED
    BY <1>1, <1>2, TypeInvInit, TypeInvStep, AccountInvInit, PTL DEF Spec, EndedStaysEnded

-----------------------------------------------------------------------------
(***************************************************************************)
(* Accounts left behind.                                                   *)
(***************************************************************************)
Orphans ==
  {v \in Verifications :
    /\ verif[v].step \in {"refused", "dead"} /\ account[v] = "there"
    /\ creds[verif[v].email] = None}

LEMMA OneMore ==
  ASSUME NEW S, NEW T, NEW x, IsFiniteSet(T), S \subseteq T \cup {x}
  PROVE  Cardinality(S) <= Cardinality(T) + 1 /\ Cardinality(S) \in Nat
  <1>1. IsFiniteSet(T \cup {x}) /\ Cardinality(T \cup {x}) <= Cardinality(T) + 1
    <2>1. Cardinality(T) \in Nat
      BY FS_CardinalityType
    <2>2. /\ IsFiniteSet(T \cup {x})
          /\ Cardinality(T \cup {x}) = IF x \in T THEN Cardinality(T) ELSE Cardinality(T) + 1
      BY FS_AddElement, Zenon
    <2> QED
      BY <2>1, <2>2
  <1>2. IsFiniteSet(S) /\ Cardinality(S) <= Cardinality(T \cup {x})
    BY <1>1, FS_Subset
  <1> QED
    BY <1>1, <1>2, FS_CardinalityType

\* Only a step that counts as a failure adds an account that is left behind, and
\* it adds one.
LEMMA OrphansStep ==
  TypeInv /\ TypeInv' /\ AccountInv /\ [Next]_vars =>
    \/ Orphans' \subseteq Orphans /\ faults' \in {faults, faults + 1}
    \/ (\E v \in Verifications : Orphans' \subseteq Orphans \cup {v}) /\ faults' = faults + 1
  <1> SUFFICES ASSUME TypeInv, TypeInv', AccountInv, [Next]_vars
               PROVE  \/ Orphans' \subseteq Orphans /\ faults' \in {faults, faults + 1}
                      \/ /\ \E v \in Verifications : Orphans' \subseteq Orphans \cup {v}
                         /\ faults' = faults + 1
    OBVIOUS
  <1> DEFINE Accounted ==
               \/ Orphans' \subseteq Orphans /\ faults' \in {faults, faults + 1}
               \/ /\ \E v \in Verifications : Orphans' \subseteq Orphans \cup {v}
                  /\ faults' = faults + 1
  <1>1. ASSUME NEW v \in Verifications,
               \A w \in Verifications \ {v} : verif'[w] = verif[w] /\ account'[w] = account[w],
               \A e \in Emails : creds'[e] = None => creds[e] = None
        PROVE  Orphans' \subseteq Orphans \cup {v}
    BY <1>1 DEF Orphans, TypeInv, KnowsWhat
  <1>2. ASSUME NEW v \in Verifications, FailCreate(v) \/ Die(v)
        PROVE  Accounted
    <2>1. \A w \in Verifications \ {v} : verif'[w] = verif[w] /\ account'[w] = account[w]
      BY <1>2, MovesOnly DEF FailCreate, Die, TypeInv, TypeOK
    <2> QED
      BY <1>1, <1>2, <2>1 DEF FailCreate, Die
  <1>3. ASSUME NEW v \in Verifications,
               \/ RedeemLink(v) \/ Try(v) \/ TryGone(v) \/ Exhaust(v) \/ RedeemCode(v)
               \/ Admit(v) \/ CreateAccount(v) \/ Provision(v) \/ FailProvision(v)
               \/ CleanUp(v) \/ InsertCreds(v) \/ OpenSession(v)
        PROVE  Accounted
    <2>1. /\ \E step \in Steps : Moves(v, step)
          /\ faults' \in {faults, faults + 1}
      BY <1>3 DEF RedeemLink, Try, TryGone, Exhaust, RedeemCode, Admit, CreateAccount,
         Provision, FailProvision, CleanUp, InsertCreds, OpenSession, Steps, Ended,
         Registering
    <2>2. \A w \in Verifications \ {v} : verif'[w] = verif[w] /\ account'[w] = account[w]
      <3>1. \A w \in Verifications \ {v} : account'[w] = account[w]
        BY <1>3 DEF RedeemLink, Try, TryGone, Exhaust, RedeemCode, Admit, CreateAccount,
           Provision, FailProvision, CleanUp, InsertCreds, OpenSession, TypeInv, TypeOK
      <3> QED
        BY <2>1, <3>1, MovesOnly
    <2>3. \A e \in Emails : creds'[e] = None => creds[e] = None
      <3>1. UNCHANGED creds \/ InsertCreds(v)
        BY <1>3 DEF RedeemLink, Try, TryGone, Exhaust, RedeemCode, Admit, CreateAccount,
           Provision, FailProvision, CleanUp, OpenSession
      <3> QED
        BY <3>1, AccountsAssumption DEF InsertCreds, TypeInv, TypeOK
    <2>4. v \notin Orphans'
      <3>1. CASE RedeemLink(v) \/ Try(v) \/ TryGone(v) \/ Exhaust(v) \/ RedeemCode(v) \/ Admit(v)
        <4>1. verif[v].step \in Before /\ account'[v] = account[v]
          BY <3>1 DEF RedeemLink, Try, TryGone, Exhaust, RedeemCode, Admit, Before, Redeeming
        <4> QED
          BY <4>1 DEF Orphans, AccountInv
      <3>2. CASE CreateAccount(v) \/ Provision(v) \/ FailProvision(v) \/ OpenSession(v)
        <4>1. \E step \in {"created", "provisioned", "broken", "done"} : Moves(v, step)
          BY <3>2 DEF CreateAccount, Provision, FailProvision, OpenSession
        <4> QED
          BY <4>1, MovesOnly DEF Orphans
      <3>3. CASE CleanUp(v)
        BY <3>3 DEF CleanUp, Orphans, TypeInv, TypeOK
      <3>4. CASE InsertCreds(v)
        <4>1. verif'[v].email = verif[v].email /\ verif[v].email \in Emails
          BY <3>4, MovesOnly DEF InsertCreds, TypeInv, KnowsWhat
        <4>2. creds'[verif[v].email] # None
          BY <3>4, <4>1, AccountsAssumption DEF InsertCreds, Registered, TypeInv, TypeOK
        <4> QED
          BY <4>1, <4>2 DEF Orphans
      <3> QED
        BY <1>3, <3>1, <3>2, <3>3, <3>4
    <2> QED
      BY <1>1, <2>1, <2>2, <2>3, <2>4
  <1>4. ASSUME NEW v \in Verifications,
               \E e \in Emails : TypeCode(v, e) \/ \E t \in Tables : OpenLink(v, t, e)
        PROVE  Accounted
    <2>1. /\ UNCHANGED <<creds, account, faults>>
          /\ \A w \in Verifications \ {v} : verif'[w] = verif[w]
          /\ verif'[v].step \in {"typed", "link"}
      BY <1>4 DEF TypeCode, OpenLink, TypeInv, TypeOK
    <2> QED
      BY <1>1, <2>1 DEF Orphans
  <1>5. CASE Starting \/ Visiting \/ UNCHANGED vars
    <2>1. UNCHANGED <<creds, account, verif>> /\ faults' \in {faults, faults + 1}
      BY <1>5 DEF Starting, Decide, Upsert, SendMail, FailMail, Visiting, Expire, CheckSession,
         DropExpired, ExtendSession, Logout, vars
    <2> QED
      BY <2>1 DEF Orphans
  <1> QED
    BY <1>2, <1>3, <1>4, <1>5 DEF Next, Verifying

\* OrphansAccounted for all constants: at most one PDS account is left without a
\* registration for each thing that went wrong.
THEOREM OrphansAreAccounted == Spec => []OrphansAccounted
  <1>1. Init => OrphansAccounted
    <2> SUFFICES ASSUME Init PROVE OrphansAccounted
      OBVIOUS
    <2>1. Orphans = {} /\ faults = 0
      BY DEF Init, Orphans
    <2> QED
      BY <2>1, FS_EmptySet DEF OrphansAccounted, Orphans
  <1>2. TypeInv /\ TypeInv' /\ AccountInv /\ OrphansAccounted /\ [Next]_vars => OrphansAccounted'
    <2> SUFFICES ASSUME TypeInv, TypeInv', AccountInv, OrphansAccounted, [Next]_vars
                 PROVE  OrphansAccounted'
      OBVIOUS
    <2>1. /\ IsFiniteSet(Orphans) /\ Cardinality(Orphans) \in Nat
          /\ Cardinality(Orphans) <= faults
      <3>1. IsFiniteSet(Orphans)
        BY AccountsAssumption, FS_Subset DEF Orphans
      <3> QED
        BY <3>1, FS_CardinalityType DEF OrphansAccounted, Orphans
    <2>2. faults \in Nat
      BY AccountsAssumption DEF TypeInv, TypeOK
    <2>3. CASE Orphans' \subseteq Orphans /\ faults' \in {faults, faults + 1}
      <3>1. Cardinality(Orphans') <= Cardinality(Orphans) /\ Cardinality(Orphans') \in Nat
        BY <2>1, <2>3, FS_Subset, FS_CardinalityType
      <3>2. Cardinality(Orphans') <= faults'
        BY <2>1, <2>2, <2>3, <3>1
      <3> QED
        BY <3>2 DEF OrphansAccounted, Orphans
    <2>4. ASSUME NEW v \in Verifications, Orphans' \subseteq Orphans \cup {v},
                 faults' = faults + 1
          PROVE  OrphansAccounted'
      <3>1. Cardinality(Orphans') <= Cardinality(Orphans) + 1 /\ Cardinality(Orphans') \in Nat
        BY <2>1, <2>4, OneMore
      <3>2. Cardinality(Orphans') <= faults'
        BY <2>1, <2>2, <2>4, <3>1
      <3> QED
        BY <3>2 DEF OrphansAccounted, Orphans
    <2> QED
      BY <2>3, <2>4, OrphansStep
  <1> QED
    BY <1>1, <1>2, TypeInvInit, TypeInvStep, AccountInvInit, AccountInvStep, PTL DEF Spec
=============================================================================
