--------------------------- MODULE CustomerApiProofs ---------------------------
(***************************************************************************)
(* Proofs about CustomerApi: side by side, the services do what each of    *)
(* them does alone, so what is proved of Sessions holds of the API; and    *)
(* what Profiles and Accounts promise is proved here.                      *)
(***************************************************************************)
EXTENDS CustomerApi, TLAPS

AuthProofs == INSTANCE SessionsProofs WITH audit <- authAudit, pc <- authPc, resp <- authResp

-----------------------------------------------------------------------------
(* Profiles: the inductive invariant. *)

Row(c) == [email |-> email[c], name |-> name[c]]

\* A customer appears with the insert of its request.
RegisteredInv ==
  \A r \in Requests :
    /\ profilePc[r] \in {"idle", "insert"} => email[r] = None
    /\ profilePc[r] = "insert" => asked[r].customer = r

\* Who has not been overtaken still knows the row.
ReadInv ==
  \A r \in Requests : profilePc[r] = "put" =>
    /\ email[asked[r].customer] # None /\ read[r].email # None
    /\ r \notin overtaken => read[r] = Row(asked[r].customer)

UsersInv ==
  /\ Users!TypeOK /\ RegisteredInv /\ ReadInv
  /\ Users!OneCustomerPerEmail /\ Users!ProfileAsAsked

LEMMA InitUsersInv == Users!Init => UsersInv
<1> SUFFICES ASSUME Users!Init PROVE UsersInv
  OBVIOUS
<1> USE EarlierAssumption DEF Users!Init, Users!Customers, Users!Nobody
<1>1. Users!TypeOK
  <2>1. \A c \in Requests \cup {Earlier} :
          [email |-> email[c], name |-> name[c]] \in Users!Profile
    BY DEF Users!Profile
  <2>2. wanted \in [Requests \cup {Earlier} -> Users!Profile]
    BY <2>1
  <2> QED
    BY <2>2 DEF Users!TypeOK, Users!Profile
<1>2. RegisteredInv /\ ReadInv
  BY DEF RegisteredInv, ReadInv
<1>3. Users!OneCustomerPerEmail /\ Users!ProfileAsAsked
  BY DEF Users!OneCustomerPerEmail, Users!ProfileAsAsked
<1> QED
  BY <1>1, <1>2, <1>3 DEF UsersInv

LEMMA RegisterFindStep ==
  ASSUME UsersInv, NEW r \in Requests, Users!RegisterFind(r)
  PROVE  UsersInv'
<1> USE DEF UsersInv, Users!RegisterFind, Users!Answer, Users!Goto, Users!columns, Users!history
<1>1. PICK e \in Emails :
        asked' = [asked EXCEPT ![r] = [customer |-> r, email |-> e, name |-> r]]
  OBVIOUS
<1>2. Users!TypeOK'
  BY <1>1 DEF Users!TypeOK, Users!Customers
<1>3. RegisteredInv' /\ ReadInv'
  BY <1>1 DEF Users!TypeOK, RegisteredInv, ReadInv, Row
<1>4. Users!OneCustomerPerEmail' /\ Users!ProfileAsAsked'
  BY DEF Users!OneCustomerPerEmail, Users!ProfileAsAsked
<1> QED
  BY <1>2, <1>3, <1>4

LEMMA RegisterStep ==
  ASSUME UsersInv, NEW r \in Requests, Users!Register(r)
  PROVE  UsersInv'
<1> USE DEF UsersInv, Users!Register, Users!Goto, Users!Answer, Users!columns
<1>1. r \in Users!Customers /\ email[r] = None /\ asked[r].customer = r
  BY DEF RegisteredInv, Users!Customers
<1>2. CASE Users!Free(asked[r].email, r)
  <2>1. [email |-> asked[r].email, name |-> asked[r].name] \in Users!Profile
    BY DEF Users!TypeOK, Users!Profile
  <2>2. Users!TypeOK'
    <3>1. wanted' \in [Users!Customers -> Users!Profile]
      BY <1>1, <1>2, <2>1 DEF Users!TypeOK
    <3>2. /\ email' \in [Users!Customers -> Emails \cup {None}]
          /\ name' \in [Users!Customers -> Users!Customers \cup {None}]
          /\ outbox' \subseteq Users!Customers
      BY <1>1, <1>2 DEF Users!TypeOK
    <3> QED
      BY <1>2, <3>1, <3>2 DEF Users!TypeOK
  <2>3. RegisteredInv'
    BY <1>2 DEF Users!TypeOK, Users!Customers, RegisteredInv
  <2>4. ReadInv'
    BY <1>1, <1>2 DEF Users!TypeOK, ReadInv, Row
  <2>5. Users!OneCustomerPerEmail'
    BY <1>1, <1>2 DEF Users!TypeOK, Users!Free, Users!OneCustomerPerEmail
  <2>6. Users!ProfileAsAsked'
    BY <1>1, <1>2 DEF Users!TypeOK, Users!ProfileAsAsked
  <2> QED
    BY <2>2, <2>3, <2>4, <2>5, <2>6
<1>3. CASE ~Users!Free(asked[r].email, r)
  <2>1. /\ UNCHANGED <<email, name, outbox, wanted, stale, overtaken, asked, read, profileAudit>>
        /\ profilePc' = [profilePc EXCEPT ![r] = "answered"]
        /\ profileResp' = [profileResp EXCEPT ![r] = "refused"]
    BY <1>3
  <2>2. Users!TypeOK'
    BY <2>1 DEF Users!TypeOK
  <2>3. RegisteredInv'
    BY <2>1 DEF Users!TypeOK, RegisteredInv
  <2>4. ReadInv'
    BY <2>1 DEF Users!TypeOK, ReadInv, Row
  <2>5. Users!OneCustomerPerEmail' /\ Users!ProfileAsAsked'
    BY <2>1 DEF Users!OneCustomerPerEmail, Users!ProfileAsAsked
  <2> QED
    BY <2>2, <2>3, <2>4, <2>5
<1> QED
  BY <1>2, <1>3

LEMMA PutFindStep ==
  ASSUME UsersInv, NEW r \in Requests, Users!PutFind(r)
  PROVE  UsersInv'
<1> USE DEF UsersInv, Users!PutFind, Users!Goto, Users!columns, Users!history
<1>1. PICK c \in Users!Customers, e \in Emails \cup {None}, n \in {None, r} :
        /\ email[c] # None
        /\ asked' = [asked EXCEPT ![r] = [customer |-> c, email |-> e, name |-> n]]
        /\ read' = [read EXCEPT ![r] = Row(c)]
  BY DEF Row
<1>2. Row(c) \in Users!Profile
  BY DEF Row, Users!TypeOK, Users!Profile
<1>3. Users!TypeOK'
  BY <1>1, <1>2 DEF Users!TypeOK, Users!Customers
<1>4. RegisteredInv' /\ ReadInv'
  BY <1>1 DEF Users!TypeOK, RegisteredInv, ReadInv, Row
<1>5. Users!OneCustomerPerEmail' /\ Users!ProfileAsAsked'
  BY DEF Users!OneCustomerPerEmail, Users!ProfileAsAsked
<1> QED
  BY <1>3, <1>4, <1>5

LEMMA PutStep ==
  ASSUME UsersInv, NEW r \in Requests, Users!Put(r)
  PROVE  UsersInv'
<1> DEFINE c == asked[r].customer
           new == [email |-> Users!Given(asked[r].email, wanted[c].email),
                   name |-> Users!Given(asked[r].name, wanted[c].name)]
<1> USE DEF UsersInv
<1>1. PICK answer \in {"ok", "error", "refused"} : Users!Answer(r, answer)
  BY DEF Users!Put
<1>2. c \in Users!Customers /\ UNCHANGED <<outbox, profileAudit, asked, read>>
  BY DEF Users!Put, Users!TypeOK
<1>3. CASE ~Users!Free(Users!Filled(r).email, c)
  BY <1>1, <1>2, <1>3 DEF Users!Put, Users!Answer, Users!Goto, Users!history, Users!TypeOK,
     RegisteredInv, ReadInv, Row, Users!OneCustomerPerEmail, Users!ProfileAsAsked
<1>4. CASE Users!Free(Users!Filled(r).email, c)
  <2>1. /\ email' = [email EXCEPT ![c] = Users!Filled(r).email]
        /\ name' = [name EXCEPT ![c] = Users!Filled(r).name]
        /\ wanted' = [wanted EXCEPT ![c] = new]
        /\ overtaken' = overtaken \cup Users!Others(r)
        /\ stale' = IF r \in overtaken THEN stale \cup {c} ELSE stale
    BY <1>2, <1>4 DEF Users!Put, Users!TypeOK
  <2>2. Users!Filled(r) \in Users!Profile /\ new \in Users!Profile /\ Users!Filled(r).email # None
    <3>1. read[r] \in Users!Profile /\ wanted[c] \in Users!Profile /\ read[r].email # None
      BY <1>2 DEF Users!TypeOK, Users!Put, ReadInv
    <3> QED
      BY <3>1 DEF Users!Filled, Users!Given, Users!TypeOK, Users!Profile
  <2>3. Users!TypeOK'
    <3>1. email' \in [Users!Customers -> Emails \cup {None}]
      BY <1>2, <2>1, <2>2 DEF Users!TypeOK, Users!Profile
    <3>2. name' \in [Users!Customers -> Users!Customers \cup {None}]
      BY <1>2, <2>1, <2>2 DEF Users!TypeOK, Users!Profile
    <3>3. wanted' \in [Users!Customers -> Users!Profile]
      BY <1>2, <2>1, <2>2 DEF Users!TypeOK
    <3>4. overtaken' \subseteq Requests /\ stale' \subseteq Users!Customers
      BY <1>2, <2>1 DEF Users!TypeOK, Users!Others
    <3> QED
      BY <1>1, <1>2, <3>1, <3>2, <3>3, <3>4 DEF Users!TypeOK, Users!Answer, Users!Goto
  <2>4. profilePc'[r] = "answered" /\ \A q \in Requests \ {r} : profilePc'[q] = profilePc[q]
    BY <1>1 DEF Users!Answer, Users!Goto, Users!TypeOK
  <2>5. RegisteredInv'
    <3>1. email[c] # None
      BY DEF Users!Put, ReadInv
    <3> QED
      BY <1>2, <2>1, <2>4, <3>1 DEF RegisteredInv, Users!TypeOK, Users!Customers
  <2>6. ReadInv'
    <3> SUFFICES ASSUME NEW q \in Requests, profilePc'[q] = "put"
                 PROVE  /\ email'[asked[q].customer] # None /\ read[q].email # None
                        /\ q \notin overtaken' => read[q] = Row(asked[q].customer)'
      BY <1>2 DEF ReadInv, Row
    <3>1. q # r /\ profilePc[q] = "put" /\ asked[q].customer \in Users!Customers
      BY <2>4 DEF Users!TypeOK
    <3>2. CASE asked[q].customer = c
      BY <1>2, <2>1, <2>2, <3>1, <3>2 DEF ReadInv, Users!Others, Users!TypeOK
    <3>3. CASE asked[q].customer # c
      BY <1>2, <2>1, <3>1, <3>3 DEF ReadInv, Row, Users!TypeOK
    <3> QED
      BY <3>2, <3>3
  <2>7. Users!OneCustomerPerEmail'
    BY <1>2, <1>4, <2>1 DEF Users!Free, Users!OneCustomerPerEmail, Users!TypeOK
  <2>8. Users!ProfileAsAsked'
    <3> SUFFICES ASSUME NEW d \in Users!Customers \ stale'
                 PROVE  wanted'[d] = [email |-> email'[d], name |-> name'[d]]
      BY DEF Users!ProfileAsAsked
    <3>1. CASE d = c
      <4>1. wanted[c] = Row(c) /\ read[r] = Row(c)
        BY <2>1, <3>1 DEF Users!ProfileAsAsked, ReadInv, Row, Users!Put
      <4>2. new = [email |-> Users!Filled(r).email, name |-> Users!Filled(r).name]
        BY <4>1 DEF Users!Filled
      <4> QED
        BY <1>2, <2>1, <3>1, <4>2 DEF Users!TypeOK
    <3>2. CASE d # c
      BY <1>2, <2>1, <3>2 DEF Users!ProfileAsAsked, Users!TypeOK
    <3> QED
      BY <3>1, <3>2
  <2> QED
    BY <2>3, <2>5, <2>6, <2>7, <2>8
<1> QED
  BY <1>3, <1>4

LEMMA UsersStep == UsersInv /\ [Users!Next]_(Users!vars) => UsersInv'
<1> SUFFICES ASSUME UsersInv, [Users!Next]_(Users!vars) PROVE UsersInv'
  OBVIOUS
<1>1. ASSUME NEW r \in Requests, Users!RecordAudit(r) \/ Users!RequestFails(r) PROVE UsersInv'
  <2>1. /\ UNCHANGED <<email, name, outbox, asked, read, wanted, overtaken, stale>>
        /\ profilePc' = [profilePc EXCEPT ![r] = "answered"]
        /\ profileResp' \in [Requests -> {"none", "ok", "refused", "error"}]
        /\ profileAudit' \subseteq Requests
    BY <1>1 DEF UsersInv, Users!TypeOK, Users!RecordAudit, Users!RequestFails, Users!Answer,
       Users!Goto, Users!columns, Users!history
  <2>2. Users!TypeOK'
    BY <2>1 DEF UsersInv, Users!TypeOK
  <2>3. RegisteredInv' /\ ReadInv'
    BY <2>1 DEF UsersInv, Users!TypeOK, RegisteredInv, ReadInv, Row
  <2>4. Users!OneCustomerPerEmail' /\ Users!ProfileAsAsked'
    BY <2>1 DEF UsersInv, Users!OneCustomerPerEmail, Users!ProfileAsAsked
  <2> QED
    BY <2>2, <2>3, <2>4 DEF UsersInv
<1>2. CASE UNCHANGED Users!vars
  BY <1>2 DEF UsersInv, Users!vars, Users!columns, Users!history, Users!TypeOK, RegisteredInv,
     ReadInv,
     Row, Users!OneCustomerPerEmail, Users!ProfileAsAsked
<1> QED
  BY <1>1, <1>2, RegisterFindStep, RegisterStep, PutFindStep, PutStep DEF Users!Next, Users!Step

LEMMA UsersInvariance == Users!Spec => []UsersInv
  BY InitUsersInv, UsersStep, PTL DEF Users!Spec

-----------------------------------------------------------------------------
(* Accounts: the inductive invariant. *)

\* An account appears with the insert of its request.
CreatedInv == \A r \in Requests : accountPc[r] \in {"idle", "insert"} => status[r] = "ABSENT"

\* One row at most is still to come for an account without a slip, and it is about its last change.
AuditInv ==
  \A a \in Banking!Ids \ slip :
    /\ \A r, q \in Banking!Unaudited(a) : r = q
    /\ \A r \in Banking!Unaudited(a) : did[r].status = status[a]

BankingInv ==
  /\ Banking!TypeOK /\ CreatedInv /\ AuditInv
  /\ Banking!OneOpenPerCurrency /\ Banking!LastAuditTells

LEMMA InitBankingInv == Banking!Init => BankingInv
<1> SUFFICES ASSUME Banking!Init PROVE BankingInv
  OBVIOUS
<1>1. Banking!TypeOK
  BY DEF Banking!Init, Banking!TypeOK, Banking!Ids, Banking!Status
<1>2. CreatedInv /\ AuditInv /\ Banking!OneOpenPerCurrency /\ Banking!LastAuditTells
  BY EarlierAssumption DEF Banking!Init, CreatedInv, AuditInv, Banking!Unaudited,
     Banking!OneOpenPerCurrency, Banking!Open,
     Banking!LastAuditTells, Banking!Ids
<1> QED
  BY <1>1, <1>2 DEF BankingInv

-----------------------------------------------------------------------------
(* What the audit rows need to know of a change. *)

LEMMA AccountChangedAudits ==
  ASSUME BankingInv, NEW r \in Requests, accountPc[r] \in {"idle", "insert"},
         NEW a \in Banking!Ids, NEW to \in Banking!Status,
         status' = [status EXCEPT ![a] = to], lastAudit' = lastAudit, Banking!Changed(r, a, to)
  PROVE  AuditInv' /\ Banking!LastAuditTells'
<1> USE DEF BankingInv, Banking!TypeOK
<1>1. did'[r] = [account |-> a, status |-> to] /\ \A q \in Requests \ {r} : did'[q] = did[q]
  BY DEF Banking!Changed
<1>2. accountPc'[r] = "audit" /\ \A q \in Requests \ {r} : accountPc'[q] = accountPc[q]
  BY DEF Banking!Changed, Banking!Goto
<1>3. /\ Banking!Unaudited(a)' = Banking!Unaudited(a) \cup {r}
      /\ \A b \in Banking!Ids \ {a} : Banking!Unaudited(b)' = Banking!Unaudited(b)
  BY <1>1, <1>2 DEF Banking!Unaudited
<1>4. SUFFICES ASSUME NEW b \in Banking!Ids \ slip'
               PROVE  /\ \A q, s \in Banking!Unaudited(b)' : q = s
                      /\ \A q \in Banking!Unaudited(b)' : did'[q].status = status'[b]
                      /\ Banking!Unaudited(b)' = {} => lastAudit'[b] = status'[b]
  BY DEF AuditInv, Banking!LastAuditTells
<1>5. CASE b = a
  <2>1. Banking!Unaudited(b)' = {r}
    BY <1>3, <1>5 DEF Banking!Changed
  <2> QED
    BY <1>1, <1>5, <2>1
<1>6. CASE b # a
  <2>1. b \in Banking!Ids \ slip /\ r \notin Banking!Unaudited(b) /\ status'[b] = status[b]
    BY <1>6 DEF Banking!Changed, Banking!Unaudited
  <2>2. \A q \in Banking!Unaudited(b) : did'[q] = did[q]
    BY <1>1, <2>1 DEF Banking!Unaudited
  <2> QED
    BY <1>3, <1>6, <2>1, <2>2 DEF AuditInv, Banking!LastAuditTells
<1> QED
  BY <1>5, <1>6

LEMMA AccountChangedTypes ==
  ASSUME BankingInv, NEW r \in Requests, NEW a \in Banking!Ids, a = r \/ status[a] # "ABSENT",
         NEW to \in Banking!Status, status' = [status EXCEPT ![a] = to], UNCHANGED <<lastAudit, currency>>,
         Banking!Changed(r, a, to)
  PROVE  Banking!TypeOK' /\ CreatedInv'
<1> USE DEF BankingInv, Banking!TypeOK
<1>1. /\ [account |-> a, status |-> to] \in [account: Banking!Ids, status: Banking!Status]
      /\ slip' \subseteq Banking!Ids
  BY DEF Banking!Changed
<1>2. /\ status' \in [Banking!Ids -> Banking!Status]
      /\ did' \in [Requests -> [account: Banking!Ids, status: Banking!Status]]
  BY <1>1 DEF Banking!Changed
<1>3. accountPc' = [accountPc EXCEPT ![r] = "audit"] /\ accountResp' = accountResp
  BY DEF Banking!Changed, Banking!Goto
<1>4. Banking!TypeOK'
  BY <1>1, <1>2, <1>3
<1>5. CreatedInv'
  BY <1>3, EarlierAssumption DEF CreatedInv, Banking!Ids
<1> QED
  BY <1>4, <1>5

\* A request that ends before it has changed anything.
LEMMA AccountUnchanged ==
  ASSUME BankingInv, NEW r \in Requests, accountPc[r] \in {"idle", "insert"},
         NEW p \in {"insert", "answered"}, Banking!Goto(r, p),
         UNCHANGED <<status, lastAudit, did, slip>>
  PROVE  AuditInv' /\ Banking!LastAuditTells' /\ CreatedInv'
<1>1. \A b \in Banking!Ids : Banking!Unaudited(b)' = Banking!Unaudited(b)
  BY DEF BankingInv, Banking!TypeOK, Banking!Goto, Banking!Unaudited
<1> QED
  BY <1>1 DEF BankingInv, Banking!TypeOK, AuditInv, Banking!LastAuditTells, CreatedInv,
     Banking!Goto

-----------------------------------------------------------------------------
(* The steps. *)

LEMMA AccountStatusStep ==
  ASSUME BankingInv, NEW r \in Requests, NEW from \in SUBSET {"ACTIVE", "FROZEN"},
         NEW to \in {"ACTIVE", "FROZEN", "CLOSED"}, Banking!UpdateStatus(r, from, to)
  PROVE  BankingInv'
<1> USE DEF BankingInv, Banking!TypeOK, Banking!Status
<1> PICK a \in Banking!Ids :
      IF status[a] \in from
      THEN status' = [status EXCEPT ![a] = to] /\ Banking!Changed(r, a, to)
      ELSE Banking!Answer(r, "refused") /\ UNCHANGED <<status, did, slip>>
  BY DEF Banking!UpdateStatus
<1>1. CASE status[a] \in from
  <2>1. Banking!TypeOK' /\ CreatedInv'
    BY <1>1, AccountChangedTypes DEF Banking!UpdateStatus
  <2>2. AuditInv' /\ Banking!LastAuditTells'
    BY <1>1, AccountChangedAudits DEF Banking!UpdateStatus
  <2>3. Banking!OneOpenPerCurrency'
    BY <1>1 DEF Banking!UpdateStatus, Banking!OneOpenPerCurrency, Banking!Open
  <2> QED
    BY <2>1, <2>2, <2>3
<1>2. CASE status[a] \notin from
  <2>1. AuditInv' /\ Banking!LastAuditTells' /\ CreatedInv'
    BY <1>2, AccountUnchanged DEF Banking!UpdateStatus, Banking!Answer
  <2>2. Banking!TypeOK' /\ Banking!OneOpenPerCurrency'
    BY <1>2 DEF Banking!UpdateStatus, Banking!Answer, Banking!Goto, Banking!OneOpenPerCurrency,
       Banking!Open
  <2> QED
    BY <2>1, <2>2
<1> QED
  BY <1>1, <1>2

LEMMA AccountFindStep ==
  ASSUME BankingInv, NEW r \in Requests, Banking!CreateFind(r)
  PROVE  BankingInv'
<1>1. AuditInv' /\ Banking!LastAuditTells' /\ CreatedInv'
  BY AccountUnchanged DEF Banking!CreateFind, Banking!Answer
<1>2. Banking!TypeOK'
  <2>1. currency' \in [Banking!Ids -> Currencies]
    BY DEF BankingInv, Banking!TypeOK, Banking!CreateFind, Banking!Ids
  <2> QED
    BY <2>1 DEF BankingInv, Banking!TypeOK, Banking!CreateFind, Banking!Answer, Banking!Goto
<1>3. Banking!OneOpenPerCurrency'
  BY DEF BankingInv, Banking!TypeOK, CreatedInv, Banking!CreateFind, Banking!OneOpenPerCurrency,
     Banking!Open, Banking!Ids
<1> QED
  BY <1>1, <1>2, <1>3 DEF BankingInv

LEMMA AccountCreateStep ==
  ASSUME BankingInv, NEW r \in Requests, Banking!Create(r)
  PROVE  BankingInv'
<1> USE DEF BankingInv, Banking!TypeOK
<1>1. r \in Banking!Ids
  BY DEF Banking!Ids
<1>2. CASE Banking!IndexAllows(currency[r])
  <2>1. Banking!TypeOK' /\ CreatedInv'
    BY <1>1, <1>2, AccountChangedTypes DEF Banking!Create, Banking!Status
  <2>2. AuditInv' /\ Banking!LastAuditTells'
    BY <1>1, <1>2, AccountChangedAudits DEF Banking!Create, Banking!Status
  <2>3. Banking!OneOpenPerCurrency'
    BY <1>1, <1>2 DEF Banking!Create, Banking!IndexAllows, Banking!HasOpen,
       Banking!OneOpenPerCurrency, Banking!Open
  <2> QED
    BY <2>1, <2>2, <2>3
<1>3. CASE ~Banking!IndexAllows(currency[r])
  <2>1. AuditInv' /\ Banking!LastAuditTells' /\ CreatedInv'
    BY <1>3, AccountUnchanged DEF Banking!Create, Banking!Answer
  <2>2. Banking!TypeOK' /\ Banking!OneOpenPerCurrency'
    BY <1>3 DEF Banking!Create, Banking!Answer, Banking!Goto, Banking!OneOpenPerCurrency,
       Banking!Open
  <2> QED
    BY <2>1, <2>2
<1> QED
  BY <1>2, <1>3

LEMMA AccountAuditStep ==
  ASSUME BankingInv, NEW r \in Requests, Banking!RecordAudit(r)
  PROVE  BankingInv'
<1> USE DEF BankingInv, Banking!TypeOK
<1>1. Banking!TypeOK' /\ CreatedInv' /\ Banking!OneOpenPerCurrency'
  BY DEF Banking!RecordAudit, Banking!Answer, Banking!Goto, CreatedInv,
     Banking!OneOpenPerCurrency, Banking!Open
<1>2. \A a \in Banking!Ids : Banking!Unaudited(a)' = Banking!Unaudited(a) \ {r}
  BY DEF Banking!RecordAudit, Banking!Answer, Banking!Goto, Banking!Unaudited
<1>3. AuditInv'
  BY <1>2 DEF Banking!RecordAudit, AuditInv
<1>4. Banking!LastAuditTells'
  <2> SUFFICES ASSUME NEW a \in Banking!Ids \ slip, Banking!Unaudited(a) \subseteq {r}
               PROVE  lastAudit'[a] = status[a]
    BY <1>2 DEF Banking!LastAuditTells, Banking!RecordAudit
  <2>1. CASE did[r].account = a
    BY <2>1 DEF Banking!RecordAudit, Banking!Unaudited, AuditInv
  <2>2. CASE did[r].account # a
    BY <2>2 DEF Banking!RecordAudit, Banking!Unaudited, Banking!LastAuditTells
  <2> QED
    BY <2>1, <2>2
<1> QED
  BY <1>1, <1>3, <1>4

LEMMA AccountFailStep ==
  ASSUME BankingInv, NEW r \in Requests, Banking!RequestFails(r)
  PROVE  BankingInv'
<1> USE DEF BankingInv, Banking!TypeOK
<1>1. Banking!TypeOK' /\ CreatedInv' /\ Banking!OneOpenPerCurrency'
  BY DEF Banking!RequestFails, Banking!Answer, Banking!Goto, CreatedInv,
     Banking!OneOpenPerCurrency, Banking!Open
<1>2. \A a \in Banking!Ids \ slip' :
        a \in Banking!Ids \ slip /\ Banking!Unaudited(a)' = Banking!Unaudited(a)
  BY DEF Banking!RequestFails, Banking!Answer, Banking!Goto, Banking!Unaudited
<1>3. AuditInv' /\ Banking!LastAuditTells'
  BY <1>2 DEF Banking!RequestFails, AuditInv, Banking!LastAuditTells, Banking!Unaudited
<1> QED
  BY <1>1, <1>3

LEMMA BankingInvariance == Banking!Spec => []BankingInv
<1>1. BankingInv /\ [Banking!Next]_(Banking!vars) => BankingInv'
  <2> SUFFICES ASSUME BankingInv, [Banking!Next]_(Banking!vars) PROVE BankingInv'
    OBVIOUS
  <2>1. ASSUME NEW r \in Requests, Banking!Freeze(r) \/ Banking!Unfreeze(r) PROVE BankingInv'
    BY <2>1, AccountStatusStep DEF Banking!Freeze, Banking!Unfreeze
  <2>2. ASSUME NEW r \in Requests, Banking!Close(r) PROVE BankingInv'
    <3>1. CASE Banking!UpdateStatus(r, {"ACTIVE", "FROZEN"}, "CLOSED")
      BY <3>1, AccountStatusStep
    <3>2. CASE /\ accountPc[r] = "idle" /\ Banking!Answer(r, "refused")
               /\ UNCHANGED <<status, currency, lastAudit, did, slip>>
      <4>1. AuditInv' /\ Banking!LastAuditTells' /\ CreatedInv'
        BY <3>2, AccountUnchanged DEF Banking!Answer
      <4> QED
        BY <3>2, <4>1 DEF BankingInv, Banking!TypeOK, Banking!Answer, Banking!Goto,
           Banking!OneOpenPerCurrency, Banking!Open
    <3> QED
      BY <2>2, <3>1, <3>2 DEF Banking!Close
  <2>3. CASE UNCHANGED Banking!vars
    BY <2>3 DEF Banking!vars, BankingInv, Banking!TypeOK, CreatedInv, AuditInv,
       Banking!Unaudited, Banking!OneOpenPerCurrency, Banking!Open,
       Banking!LastAuditTells
  <2> QED
    BY <2>1, <2>2, <2>3, AccountFindStep, AccountCreateStep, AccountAuditStep,
       AccountFailStep DEF Banking!Next, Banking!Step
<1> QED
  BY <1>1, InitBankingInv, PTL DEF Banking!Spec

-----------------------------------------------------------------------------
(* The instance of the proofs is about the formulas of the instance of the specification. *)

LEMMA SameAuth ==
  /\ AuthProofs!Spec <=> Auth!Spec
  /\ AuthProofs!TwoSessionsOverlapped <=> Auth!TwoSessionsOverlapped
  /\ AuthProofs!OldSessionsOverlapped <=> Auth!OldSessionsOverlapped
  /\ AuthProofs!ChainNeverForks <=> Auth!ChainNeverForks
  /\ AuthProofs!RevokedForGood <=> Auth!RevokedForGood
  /\ AuthProofs!LockLiftedOnlyByEarlier <=> Auth!LockLiftedOnlyByEarlier
<1> USE DEF Auth!customerVars, AuthProofs!customerVars, Auth!tokenVars, AuthProofs!tokenVars,
            Auth!loginVars, AuthProofs!loginVars, Auth!Tokens, AuthProofs!Tokens, Auth!Active,
            AuthProofs!Active, Auth!Live, AuthProofs!Live, Auth!Revoking, AuthProofs!Revoking,
            Auth!PastLockCheck, AuthProofs!PastLockCheck, Auth!LetIn, AuthProofs!LetIn,
            Auth!CustomerRowFree, AuthProofs!CustomerRowFree, Auth!Goto, AuthProofs!Goto,
            Auth!Answer, AuthProofs!Answer, Auth!Arrive, AuthProofs!Arrive, Auth!Conclude,
            AuthProofs!Conclude, Auth!LoginGuard, AuthProofs!LoginGuard, Auth!LoginFind,
            AuthProofs!LoginFind, Auth!LocksAt, AuthProofs!LocksAt, Auth!CountFailure,
            AuthProofs!CountFailure, Auth!ClearFailures, AuthProofs!ClearFailures, Auth!RevokeOld,
            AuthProofs!RevokeOld, Auth!OpenSession, AuthProofs!OpenSession, Auth!RefreshFind,
            AuthProofs!RefreshFind, Auth!Rotatable, AuthProofs!Rotatable, Auth!Rotate,
            AuthProofs!Rotate, Auth!ReuseDetected, AuthProofs!ReuseDetected, Auth!LogoutFind,
            AuthProofs!LogoutFind, Auth!Revoke, AuthProofs!Revoke, Auth!ChangeFind,
            AuthProofs!ChangeFind, Auth!SetPassword, AuthProofs!SetPassword, Auth!CommitPassword,
            AuthProofs!CommitPassword, Auth!RecordAudit, AuthProofs!RecordAudit,
            Auth!RequestFails, AuthProofs!RequestFails, Auth!LockRunsOut, AuthProofs!LockRunsOut,
            Auth!TokenExpires, AuthProofs!TokenExpires, Auth!Login, AuthProofs!Login,
            Auth!Refresh, AuthProofs!Refresh, Auth!Logout, AuthProofs!Logout, Auth!PatchPassword,
            AuthProofs!PatchPassword, Auth!Step, AuthProofs!Step, Auth!Time, AuthProofs!Time,
            Auth!Next, AuthProofs!Next, Auth!Init, AuthProofs!Init, Auth!vars, AuthProofs!vars,
            Auth!Spec, AuthProofs!Spec
<1>1. AuthProofs!Spec <=> Auth!Spec
  BY DEF Auth!Spec, AuthProofs!Spec
<1>2. AuthProofs!TwoSessionsOverlapped <=> Auth!TwoSessionsOverlapped
  BY DEF Auth!TwoSessionsOverlapped, AuthProofs!TwoSessionsOverlapped
<1>3. AuthProofs!OldSessionsOverlapped <=> Auth!OldSessionsOverlapped
  BY DEF Auth!OldSessionsOverlapped, AuthProofs!OldSessionsOverlapped
<1>4. AuthProofs!ChainNeverForks <=> Auth!ChainNeverForks
  BY DEF Auth!ChainNeverForks, AuthProofs!ChainNeverForks
<1>5. AuthProofs!RevokedForGood <=> Auth!RevokedForGood
  BY DEF Auth!RevokedForGood, AuthProofs!RevokedForGood
<1>6. AuthProofs!LockLiftedOnlyByEarlier <=> Auth!LockLiftedOnlyByEarlier
  BY DEF Auth!LockLiftedOnlyByEarlier, AuthProofs!LockLiftedOnlyByEarlier
<1> QED
  BY <1>1, <1>2, <1>3, <1>4, <1>5, <1>6

-----------------------------------------------------------------------------
(* The composition. *)

LEMMA AuthNext == [Next]_vars => [Auth!Next]_(Auth!vars)
  BY DEF Next, AuthRequest, ProfileRequest, AccountRequest, TimePasses, vars, authVars,
     Auth!Next, Auth!vars, Auth!customerVars, Auth!tokenVars, Auth!loginVars

LEMMA UsersNext == [Next]_vars => [Users!Next]_(Users!vars)
  BY DEF Next, AuthRequest, ProfileRequest, AccountRequest, TimePasses, vars, profileVars,
     Users!Next, Users!vars, Users!columns, Users!history

LEMMA BankingNext == [Next]_vars => [Banking!Next]_(Banking!vars)
  BY DEF Next, AuthRequest, ProfileRequest, AccountRequest, TimePasses, vars, accountVars,
     Banking!Next, Banking!vars

\* The API implements each of its services: what AuthController does is no step, or a step that
\* changes nothing, for UsersController and AccountsController, and the other way round.
THEOREM Composition == Spec => Auth!Spec /\ Users!Spec /\ Banking!Spec
<1>1. Init => Auth!Init /\ Users!Init /\ Banking!Init
  BY DEF Init
<1>2. Spec => Auth!Spec
  BY <1>1, AuthNext, PTL DEF Spec, Auth!Spec
<1>3. Spec => Users!Spec
  BY <1>1, UsersNext, PTL DEF Spec, Users!Spec
<1>4. Spec => Banking!Spec
  BY <1>1, BankingNext, PTL DEF Spec, Banking!Spec
<1> QED
  BY <1>2, <1>3, <1>4

\* In the API as a whole: of two live sessions one was opened or renewed while the login of the
\* other was revoking what it saw, whatever happens to profiles and accounts next to them.
THEOREM ApiSessionsEndAtLogin == Spec => []TwoSessionsOverlapped
<1>1. AuthProofs!Spec => []AuthProofs!TwoSessionsOverlapped
  BY AuthProofs!SessionsEndAtLogin, EarlierAssumption, NoneAssumption, ThresholdAssumption,
     EmailsAssumption, CurrenciesAssumption
<1> QED
  BY <1>1, SameAuth, Composition, PTL DEF TwoSessionsOverlapped

\* In the API as a whole: patchPassword ends the sessions of the old password, but for those whose
\* login or refresh it overlaps.
THEOREM ApiSessionsEndAtChange == Spec => []OldSessionsOverlapped
<1>1. AuthProofs!Spec => []AuthProofs!OldSessionsOverlapped
  BY AuthProofs!SessionsEndAtChange, EarlierAssumption, NoneAssumption, ThresholdAssumption,
     EmailsAssumption, CurrenciesAssumption
<1> QED
  BY <1>1, SameAuth, Composition, PTL DEF OldSessionsOverlapped

\* In the API as a whole: of two refreshes with one token at most one rotates it.
THEOREM ApiOneSuccessor == Spec => []ChainNeverForks
<1>1. AuthProofs!Spec => []AuthProofs!ChainNeverForks
  BY AuthProofs!OneSuccessor, EarlierAssumption, NoneAssumption, ThresholdAssumption,
     EmailsAssumption, CurrenciesAssumption
<1> QED
  BY <1>1, SameAuth, Composition, PTL DEF ChainNeverForks

\* In the API as a whole: no refresh revives a revoked token.
THEOREM ApiRevocationIsFinal == Spec => RevokedForGood
<1>1. AuthProofs!Spec => AuthProofs!RevokedForGood
  BY AuthProofs!RevocationIsFinal, EarlierAssumption, NoneAssumption, ThresholdAssumption,
     EmailsAssumption, CurrenciesAssumption
<1> QED
  BY <1>1, SameAuth, Composition, PTL DEF RevokedForGood

\* In the API as a whole: only a login that had read the customer before the lock lifts it early.
THEOREM ApiLockHolds == Spec => LockLiftedOnlyByEarlier
<1>1. AuthProofs!Spec => AuthProofs!LockLiftedOnlyByEarlier
  BY AuthProofs!LockHolds, EarlierAssumption, NoneAssumption, ThresholdAssumption,
     EmailsAssumption, CurrenciesAssumption
<1> QED
  BY <1>1, SameAuth, Composition, PTL DEF LockLiftedOnlyByEarlier

\* The unique index keeps e-mail addresses apart, whichever look-ups of register and putMe it has
\* to make up for.
THEOREM ApiEmails == Spec => []OneCustomerPerEmail
<1>1. UsersInv => OneCustomerPerEmail
  BY DEF UsersInv, OneCustomerPerEmail
<1> QED
  BY <1>1, UsersInvariance, Composition, PTL

\* putMe, which writes back the fields it read, loses an update only to one it overlaps.
THEOREM ApiProfiles == Spec => []ProfileAsAsked
<1>1. UsersInv => ProfileAsAsked
  BY DEF UsersInv, ProfileAsAsked
<1> QED
  BY <1>1, UsersInvariance, Composition, PTL

\* In the API as a whole: createAccount opens no second account in a currency.
THEOREM ApiOneOpen == Spec => []OneOpenPerCurrency
<1>1. BankingInv => OneOpenPerCurrency
  BY DEF BankingInv, OneOpenPerCurrency
<1> QED
  BY <1>1, BankingInvariance, Composition, PTL

\* In the API as a whole: the audit row that follows each status change tells the status, unless it
\* overlapped another or got lost.
THEOREM ApiAuditTells == Spec => []LastAuditTells
<1>1. BankingInv => LastAuditTells
  BY DEF BankingInv, LastAuditTells
<1> QED
  BY <1>1, BankingInvariance, Composition, PTL
=============================================================================
