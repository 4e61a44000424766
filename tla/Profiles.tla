------------------------------- MODULE Profiles -------------------------------
(***************************************************************************)
(* AuthService.register and UsersService.putMe over the customers table.   *)
(*                                                                         *)
(* A customer goes by the name of the request that registered it, and a    *)
(* name by the request that asked for it; the phone is handled like the    *)
(* name.  The unique index on email lets an insert or update through only  *)
(* when no other committed row has the value.                              *)
(***************************************************************************)
EXTENDS ApiTypes

Customers == Requests \cup {Earlier}

VARIABLES
  email, name, \* the columns; email is None for a customer that is not registered
  outbox,      \* customers with a USER_REGISTERED event
  audit,       \* requests with a row in audit_logs
  pc, resp,    \* phase and answer of each request
  asked,       \* what a request wants: of whom, which fields
  read         \* the row a putMe has read

\* What the property needs to know of the past; no step depends on it.
VARIABLES
  wanted,      \* the profile as it was asked for, field by field
  overtaken,   \* putMe requests that another one has overtaken since they read
  stale        \* customers whose profile an overtaken request has written

columns == <<email, name, outbox>>
history == <<wanted, overtaken, stale>>
vars == <<columns, audit, pc, resp, asked, read, history>>

Profile == [email: Emails \cup {None}, name: Customers \cup {None}]

TypeOK ==
  /\ email \in [Customers -> Emails \cup {None}]
  /\ name \in [Customers -> Customers \cup {None}]
  /\ outbox \subseteq Customers /\ audit \subseteq Requests
  /\ pc \in [Requests -> {"idle", "insert", "put", "audit", "answered"}]
  /\ resp \in [Requests -> {"none", "ok", "refused", "error"}]
  /\ asked \in [Requests -> [customer: Customers, email: Emails \cup {None},
                             name: Customers \cup {None}]]
  /\ read \in [Requests -> Profile]
  /\ wanted \in [Customers -> Profile]
  /\ overtaken \subseteq Requests /\ stale \subseteq Customers

Nobody == [email |-> None, name |-> None]

Init ==
  /\ email \in [Customers -> Emails \cup {None}]
  /\ \A c \in Customers : email[c] # None <=> c = Earlier
  /\ name = [c \in Customers |-> IF c = Earlier THEN Earlier ELSE None]
  /\ outbox = {Earlier} /\ audit = {}
  /\ pc = [r \in Requests |-> "idle"]
  /\ resp = [r \in Requests |-> "none"]
  /\ asked = [r \in Requests |-> [customer |-> Earlier, email |-> None, name |-> None]]
  /\ read = [r \in Requests |-> Nobody]
  /\ wanted = [c \in Customers |-> [email |-> email[c], name |-> name[c]]]
  /\ overtaken = {} /\ stale = {}

-----------------------------------------------------------------------------
Goto(r, phase) == pc' = [pc EXCEPT ![r] = phase]
Answer(r, answer) == Goto(r, "answered") /\ resp' = [resp EXCEPT ![r] = answer]

\* Seeded fault: there is no unique index.
Free_NoIndex(e, c) == e \in Emails /\ c \in Customers

\* The unique index lets customer c have this e-mail address.
Free(e, c) == \A d \in Customers \ {c} : email[d] # e

\* register: findUnique by email.
RegisterFind(r) ==
  /\ pc[r] = "idle"
  /\ \E e \in Emails :
       /\ asked' = [asked EXCEPT ![r] = [customer |-> r, email |-> e, name |-> r]]
       /\ IF \E c \in Customers : email[c] = e
          THEN Answer(r, "refused")
          ELSE Goto(r, "insert") /\ UNCHANGED resp
  /\ UNCHANGED <<columns, audit, read, history>>

\* The transaction: the customer and its event, or a unique conflict.
Register(r) ==
  /\ pc[r] = "insert"
  /\ IF Free(asked[r].email, r)
     THEN /\ email' = [email EXCEPT ![r] = asked[r].email]
          /\ name' = [name EXCEPT ![r] = asked[r].name]
          /\ outbox' = outbox \cup {r}
          /\ wanted' = [wanted EXCEPT ![r] = [email |-> asked[r].email, name |-> asked[r].name]]
          /\ Goto(r, "audit") /\ UNCHANGED resp
     ELSE Answer(r, "refused") /\ UNCHANGED <<columns, wanted>>
  /\ UNCHANGED <<audit, asked, read, overtaken, stale>>

RecordAudit(r) ==
  /\ pc[r] = "audit"
  /\ audit' = audit \cup {r}
  /\ Answer(r, "ok")
  /\ UNCHANGED <<columns, asked, read, history>>

-----------------------------------------------------------------------------
\* putMe: findUnique, which also supplies the fields that are not given.
PutFind(r) ==
  /\ pc[r] = "idle"
  /\ \E c \in Customers, e \in Emails \cup {None}, n \in {None, r} :
       /\ email[c] # None
       /\ asked' = [asked EXCEPT ![r] = [customer |-> c, email |-> e, name |-> n]]
       /\ read' = [read EXCEPT ![r] = [email |-> email[c], name |-> name[c]]]
  /\ Goto(r, "put")
  /\ UNCHANGED <<columns, audit, resp, history>>

Given(field, otherwise) == IF field # None THEN field ELSE otherwise

\* Seeded fault: a name that is not given is written as it came.
Filled_NoFallback(r) == [email |-> Given(asked[r].email, read[r].email), name |-> asked[r].name]

\* email ?? user.email, name ?? user.name
Filled(r) == [email |-> Given(asked[r].email, read[r].email),
              name |-> Given(asked[r].name, read[r].name)]

Others(r) == {q \in Requests \ {r} : pc[q] = "put" /\ asked[q].customer = asked[r].customer}

\* customer.update writes all fields; the client learns of the commit, or its connection is lost.
Put(r) ==
  /\ pc[r] = "put"
  /\ LET c == asked[r].customer
     IN IF Free(Filled(r).email, c)
        THEN /\ email' = [email EXCEPT ![c] = Filled(r).email]
             /\ name' = [name EXCEPT ![c] = Filled(r).name]
             /\ wanted' = [wanted EXCEPT ![c] =
                  [email |-> Given(asked[r].email, @.email),
                   name |-> Given(asked[r].name, @.name)]]
             /\ overtaken' = overtaken \cup Others(r)
             /\ stale' = IF r \in overtaken THEN stale \cup {c} ELSE stale
             /\ \E answer \in {"ok", "error"} : Answer(r, answer)
        ELSE Answer(r, "refused") /\ UNCHANGED <<email, name, history>>
  /\ UNCHANGED <<outbox, audit, asked, read>>

\* A statement fails, the process dies, or the audit row cannot be written.
RequestFails(r) ==
  /\ pc[r] \notin {"idle", "answered"}
  /\ Answer(r, "error")
  /\ UNCHANGED <<columns, audit, asked, read, history>>

Step(r) ==
  RegisterFind(r) \/ Register(r) \/ RecordAudit(r) \/ PutFind(r) \/ Put(r) \/ RequestFails(r)

Next == \E r \in Requests : Step(r)

Spec == Init /\ [][Next]_vars

-----------------------------------------------------------------------------
\* No two customers have the same e-mail address, whichever registrations and profile updates pass
\* their look-up at once (auth.service.ts:58, users.service.ts:57).
OneCustomerPerEmail ==
  \A c, d \in Customers : c # d /\ email[c] # None => email[c] # email[d]

\* A profile has the fields that were last asked for, each on its own, unless two updates of it
\* overlapped: putMe also writes back what it read, and so can undo the other one.
ProfileAsAsked ==
  \A c \in Customers \ stale : wanted[c] = [email |-> email[c], name |-> name[c]]
=============================================================================
