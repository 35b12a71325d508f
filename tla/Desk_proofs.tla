----------------------------- MODULE Desk_proofs ------------------------------
(*****************************************************************************)
(* Proofs about what the team works with.                                    *)
(*                                                                           *)
(* Customers, for any number of senders, phones, customers and handlers: the *)
(* types, that a sender is given one customer, who is active if nothing was  *)
(* deleted or renumbered beside it, and that changes are announced.          *)
(*                                                                           *)
(* StagedUploads, for any number of uploads, messages, processes, crashes    *)
(* and errors: the types, and what can take the file of a send away.         *)
(*                                                                           *)
(* ZonedTime, for any zone with one change of its clock and any time of the  *)
(* wall clock: how far zonedTimeToUtc is from right.                         *)
(*                                                                           *)
(* BusinessHours, for any length of the day and the week, schedule, zone and *)
(* span: the business time that is counted is that at which the company is   *)
(* open.                                                                     *)
(*****************************************************************************)
EXTENDS Customers, StagedUploads, BusinessHours, FiniteSetTheorems, TLAPS
-----------------------------------------------------------------------------
(* The customers of a company (Customers). *)

Steps == {"idle", "identity", "find", "create", "refind", "link", "reread", "touch", "return",
          "lookup", "insert", "restore", "apply", "readback", "claim", "release", "write",
          "import", "rows", "announce"}
CustomerOrNone == 0..MaxCustomers
Known == CustomerOrNone \X Phones
Handlers == [at : Steps, op : {"none", "inbound", "create", "update", "remove", "import"},
             phone : Phones \cup {NoPhone}, id : CustomerOrNone, deleted : BOOLEAN,
             new : BOOLEAN, from : SUBSET Senders, todo : SUBSET (Customer \cup Known)]

CustomersTypeOK ==
    /\ phone \in [Customer -> Phones \cup {NoPhone}]
    /\ state \in [Customer -> {"absent", "active", "deleted"}]
    /\ identity \in [Senders -> CustomerOrNone]
    /\ req \in [Requests -> Handlers]
    /\ resolved \in [Senders -> SUBSET Customer]
    /\ due \subseteq Customer /\ lost \subseteq Customer
    /\ beside \in [Requests -> SUBSET {"renumbered", "removed"}]
    /\ {started, failed} \subseteq Nat

\* The steps of each handler.
Fits(r) ==
    /\ req[r].at = "idle" => req[r].op = "none"
    /\ req[r].at \in {"identity", "find", "create", "refind", "link", "reread", "touch", "return"}
           => req[r].op = "inbound"
    /\ req[r].at \in {"lookup", "insert"} => req[r].op = "create"
    /\ req[r].at \in {"restore", "apply", "readback"} =>
           /\ req[r].op = "create" \/ (req[r].op = "import" /\ req[r].new)
           /\ req[r].id # None
    /\ req[r].at \in {"claim", "release", "write"} => req[r].op = "update" /\ req[r].id # None
    /\ req[r].at \in {"import", "rows"} => req[r].op = "import"
    /\ req[r].op = "inbound" => \E s \in Senders : req[r].from = {s}
    /\ req[r].op = "import" => req[r].todo \subseteq Known
    /\ req[r].at = "release" => req[r].todo \subseteq Customer

\* An inbound run that goes on with a customer goes on with that of its sender.
Resolves(r) ==
    req[r].op = "inbound" =>
        /\ req[r].at = "link" => req[r].id \notin Absent \cup {None}
        /\ req[r].at = "reread" => req[r].id # None
        /\ \A s \in Senders : req[r].from = {s} =>
               /\ req[r].at = "reread" => identity[s] # None
               /\ req[r].at \in {"touch", "announce", "return"} =>
                      req[r].id = identity[s] /\ req[r].id # None

\* While no customer is deleted and no phone changes beside it, the customer of
\* a run is active or is to be restored, and then is active.
Steady(r) ==
    req[r].op = "inbound" /\ beside[r] = {} =>
        /\ req[r].at = "refind" => Holders(req[r].phone) # {}
        /\ req[r].at \in {"link", "touch"} => req[r].id \in Active \/ req[r].deleted
        /\ req[r].at \in {"announce", "return"} => req[r].id \in Active

\* The changes a handler will announce.
Owes(r, c) ==
    \/ /\ req[r].op = "inbound" /\ req[r].id = c
       /\ \/ req[r].at = "announce"
          \/ req[r].new /\ req[r].at \in {"link", "reread", "touch"}
    \/ req[r].op = "create" /\ req[r].id = c /\ req[r].at \in {"apply", "readback", "announce"}
    \/ req[r].op = "update" /\ req[r].id = c /\ req[r].at = "announce"
    \/ req[r].op = "remove" /\ c \in req[r].todo
    \/ req[r].op = "import" /\ req[r].new

SendersFit ==
    \A s \in Senders : resolved[s] \subseteq {identity[s]} /\ identity[s] \notin Absent

CustomersInv ==
    /\ CustomersTypeOK /\ SendersFit
    /\ \A r \in Requests : Fits(r) /\ Resolves(r) /\ Steady(r)
    /\ \A c \in due \ lost : \E r \in Requests : Owes(r, c)

LEMMA OneSender ==
    ASSUME NEW r, NEW s \in Senders, req[r].from = {s}
    PROVE  Sender(r) = s
<1>1. \A t : {s} = {t} => t = s
  OBVIOUS
<1> QED
  BY <1>1 DEF Sender

LEMMA Inbounds ==
    ASSUME CustomersInv, NEW r \in Requests, req[r].op = "inbound"
    PROVE  /\ Sender(r) \in Senders /\ req[r].from = {Sender(r)}
           /\ \A s \in Senders : req[r].from = {s} => s = Sender(r)
           /\ req[r].at = "reread" => identity[Sender(r)] # None
           /\ req[r].at \in {"touch", "announce", "return"} =>
                  req[r].id = identity[Sender(r)] /\ req[r].id # None
<1>1. PICK s \in Senders : req[r].from = {s}
  BY DEF CustomersInv, Fits
<1>2. Sender(r) = s /\ \A t : {s} = {t} => t = s
  BY <1>1, OneSender
<1> QED
  BY <1>1, <1>2 DEF CustomersInv, Resolves
-----------------------------------------------------------------------------
\* The other handlers stand still.
Others(r) == \A q \in Requests \ {r} : req'[q] = req[q]

\* A handler is at another step, and knows what it knew.
At(r, at) ==
    /\ req' \in [Requests -> Handlers]
    /\ Others(r)
    /\ req'[r].at = at
    /\ req'[r].op = req[r].op /\ req'[r].phone = req[r].phone
    /\ req'[r].from = req[r].from

LEMMA Goes ==
    ASSUME CustomersTypeOK, NEW r \in Requests, NEW at \in Steps, Goto(r, at)
    PROVE  /\ At(r, at)
           /\ req'[r].id = req[r].id /\ req'[r].deleted = req[r].deleted
           /\ req'[r].new = req[r].new /\ req'[r].todo = req[r].todo
BY DEF CustomersTypeOK, Goto, Handlers, At, Others

LEMMA Reads ==
    ASSUME CustomersTypeOK, NEW r \in Requests, NEW at \in Steps, NEW c \in CustomerOrNone,
           Read(r, at, c)
    PROVE  /\ At(r, at)
           /\ req'[r].id = c /\ (req'[r].deleted <=> state[c] = "deleted")
           /\ req'[r].new = req[r].new /\ req'[r].todo = req[r].todo
<1>1. ASSUME NEW gone \in BOOLEAN,
             req' = [req EXCEPT ![r].at = at, ![r].id = c, ![r].deleted = gone]
      PROVE  /\ At(r, at)
             /\ req'[r].id = c /\ req'[r].deleted = gone
             /\ req'[r].new = req[r].new /\ req'[r].todo = req[r].todo
  <2>1. req[r] \in Handlers
    BY DEF CustomersTypeOK
  <2>2. [req[r] EXCEPT !.at = at, !.id = c, !.deleted = gone] \in Handlers
    BY <2>1 DEF Handlers
  <2>3. req' = [req EXCEPT ![r] = [req[r] EXCEPT !.at = at, !.id = c, !.deleted = gone]]
    BY <1>1, Zenon
  <2>4. req' \in [Requests -> Handlers] /\ Others(r)
        /\ req'[r] = [req[r] EXCEPT !.at = at, !.id = c, !.deleted = gone]
    BY <2>2, <2>3 DEF CustomersTypeOK, Others
  <2>5. /\ req'[r].at = at /\ req'[r].op = req[r].op /\ req'[r].phone = req[r].phone
        /\ req'[r].from = req[r].from /\ req'[r].id = c /\ req'[r].deleted = gone
        /\ req'[r].new = req[r].new /\ req'[r].todo = req[r].todo
    BY <2>1, <2>4 DEF Handlers
  <2> QED
    BY <2>4, <2>5 DEF At
<1> DEFINE gone == state[c] = "deleted"
<1>2. gone \in BOOLEAN /\ req' = [req EXCEPT ![r].at = at, ![r].id = c, ![r].deleted = gone]
  BY DEF Read
<1> HIDE DEF gone
<1>3. /\ At(r, at)
      /\ req'[r].id = c /\ req'[r].deleted = gone
      /\ req'[r].new = req[r].new /\ req'[r].todo = req[r].todo
  BY <1>1, <1>2
<1> QED
  BY <1>3 DEF gone

LEMMA Ends ==
    ASSUME CustomersTypeOK, NEW r \in Requests, End(r)
    PROVE  /\ req' \in [Requests -> Handlers]
           /\ Others(r)
           /\ req'[r] = Idle /\ req'[r].at = "idle" /\ req'[r].op = "none"
<1>1. None \in CustomerOrNone
  BY CustomersAssumption DEF CustomerOrNone, None
<1>2. Idle \in Handlers
  BY <1>1 DEF Idle, Handlers, Steps
<1> QED
  BY <1>2 DEF CustomersTypeOK, End, Idle, Others

LEMMA Begins ==
    ASSUME CustomersInv, NEW r \in Requests, NEW op, NEW fields, Start(r, op, fields),
           [fields EXCEPT !.op = op] \in Handlers
    PROVE  /\ req' \in [Requests -> Handlers]
           /\ Others(r)
           /\ req'[r] = [fields EXCEPT !.op = op]
           /\ req[r].at = "idle" /\ req[r].op = "none" /\ \A c : ~Owes(r, c)
           /\ started' \in Nat /\ identity' = identity
<1>1. req[r].at = "idle" /\ req[r].op = "none"
  BY DEF Start, CustomersInv, Fits
<1>2. \A c : ~Owes(r, c)
  BY <1>1 DEF Owes
<1>3. started' \in Nat
  BY DEF Start, CustomersInv, CustomersTypeOK
<1>4. /\ req' \in [Requests -> Handlers]
      /\ Others(r)
      /\ req'[r] = [fields EXCEPT !.op = op]
  BY DEF Start, CustomersInv, CustomersTypeOK, Others
<1> QED
  BY <1>1, <1>2, <1>3, <1>4 DEF Start

LEMMA HolderHolds ==
    ASSUME CustomersTypeOK, NEW p
    PROVE  /\ Holder(p) \in CustomerOrNone
           /\ Holders(p) = {} => Holder(p) = None
           /\ Holders(p) # {} => Holder(p) \in Holders(p) /\ Holder(p) \in Customer \ Absent
<1>1. CASE Holders(p) = {}
  BY <1>1, CustomersAssumption DEF Holder, CustomerOrNone, None
<1>2. CASE Holders(p) # {}
  <2>1. Holder(p) \in Holders(p)
    BY <1>2 DEF Holder
  <2> QED
    BY <1>2, <2>1 DEF Holders, CustomerOrNone, Customer
<1> QED
  BY <1>1, <1>2

\* Customers that are there stay, and keep what they were found by.
Kept ==
    /\ \A c \in Active : c \in Active'
    /\ \A p : Holders(p) # {} => Holders(p)' # {}

LEMMA RowsKept ==
    ASSUME \A c \in Customer \ Absent :
               phone'[c] = phone[c] /\ state'[c] \in {state[c], "active"}
    PROVE  Kept /\ Absent' \subseteq Absent
<1>1. Absent' \subseteq Absent
  BY DEF Absent
<1>2. \A c \in Active : c \in Active'
  BY DEF Active, Absent
<1>3. ASSUME NEW p, Holders(p) # {} PROVE Holders(p)' # {}
  BY <1>1, <1>3 DEF Holders
<1> QED
  BY <1>1, <1>2, <1>3 DEF Kept

\* What a step of one handler has to keep.
LEMMA OneHandler ==
    ASSUME CustomersInv, NEW r \in Requests,
           CustomersTypeOK', Others(r), Fits(r)', Resolves(r)', Steady(r)', SendersFit',
           \A q \in Requests \ {r} :
               req[q].op = "inbound" /\ beside'[q] = {} => beside[q] = {} /\ Kept,
           Absent' \subseteq Absent,
           \A s \in Senders : identity[s] # None => identity'[s] = identity[s],
           \A c \in due' \ lost' : (c \in due \ lost /\ ~Owes(r, c)) \/ Owes(r, c)'
    PROVE  CustomersInv'
<1>1. ASSUME NEW q \in Requests PROVE Fits(q)' /\ Resolves(q)' /\ Steady(q)'
  <2>1. CASE q = r
    BY <2>1
  <2>2. CASE q # r
    <3>1. req'[q] = req[q]
      BY <2>2 DEF Others
    <3>2. Fits(q)'
      BY <3>1 DEF CustomersInv, Fits
    <3>3. Resolves(q)'
      BY <3>1 DEF CustomersInv, Resolves
    <3>4. Steady(q)'
      BY <2>2, <3>1 DEF CustomersInv, Steady, Kept
    <3> QED
      BY <3>2, <3>3, <3>4
  <2> QED
    BY <2>1, <2>2
<1>2. ASSUME NEW c \in due' \ lost' PROVE \E q \in Requests : Owes(q, c)'
  <2>1. CASE Owes(r, c)'
    BY <2>1
  <2>2. CASE c \in due \ lost /\ ~Owes(r, c)
    <3>1. PICK q \in Requests : Owes(q, c)
      BY <2>2 DEF CustomersInv
    <3>2. req'[q] = req[q]
      BY <2>2, <3>1 DEF Others
    <3> QED
      BY <3>1, <3>2 DEF Owes
  <2> QED
    BY <2>1, <2>2
<1> QED
  BY <1>1, <1>2 DEF CustomersInv

\* A step that deletes and renumbers no one.
LEMMA QuietStep ==
    ASSUME CustomersInv, NEW r \in Requests,
           CustomersTypeOK', Others(r), Fits(r)', Resolves(r)', Steady(r)',
           \A c \in Customer \ Absent :
               phone'[c] = phone[c] /\ state'[c] \in {state[c], "active"},
           UNCHANGED <<identity, resolved>>,
           \A q \in Requests \ {r} : beside'[q] = beside[q],
           \A c \in due' \ lost' : (c \in due \ lost /\ ~Owes(r, c)) \/ Owes(r, c)'
    PROVE  CustomersInv'
<1>1. Kept /\ Absent' \subseteq Absent
  BY RowsKept
<1>2. SendersFit'
  BY <1>1 DEF CustomersInv, SendersFit
<1>3. \A q \in Requests \ {r} :
          req[q].op = "inbound" /\ beside'[q] = {} => beside[q] = {} /\ Kept
  BY <1>1
<1>4. \A s \in Senders : identity[s] # None => identity'[s] = identity[s]
  OBVIOUS
<1> QED
  BY <1>1, <1>2, <1>3, <1>4, OneHandler

LEMMA SomeCustomer ==
    ASSUME NEW c \in CustomerOrNone, c # None
    PROVE  c \in Customer
BY CustomersAssumption DEF CustomerOrNone, None, Customer

LEMMA NoCustomer ==
    None \in CustomerOrNone /\ None \notin Customer /\ Customer \subseteq CustomerOrNone
BY CustomersAssumption DEF CustomerOrNone, None, Customer

\* A handler that knows something new.
LEMMA Becomes ==
    ASSUME CustomersTypeOK, NEW r \in Requests, NEW h \in Handlers, req' = [req EXCEPT ![r] = h]
    PROVE  req' \in [Requests -> Handlers] /\ Others(r) /\ req'[r] = h
BY DEF CustomersTypeOK, Others

\* A step of which the tables know nothing.
LEMMA TableStands ==
    ASSUME CustomersInv, req' \in [Requests -> Handlers], started' \in Nat,
           UNCHANGED <<rows, identity, notes>>
    PROVE  CustomersTypeOK'
BY DEF CustomersInv, CustomersTypeOK, rows, notes

LEMMA PlainStep ==
    ASSUME CustomersInv, NEW r \in Requests, started' \in Nat,
           req' \in [Requests -> Handlers], Others(r), Fits(r)', Resolves(r)', Steady(r)',
           UNCHANGED <<rows, identity, notes>>,
           \A c \in due \ lost : Owes(r, c) => Owes(r, c)'
    PROVE  CustomersInv'
<1>1. CustomersTypeOK'
  BY TableStands
<1>2. UNCHANGED <<phone, state, resolved, due, lost, beside>>
  BY DEF rows, notes
<1>3. \A c \in Customer \ Absent :
          phone'[c] = phone[c] /\ state'[c] \in {state[c], "active"}
  BY <1>2
<1>4. \A q \in Requests \ {r} : beside'[q] = beside[q]
  BY <1>2
<1>5. \A c \in due' \ lost' : (c \in due \ lost /\ ~Owes(r, c)) \/ Owes(r, c)'
  BY <1>2
<1> QED
  BY <1>1, <1>2, <1>3, <1>4, <1>5, QuietStep
-----------------------------------------------------------------------------
\* A customer that was read is active, or was read as deleted.
LEMMA ReadAlive ==
    ASSUME CustomersInv, NEW c \in Customer \ Absent
    PROVE  c \in Active \/ state[c] = "deleted"
BY DEF CustomersInv, CustomersTypeOK, Absent, Active

LEMMA StartInboundInv ==
    ASSUME CustomersInv, NEW r \in Requests, NEW s \in Senders, StartInbound(r, s)
    PROVE  CustomersInv'
<1> DEFINE fields == [Idle EXCEPT !.at = "identity", !.phone = PhoneOf[s], !.from = {s}]
<1>1. [fields EXCEPT !.op = "inbound"] \in Handlers
  BY CustomersAssumption, NoCustomer DEF Handlers, Idle, Steps
<1>2. /\ req' \in [Requests -> Handlers] /\ Others(r)
      /\ req'[r] = [fields EXCEPT !.op = "inbound"]
      /\ \A c : ~Owes(r, c)
      /\ started' \in Nat /\ identity' = identity
  <2>1. Start(r, "inbound", fields)
    BY DEF StartInbound
  <2> HIDE DEF fields
  <2> QED
    BY <1>1, <2>1, Begins
<1>3. req'[r].at = "identity" /\ req'[r].op = "inbound" /\ req'[r].from = {s}
  BY <1>2 DEF Idle
<1>4. /\ UNCHANGED <<phone, state, resolved, due, lost, failed>>
      /\ beside' = [beside EXCEPT ![r] = {}]
  BY DEF StartInbound, rows
<1>5. CustomersTypeOK'
  BY <1>2, <1>4 DEF CustomersInv, CustomersTypeOK
<1>6. Fits(r)' /\ Resolves(r)' /\ Steady(r)'
  BY <1>3 DEF Fits, Resolves, Steady
<1>7. \A q \in Requests \ {r} : beside'[q] = beside[q]
  BY <1>4 DEF CustomersInv, CustomersTypeOK
<1> QED
  BY <1>2, <1>4, <1>5, <1>6, <1>7, QuietStep

LEMMA FindIdentityInv ==
    ASSUME CustomersInv, NEW r \in Requests, FindIdentity(r)
    PROVE  CustomersInv'
<1>1. /\ req[r].op = "inbound" /\ req[r].at = "identity"
      /\ UNCHANGED <<rows, identity, started, notes>>
  BY DEF FindIdentity, CustomersInv, Fits
<1>2. Sender(r) \in Senders /\ req[r].from = {Sender(r)}
      /\ \A s \in Senders : req[r].from = {s} => s = Sender(r)
  BY <1>1, Inbounds
<1>3. (\A c : ~Owes(r, c)) /\ started' \in Nat
  BY <1>1 DEF Owes, CustomersInv, CustomersTypeOK
<1>4. CASE identity[Sender(r)] = None
  <2>1. At(r, "find")
    BY <1>4, Goes DEF FindIdentity, CustomersInv, Steps
  <2>2. Fits(r)' /\ Resolves(r)' /\ Steady(r)'
    BY <1>1, <1>2, <2>1 DEF At, Fits, Resolves, Steady
  <2> QED
    BY <1>1, <1>3, <2>1, <2>2, PlainStep DEF At
<1>5. CASE identity[Sender(r)] # None
  <2> DEFINE c == identity[Sender(r)]
  <2>1. c \in CustomerOrNone /\ c \in Customer /\ c \notin Absent
    BY <1>2, <1>5, SomeCustomer DEF CustomersInv, CustomersTypeOK, SendersFit
  <2>2. At(r, "touch") /\ req'[r].id = c /\ (req'[r].deleted <=> state[c] = "deleted")
    BY <1>5, <2>1, Reads DEF FindIdentity, CustomersInv, Steps
  <2>3. Fits(r)'
    BY <1>1, <1>2, <2>2 DEF At, Fits
  <2>4. Resolves(r)'
    BY <1>1, <1>2, <1>5, <2>2 DEF At, Resolves
  <2>5. c \in Active \/ req'[r].deleted
    BY <2>1, <2>2, ReadAlive
  <2>6. Active' = Active
    BY <1>1 DEF Active, rows
  <2>7. Steady(r)'
    BY <2>2, <2>5, <2>6 DEF At, Steady
  <2> QED
    BY <1>1, <1>3, <2>2, <2>3, <2>4, <2>7, PlainStep DEF At
<1> QED
  BY <1>4, <1>5

\* Reading the holder of the number, before or after the creation.
LEMMA ReadHolderInv ==
    ASSUME CustomersInv, NEW r \in Requests, req[r].op = "inbound", \A c : ~Owes(r, c),
           Holders(req[r].phone) # {}, Read(r, "link", Holder(req[r].phone)),
           UNCHANGED <<rows, identity, started, notes>>
    PROVE  CustomersInv'
<1> DEFINE c == Holder(req[r].phone)
<1>1. c \in Customer \ Absent /\ c \in CustomerOrNone /\ c # None
  BY HolderHolds, NoCustomer DEF CustomersInv
<1>2. At(r, "link") /\ req'[r].id = c /\ (req'[r].deleted <=> state[c] = "deleted")
  BY <1>1, Reads DEF CustomersInv, Steps
<1>3. \E s \in Senders : req[r].from = {s}
  BY DEF CustomersInv, Fits
<1>4. Active' = Active /\ Absent' = Absent
  BY DEF Active, Absent, rows
<1>5. c \in Active \/ req'[r].deleted
  BY <1>1, <1>2, ReadAlive
<1>6. Fits(r)'
  BY <1>2, <1>3 DEF At, Fits
<1>7. Resolves(r)'
  BY <1>1, <1>2, <1>4 DEF At, Resolves
<1>8. Steady(r)'
  BY <1>2, <1>4, <1>5 DEF At, Steady
<1>9. started' \in Nat
  BY DEF CustomersInv, CustomersTypeOK
<1> QED
  BY <1>2, <1>6, <1>7, <1>8, <1>9, PlainStep DEF At

LEMMA FindCustomerInv ==
    ASSUME CustomersInv, NEW r \in Requests, FindCustomer(r)
    PROVE  CustomersInv'
<1>1. req[r].op = "inbound" /\ req[r].at = "find" /\ UNCHANGED <<rows, identity, started, notes>>
  BY DEF FindCustomer, CustomersInv, Fits
<1>2. (\A c : ~Owes(r, c)) /\ started' \in Nat
  BY <1>1 DEF Owes, CustomersInv, CustomersTypeOK
<1>3. CASE Holders(req[r].phone) = {}
  <2>1. At(r, "create")
    BY <1>3, Goes DEF FindCustomer, CustomersInv, Steps
  <2>2. \E s \in Senders : req[r].from = {s}
    BY <1>1 DEF CustomersInv, Fits
  <2>3. Fits(r)' /\ Resolves(r)' /\ Steady(r)'
    BY <1>1, <2>1, <2>2 DEF At, Fits, Resolves, Steady
  <2> QED
    BY <1>1, <1>2, <2>1, <2>3, PlainStep DEF At
<1>4. CASE Holders(req[r].phone) # {}
  <2>1. Read(r, "link", Holder(req[r].phone))
    BY <1>4 DEF FindCustomer
  <2> QED
    BY <1>1, <1>2, <1>4, <2>1, ReadHolderInv
<1> QED
  BY <1>3, <1>4

\* A row is inserted for an absent customer.
LEMMA InsertKeeps ==
    ASSUME CustomersInv, NEW c \in Absent, NEW p \in Phones \cup {NoPhone}, Inserted(c, p)
    PROVE  /\ phone' \in [Customer -> Phones \cup {NoPhone}]
           /\ state' \in [Customer -> {"absent", "active", "deleted"}]
           /\ due' \subseteq Customer /\ due' = due \cup {c}
           /\ c \in Active' /\ c \notin Absent' /\ c # None
           /\ \A d \in Customer \ Absent :
                  phone'[d] = phone[d] /\ state'[d] \in {state[d], "active"}
BY NoCustomer DEF CustomersInv, CustomersTypeOK, Inserted, Absent, Active

LEMMA CreateIncomingInv ==
    ASSUME CustomersInv, NEW r \in Requests, NEW c \in Absent, CreateIncoming(r, c)
    PROVE  CustomersInv'
<1>1. /\ req[r].op = "inbound" /\ req[r].at = "create"
      /\ UNCHANGED <<identity, started, resolved, lost, beside, failed>>
      /\ \E s \in Senders : req[r].from = {s}
  BY DEF CreateIncoming, CustomersInv, Fits
<1>2. \A d : ~Owes(r, d)
  BY <1>1 DEF Owes
<1>0. CustomersTypeOK
  BY DEF CustomersInv
<1>3. CASE Holders(req[r].phone) = {}
  <2> DEFINE h == [req[r] EXCEPT !.at = "link", !.id = c, !.new = TRUE]
  <2>1. h \in Handlers
    <3>1. req[r] \in Handlers /\ c \in CustomerOrNone
      BY <1>0, NoCustomer DEF CustomersTypeOK, Absent
    <3> QED
      BY <3>1 DEF Handlers, Steps
  <2>2. req' = [req EXCEPT ![r] = h] /\ Inserted(c, req[r].phone)
    BY <1>3, Zenon DEF CreateIncoming
  <2>3. req' \in [Requests -> Handlers] /\ Others(r) /\ req'[r] = h
    BY <1>0, <2>1, <2>2, Becomes
  <2>4. /\ req'[r].at = "link" /\ req'[r].op = "inbound" /\ req'[r].id = c /\ req'[r].new
        /\ req'[r].from = req[r].from
    BY <1>0, <1>1, <2>3 DEF CustomersTypeOK, Handlers
  <2>5. req[r].phone \in Phones \cup {NoPhone}
    BY <1>0 DEF CustomersTypeOK, Handlers
  <2>6. /\ phone' \in [Customer -> Phones \cup {NoPhone}]
        /\ state' \in [Customer -> {"absent", "active", "deleted"}]
        /\ due' \subseteq Customer /\ due' = due \cup {c}
        /\ c \in Active' /\ c \notin Absent' /\ c # None
        /\ \A d \in Customer \ Absent :
               phone'[d] = phone[d] /\ state'[d] \in {state[d], "active"}
    BY <2>2, <2>5, InsertKeeps
  <2>7. CustomersTypeOK'
    BY <1>0, <1>1, <2>3, <2>6 DEF CustomersTypeOK
  <2>8. Fits(r)'
    BY <1>1, <2>4 DEF Fits
  <2>9. Resolves(r)' /\ Steady(r)'
    BY <2>4, <2>6 DEF Resolves, Steady
  <2>10. Owes(r, c)'
    BY <2>4 DEF Owes
  <2>11. \A d \in due' \ lost' : (d \in due \ lost /\ ~Owes(r, d)) \/ Owes(r, d)'
    BY <1>1, <1>2, <2>6, <2>10
  <2> QED
    BY <1>1, <2>3, <2>6, <2>7, <2>8, <2>9, <2>11, QuietStep
<1>4. CASE Holders(req[r].phone) # {}
  <2>1. Goto(r, "refind") /\ UNCHANGED <<rows, notes>>
    BY <1>1, <1>4 DEF CreateIncoming, notes
  <2>2. At(r, "refind")
    BY <1>0, <2>1, Goes DEF Steps
  <2>3. Holders(req[r].phone)' # {}
    <3>1. UNCHANGED <<phone, state>>
      BY <2>1 DEF rows
    <3>2. \A p : Holders(p)' = Holders(p)
      BY <3>1 DEF Holders, Absent
    <3> QED
      BY <1>4, <2>2, <3>2 DEF At
  <2>4. Fits(r)' /\ Resolves(r)' /\ Steady(r)'
    BY <1>1, <2>2, <2>3 DEF At, Fits, Resolves, Steady
  <2> QED
    BY <1>0, <1>1, <1>2, <2>1, <2>2, <2>4, PlainStep DEF At, CustomersTypeOK
<1> QED
  BY <1>3, <1>4
-----------------------------------------------------------------------------
\* A handler that is over owes nothing and promises nothing.
LEMMA OverFits ==
    ASSUME NEW r, req'[r].at = "idle", req'[r].op = "none"
    PROVE  Fits(r)' /\ Resolves(r)' /\ Steady(r)'
BY DEF Fits, Resolves, Steady

LEMMA EndInv ==
    ASSUME CustomersInv, NEW r \in Requests, End(r), \A c \in due : ~Owes(r, c),
           UNCHANGED <<rows, identity, started, notes>>
    PROVE  CustomersInv'
<1>1. req' \in [Requests -> Handlers] /\ Others(r) /\ req'[r].at = "idle" /\ req'[r].op = "none"
  BY Ends DEF CustomersInv
<1>2. started' \in Nat
  BY DEF CustomersInv, CustomersTypeOK
<1> QED
  BY <1>1, <1>2, OverFits, PlainStep

\* What a handler that throws has changed is never announced.
LEMMA ThrowInv ==
    ASSUME CustomersInv, NEW r \in Requests, Throw(r),
           req[r].op \in {"inbound", "create", "import"} \/ \A c \in due : ~Owes(r, c),
           UNCHANGED <<rows, identity, started, resolved, due, beside>>
    PROVE  CustomersInv'
<1>0. CustomersTypeOK
  BY DEF CustomersInv
<1>1. /\ req' \in [Requests -> Handlers] /\ Others(r)
      /\ req'[r].at = "idle" /\ req'[r].op = "none"
  BY <1>0, Ends DEF Throw
<1>2. Fits(r)' /\ Resolves(r)' /\ Steady(r)'
  BY <1>1, OverFits
<1>3. /\ lost \subseteq lost'
      /\ req[r].op = "import" => due \subseteq lost'
      /\ req[r].op \in {"inbound", "create"} => {req[r].id} \ {None} \subseteq lost'
      /\ lost' \subseteq Customer
  <2>1. req[r].id \in CustomerOrNone
    BY <1>0 DEF CustomersTypeOK, Handlers
  <2>2. {req[r].id} \ {None} \subseteq Customer
    BY <2>1, SomeCustomer
  <2>3. due \subseteq Customer /\ lost \subseteq Customer
    BY <1>0 DEF CustomersTypeOK
  <2>4. CASE req[r].op = "import"
    BY <2>3, <2>4 DEF Throw
  <2>5. CASE req[r].op = "update"
    BY <2>3, <2>5 DEF Throw
  <2>6. CASE req[r].op \notin {"import", "update"}
    BY <2>2, <2>3, <2>6 DEF Throw
  <2> QED
    BY <2>4, <2>5, <2>6
<1>4. failed' \in Nat
  BY <1>0 DEF CustomersTypeOK, Throw
<1>5. CustomersTypeOK'
  BY <1>0, <1>1, <1>3, <1>4 DEF CustomersTypeOK, rows
<1>6. ASSUME NEW c \in due' \ lost' PROVE c \in due \ lost /\ ~Owes(r, c)
  <2>1. c \in due \ lost /\ c # None
    BY <1>0, <1>3, <1>6, NoCustomer DEF CustomersTypeOK
  <2>2. CASE req[r].op = "import"
    BY <1>3, <1>6, <2>2
  <2>3. CASE req[r].op \in {"inbound", "create"}
    BY <1>3, <1>6, <2>1, <2>3 DEF Owes
  <2> QED
    BY <2>1, <2>2, <2>3
<1>7. UNCHANGED <<phone, state>>
  BY DEF rows
<1> QED
  BY <1>1, <1>2, <1>5, <1>6, <1>7, QuietStep

LEMMA RefindCustomerInv ==
    ASSUME CustomersInv, NEW r \in Requests, RefindCustomer(r)
    PROVE  CustomersInv'
<1>1. /\ req[r].op = "inbound" /\ req[r].at = "refind"
      /\ UNCHANGED <<rows, identity, started, resolved, due, beside>>
  BY DEF RefindCustomer, CustomersInv, Fits
<1>2. \A c : ~Owes(r, c)
  BY <1>1 DEF Owes
<1>3. CASE Holders(req[r].phone) = {}
  BY <1>1, <1>3, ThrowInv DEF RefindCustomer
<1>4. CASE Holders(req[r].phone) # {}
  <2>1. Read(r, "link", Holder(req[r].phone)) /\ UNCHANGED notes
    BY <1>1, <1>4 DEF RefindCustomer, notes
  <2> QED
    BY <1>1, <1>2, <1>4, <2>1, ReadHolderInv
<1> QED
  BY <1>3, <1>4

LEMMA LinkIdentityInv ==
    ASSUME CustomersInv, NEW r \in Requests, LinkIdentity(r)
    PROVE  CustomersInv'
<1> DEFINE s == Sender(r)
<1>0. CustomersTypeOK /\ SendersFit
  BY DEF CustomersInv
<1>1. /\ req[r].op = "inbound" /\ req[r].at = "link"
      /\ UNCHANGED <<rows, started, notes>>
  BY DEF LinkIdentity, CustomersInv, Fits
<1>2. s \in Senders /\ req[r].from = {s} /\ \A t \in Senders : req[r].from = {t} => t = s
  BY <1>1, Inbounds
<1>3. req[r].id \notin Absent \cup {None} /\ req[r].id \in CustomerOrNone
  BY <1>0, <1>1 DEF CustomersInv, Resolves, CustomersTypeOK, Handlers
<1>4. UNCHANGED <<phone, state, resolved, due, lost, beside, failed, Absent, Active>>
  BY <1>1 DEF rows, notes, Absent, Active
<1>5. CASE identity[s] = None
  <2>1. identity' = [identity EXCEPT ![s] = req[r].id] /\ Goto(r, "touch")
    BY <1>5 DEF LinkIdentity
  <2>2. /\ At(r, "touch")
        /\ req'[r].id = req[r].id
        /\ req'[r].deleted = req[r].deleted /\ req'[r].new = req[r].new
    BY <1>0, <2>1, Goes DEF Steps
  <2>3. /\ identity' \in [Senders -> CustomerOrNone]
        /\ identity'[s] = req[r].id
        /\ \A t \in Senders \ {s} : identity'[t] = identity[t]
    BY <1>0, <1>2, <1>3, <2>1 DEF CustomersTypeOK
  <2>4. CustomersTypeOK'
    BY <1>0, <1>1, <1>4, <2>2, <2>3 DEF CustomersTypeOK, At
  <2>5. Fits(r)'
    BY <1>1, <1>2, <2>2 DEF Fits, At
  <2>6. Resolves(r)'
    BY <1>1, <1>2, <1>3, <2>2, <2>3 DEF Resolves, At
  <2>7. Steady(r)'
    BY <1>1, <1>4, <2>2 DEF CustomersInv, Steady, At
  <2>8. SendersFit'
    <3>1. resolved[s] = {}
      BY <1>0, <1>2, <1>5, NoCustomer DEF CustomersTypeOK, SendersFit
    <3> QED
      BY <1>0, <1>2, <1>3, <1>4, <2>3, <3>1 DEF SendersFit
  <2>9. \A q \in Requests \ {r} :
            req[q].op = "inbound" /\ beside'[q] = {} => beside[q] = {} /\ Kept
    BY <1>4, RowsKept
  <2>10. \A t \in Senders : identity[t] # None => identity'[t] = identity[t]
    BY <1>5, <2>3
  <2>11. \A c : Owes(r, c) => Owes(r, c)'
    BY <1>1, <2>2 DEF Owes, At
  <2>12. \A c \in due' \ lost' : (c \in due \ lost /\ ~Owes(r, c)) \/ Owes(r, c)'
    BY <1>4, <2>11
  <2>13. Absent' \subseteq Absent
    BY <1>4
  <2> QED
    BY <2>2, <2>4, <2>5, <2>6, <2>7, <2>8, <2>9, <2>10, <2>12, <2>13, OneHandler DEF At
<1>6. CASE identity[s] # None
  <2>1. UNCHANGED identity /\ Goto(r, "reread")
    BY <1>6 DEF LinkIdentity
  <2>2. At(r, "reread") /\ req'[r].id = req[r].id /\ req'[r].new = req[r].new
    BY <1>0, <2>1, Goes DEF Steps
  <2>3. Fits(r)' /\ Steady(r)'
    BY <1>1, <1>2, <2>2 DEF Fits, Steady, At
  <2>4. Resolves(r)'
    BY <1>1, <1>2, <1>3, <1>6, <2>1, <2>2 DEF Resolves, At
  <2>5. \A c : Owes(r, c) => Owes(r, c)'
    BY <1>1, <2>2 DEF Owes, At
  <2> QED
    BY <1>0, <1>1, <2>1, <2>2, <2>3, <2>4, <2>5, PlainStep DEF At, CustomersTypeOK
<1> QED
  BY <1>5, <1>6

LEMMA RereadIdentityInv ==
    ASSUME CustomersInv, NEW r \in Requests, RereadIdentity(r)
    PROVE  CustomersInv'
<1> DEFINE s == Sender(r)
           c == identity[s]
<1>0. CustomersTypeOK /\ SendersFit
  BY DEF CustomersInv
<1>1. /\ req[r].op = "inbound" /\ req[r].at = "reread"
      /\ UNCHANGED <<rows, identity, started, resolved, due, beside, failed>>
  BY DEF RereadIdentity, CustomersInv, Fits
<1>2. /\ s \in Senders /\ req[r].from = {s} /\ \A t \in Senders : req[r].from = {t} => t = s
      /\ c # None
  BY <1>1, Inbounds
<1>3. c \in CustomerOrNone /\ c \in Customer \ Absent
  BY <1>0, <1>2, SomeCustomer DEF CustomersTypeOK, SendersFit
<1>4. UNCHANGED <<phone, state, Absent, Active>>
  BY <1>1 DEF rows, Absent, Active
<1>5. ASSUME NEW gone \in BOOLEAN, gone <=> state[c] = "deleted",
             req' = [req EXCEPT ![r].at = "touch", ![r].id = c, ![r].new = FALSE,
                                 ![r].deleted = gone]
      PROVE  /\ At(r, "touch") /\ req'[r].id = c /\ ~req'[r].new
             /\ req'[r].deleted <=> state[c] = "deleted"
  <2> DEFINE h == [req[r] EXCEPT !.at = "touch", !.id = c, !.new = FALSE, !.deleted = gone]
  <2>1. req[r] \in Handlers
    BY <1>0 DEF CustomersTypeOK
  <2>2. h \in Handlers
    BY <1>3, <2>1 DEF Handlers, Steps
  <2>3. req' = [req EXCEPT ![r] = h]
    BY <1>5, Zenon
  <2>4. req' \in [Requests -> Handlers] /\ Others(r) /\ req'[r] = h
    BY <1>0, <2>2, <2>3, Becomes
  <2>5. /\ req'[r].at = "touch" /\ req'[r].id = c /\ req'[r].new = FALSE /\ req'[r].deleted = gone
        /\ req'[r].op = req[r].op /\ req'[r].phone = req[r].phone /\ req'[r].from = req[r].from
    BY <2>1, <2>4 DEF Handlers
  <2>6. req'[r].deleted <=> state[c] = "deleted"
    BY <1>5, <2>5
  <2> QED
    BY <2>4, <2>5, <2>6 DEF At
<1>6. /\ At(r, "touch") /\ req'[r].id = c /\ ~req'[r].new
      /\ req'[r].deleted <=> state[c] = "deleted"
  <2> DEFINE gone == state[c] = "deleted"
  <2>1. gone \in BOOLEAN /\ (gone <=> state[c] = "deleted")
    OBVIOUS
  <2>2. req' = [req EXCEPT ![r].at = "touch", ![r].id = c, ![r].new = FALSE,
                                 ![r].deleted = gone]
    BY DEF RereadIdentity
  <2> HIDE DEF gone
  <2> QED
    BY <1>5, <2>1, <2>2
<1>7. lost' = IF req[r].new THEN lost \cup {req[r].id} ELSE lost
  BY DEF RereadIdentity
<1>8. lost' \subseteq Customer
  <2>1. req[r].id \in CustomerOrNone /\ req[r].id # None
    BY <1>0, <1>1 DEF CustomersInv, Resolves, CustomersTypeOK, Handlers
  <2> QED
    BY <1>0, <1>7, <2>1, SomeCustomer DEF CustomersTypeOK
<1>9. CustomersTypeOK'
  BY <1>0, <1>1, <1>4, <1>6, <1>8 DEF CustomersTypeOK, At
<1>10. Fits(r)'
  BY <1>1, <1>2, <1>6 DEF Fits, At
<1>11. Resolves(r)'
  BY <1>1, <1>2, <1>6 DEF Resolves, At
<1>12. Steady(r)'
  BY <1>3, <1>4, <1>6, ReadAlive DEF Steady, At
<1>13. ASSUME NEW d \in due' \ lost' PROVE d \in due \ lost /\ ~Owes(r, d)
  BY <1>1, <1>7, <1>13 DEF Owes
<1>14. UNCHANGED <<phone, state, identity, resolved, beside>>
  BY <1>1, <1>4
<1> QED
  BY <1>6, <1>9, <1>10, <1>11, <1>12, <1>13, <1>14, QuietStep DEF At

\* A row that is there is restored.
LEMMA RestoreKeeps ==
    ASSUME CustomersInv, NEW c \in Customer, Restored(c)
    PROVE  /\ state' \in [Customer -> {"absent", "active", "deleted"}]
           /\ due' \subseteq Customer /\ due' = due \cup {c}
           /\ c \in Active'
           /\ \A d \in Customer \ Absent : state'[d] \in {state[d], "active"}
BY DEF CustomersInv, CustomersTypeOK, Restored, Absent, Active

LEMMA TouchInv ==
    ASSUME CustomersInv, NEW r \in Requests, Touch(r)
    PROVE  CustomersInv'
<1> DEFINE s == Sender(r)
           c == req[r].id
<1>0. CustomersTypeOK /\ SendersFit
  BY DEF CustomersInv
<1>1. /\ req[r].op = "inbound" /\ req[r].at = "touch"
      /\ UNCHANGED <<phone, identity, started, resolved, lost, beside, failed>>
  BY DEF Touch, CustomersInv, Fits
<1>2. /\ s \in Senders /\ req[r].from = {s} /\ \A t \in Senders : req[r].from = {t} => t = s
      /\ c = identity[s] /\ c # None
  BY <1>1, Inbounds
<1>3. c \in Customer \ Absent
  BY <1>0, <1>2, SomeCustomer DEF CustomersTypeOK, SendersFit
<1>4. CASE req[r].deleted
  <2>1. Goto(r, "announce") /\ Restored(c)
    BY <1>4 DEF Touch
  <2>2. At(r, "announce") /\ req'[r].id = c
    BY <1>0, <2>1, Goes DEF Steps
  <2>3. /\ state' \in [Customer -> {"absent", "active", "deleted"}]
        /\ due' \subseteq Customer /\ due' = due \cup {c}
        /\ c \in Active'
        /\ \A d \in Customer \ Absent : state'[d] \in {state[d], "active"}
    BY <1>3, <2>1, RestoreKeeps
  <2>4. CustomersTypeOK'
    BY <1>0, <1>1, <2>2, <2>3 DEF CustomersTypeOK, At
  <2>5. Fits(r)'
    BY <1>1, <1>2, <2>2 DEF Fits, At
  <2>6. Resolves(r)' /\ Steady(r)'
    BY <1>1, <1>2, <2>2, <2>3 DEF Resolves, Steady, At
  <2>7. ASSUME NEW d \in due' \ lost' PROVE (d \in due \ lost /\ ~Owes(r, d)) \/ Owes(r, d)'
    BY <1>1, <2>2, <2>3, <2>7 DEF Owes, At
  <2> QED
    BY <1>1, <2>2, <2>3, <2>4, <2>5, <2>6, <2>7, QuietStep DEF At
<1>5. CASE ~req[r].deleted
  <2>1. UNCHANGED <<rows, identity, started, notes>>
    BY <1>1, <1>5 DEF Touch, rows, notes
  <2>2. PICK at \in {"announce", "return"} :
            /\ At(r, at) /\ req'[r].id = c
            /\ at = "return" => ~req[r].new
    <3>1. CASE req[r].new
      <4>1. Goto(r, "announce")
        BY <3>1 DEF Touch
      <4> QED
        BY <1>0, <4>1, Goes DEF Steps
    <3>2. CASE ~req[r].new
      <4>1. Goto(r, "return")
        BY <1>5, <3>2 DEF Touch
      <4> QED
        BY <1>0, <3>2, <4>1, Goes DEF Steps
    <3> QED
      BY <3>1, <3>2
  <2>3. Fits(r)'
    BY <1>1, <1>2, <2>2 DEF Fits, At
  <2>4. Resolves(r)'
    BY <1>1, <1>2, <2>2 DEF Resolves, At
  <2>5. Active' = Active /\ beside' = beside
    BY <1>1, <2>1 DEF Active, rows
  <2>6. Steady(r)'
    BY <1>1, <1>5, <2>2, <2>5 DEF CustomersInv, Steady, At
  <2>7. \A d : Owes(r, d) => Owes(r, d)'
    BY <1>1, <2>2 DEF Owes, At
  <2> QED
    BY <1>0, <2>1, <2>2, <2>3, <2>4, <2>6, <2>7, PlainStep DEF At, CustomersTypeOK
<1> QED
  BY <1>4, <1>5

LEMMA ReturnCustomerInv ==
    ASSUME CustomersInv, NEW r \in Requests, ReturnCustomer(r)
    PROVE  CustomersInv'
<1> DEFINE s == Sender(r)
           c == req[r].id
<1>0. CustomersTypeOK /\ SendersFit
  BY DEF CustomersInv
<1>1. /\ req[r].op = "inbound" /\ req[r].at = "return"
      /\ UNCHANGED <<rows, identity, started, due, beside>>
  BY DEF ReturnCustomer, CustomersInv, Fits
<1>2. s \in Senders /\ c = identity[s] /\ c # None
  BY <1>1, Inbounds
<1>3. \A d : ~Owes(r, d)
  BY <1>1 DEF Owes
<1>4. CASE req[r].deleted /\ c \notin Active
  <2>1. Throw(r) /\ UNCHANGED resolved
    BY <1>4 DEF ReturnCustomer
  <2> QED
    BY <1>1, <2>1, ThrowInv
<1>5. CASE ~(req[r].deleted /\ c \notin Active)
  <2>1. /\ End(r) /\ resolved' = [resolved EXCEPT ![s] = @ \cup {c}]
        /\ UNCHANGED <<failed, lost>>
    BY <1>5 DEF ReturnCustomer
  <2>2. /\ req' \in [Requests -> Handlers] /\ Others(r)
        /\ req'[r].at = "idle" /\ req'[r].op = "none"
    BY <1>0, <2>1, Ends
  <2>3. Fits(r)' /\ Resolves(r)' /\ Steady(r)'
    BY <2>2, OverFits
  <2>4. UNCHANGED <<phone, state, Absent>>
    BY <1>1 DEF rows, Absent
  <2>5. c \in Customer
    BY <1>0, <1>2, SomeCustomer DEF CustomersTypeOK
  <2>6. CustomersTypeOK'
    BY <1>0, <1>1, <1>2, <2>1, <2>2, <2>4, <2>5 DEF CustomersTypeOK
  <2>7. SendersFit'
    BY <1>0, <1>1, <1>2, <2>1, <2>4 DEF CustomersTypeOK, SendersFit
  <2>8. \A q \in Requests \ {r} :
            req[q].op = "inbound" /\ beside'[q] = {} => beside[q] = {} /\ Kept
    BY <1>1, <2>4, RowsKept
  <2>9. /\ Absent' \subseteq Absent
        /\ \A t \in Senders : identity[t] # None => identity'[t] = identity[t]
        /\ \A d \in due' \ lost' : (d \in due \ lost /\ ~Owes(r, d)) \/ Owes(r, d)'
    BY <1>1, <1>3, <2>1, <2>4
  <2> QED
    BY <2>2, <2>3, <2>6, <2>7, <2>8, <2>9, OneHandler
<1> QED
  BY <1>4, <1>5

LEMMA AnnounceInv ==
    ASSUME CustomersInv, NEW r \in Requests, Announce(r)
    PROVE  CustomersInv'
<1>0. CustomersTypeOK
  BY DEF CustomersInv
<1>1. /\ req[r].at = "announce"
      /\ UNCHANGED <<rows, identity, started, resolved, lost, beside, failed>>
  BY DEF Announce
<1>2. UNCHANGED <<phone, state, Active>>
  BY <1>1 DEF rows, Active
<1>3. due' \subseteq Customer /\ \A c \in due' : c \in due /\ req[r].op = "import" /\ ~req[r].new
  BY <1>0 DEF Announce, CustomersTypeOK
<1>4. \A c \in due' \ lost' : c \in due \ lost /\ ~Owes(r, c)
  BY <1>1, <1>3 DEF Owes
<1>5. /\ req' \in [Requests -> Handlers] /\ Others(r)
      /\ Fits(r)' /\ Resolves(r)' /\ Steady(r)'
  <2>1. CASE req[r].op = "inbound"
    <3>1. Goto(r, "return")
      BY <2>1 DEF Announce
    <3>2. At(r, "return") /\ req'[r].id = req[r].id
      BY <1>0, <3>1, Goes DEF Steps
    <3>3. \E s \in Senders : req[r].from = {s}
      BY <2>1 DEF CustomersInv, Fits
    <3>4. Fits(r)'
      BY <2>1, <3>2, <3>3 DEF Fits, At
    <3>5. Resolves(r)'
      BY <1>1, <2>1, <3>2 DEF CustomersInv, Resolves, At
    <3>6. Steady(r)'
      BY <1>1, <1>2, <2>1, <3>2 DEF CustomersInv, Steady, At
    <3> QED
      BY <3>2, <3>4, <3>5, <3>6 DEF At
  <2>2. CASE req[r].op # "inbound"
    <3>1. End(r)
      BY <2>2 DEF Announce
    <3>2. /\ req' \in [Requests -> Handlers] /\ Others(r)
          /\ req'[r].at = "idle" /\ req'[r].op = "none"
      BY <1>0, <3>1, Ends
    <3> QED
      BY <3>2, OverFits
  <2> QED
    BY <2>1, <2>2
<1>6. CustomersTypeOK'
  BY <1>0, <1>1, <1>2, <1>3, <1>5 DEF CustomersTypeOK
<1> QED
  BY <1>1, <1>2, <1>4, <1>5, <1>6, QuietStep
-----------------------------------------------------------------------------
LEMMA NotInbound ==
    ASSUME NEW r, req'[r].op # "inbound"
    PROVE  Resolves(r)' /\ Steady(r)'
BY DEF Resolves, Steady

\* A deletion or a new number is marked beside all that run.
LEMMA Marked ==
    ASSUME CustomersInv, NEW what \in {"renumbered", "removed"}, Mark(what)
    PROVE  /\ beside' \in [Requests -> SUBSET {"renumbered", "removed"}]
           /\ \A q \in Requests : req[q].op = "inbound" => beside'[q] # {}
BY DEF CustomersInv, CustomersTypeOK, Mark, Running, Fits

LEMMA StartCreateInv ==
    ASSUME CustomersInv, NEW r \in Requests, NEW p \in Phones, StartCreate(r, p)
    PROVE  CustomersInv'
<1> DEFINE fields == [Idle EXCEPT !.at = "lookup", !.phone = p]
<1>1. [fields EXCEPT !.op = "create"] \in Handlers
  BY NoCustomer DEF Handlers, Idle, Steps
<1>2. /\ req' \in [Requests -> Handlers] /\ Others(r)
      /\ req'[r] = [fields EXCEPT !.op = "create"]
      /\ \A c : ~Owes(r, c)
      /\ started' \in Nat /\ identity' = identity
  <2>1. Start(r, "create", fields)
    BY DEF StartCreate
  <2> HIDE DEF fields
  <2> QED
    BY <1>1, <2>1, Begins
<1>3. req'[r].at = "lookup" /\ req'[r].op = "create"
  BY <1>2 DEF Idle
<1>4. Fits(r)' /\ Resolves(r)' /\ Steady(r)'
  BY <1>3, NotInbound DEF Fits
<1>5. UNCHANGED <<rows, notes>>
  BY DEF StartCreate
<1> QED
  BY <1>2, <1>4, <1>5, PlainStep

LEMMA FindHolderInv ==
    ASSUME CustomersInv, NEW r \in Requests, FindHolder(r)
    PROVE  CustomersInv'
<1> DEFINE c == Holder(req[r].phone)
<1>0. CustomersTypeOK
  BY DEF CustomersInv
<1>1. /\ req[r].op = "create" /\ req[r].at = "lookup"
      /\ UNCHANGED <<rows, identity, started, notes>>
  BY DEF FindHolder, CustomersInv, Fits
<1>2. (\A d : ~Owes(r, d)) /\ started' \in Nat
  BY <1>0, <1>1 DEF Owes, CustomersTypeOK
<1>3. CASE c = None
  <2>1. At(r, "insert")
    <3>1. c \notin Active
      BY <1>3, NoCustomer DEF Active
    <3>2. Goto(r, "insert")
      BY <1>3, <3>1 DEF FindHolder
    <3> QED
      BY <1>0, <3>2, Goes DEF Steps
  <2>2. Fits(r)' /\ Resolves(r)' /\ Steady(r)'
    BY <1>1, <2>1, NotInbound DEF Fits, At
  <2> QED
    BY <1>1, <1>2, <2>1, <2>2, PlainStep DEF At
<1>4. CASE c # None /\ c \in Active
  <2>1. End(r)
    BY <1>4 DEF FindHolder
  <2> QED
    BY <1>1, <1>2, <2>1, EndInv
<1>5. CASE c # None /\ c \notin Active
  <2>1. At(r, "restore") /\ req'[r].id = c
    <3>1. Read(r, "restore", c)
      BY <1>3, <1>4, <1>5 DEF FindHolder
    <3>2. c \in CustomerOrNone
      BY <1>0, HolderHolds
    <3> HIDE DEF c
    <3> QED
      BY <1>0, <3>1, <3>2, Reads DEF Steps
  <2>2. Fits(r)' /\ Resolves(r)' /\ Steady(r)'
    BY <1>1, <1>5, <2>1, NotInbound DEF Fits, At
  <2> QED
    BY <1>1, <1>2, <2>1, <2>2, PlainStep DEF At
<1> QED
  BY <1>3, <1>4, <1>5

LEMMA InsertInv ==
    ASSUME CustomersInv, NEW r \in Requests, NEW c \in Absent, Insert(r, c)
    PROVE  CustomersInv'
<1>0. CustomersTypeOK
  BY DEF CustomersInv
<1>1. /\ req[r].op = "create" /\ req[r].at = "insert"
      /\ UNCHANGED <<identity, started, resolved, lost, beside, failed>>
  BY DEF Insert, CustomersInv, Fits
<1>2. \A d : ~Owes(r, d)
  BY <1>1 DEF Owes
<1>3. CASE Holders(req[r].phone) = {}
  <2> DEFINE h == [req[r] EXCEPT !.at = "announce", !.id = c]
  <2>1. req[r] \in Handlers /\ c \in CustomerOrNone
    BY <1>0, NoCustomer DEF CustomersTypeOK, Absent
  <2>2. h \in Handlers
    BY <2>1 DEF Handlers, Steps
  <2>3. req' = [req EXCEPT ![r] = h] /\ Inserted(c, req[r].phone)
    BY <1>3, Zenon DEF Insert
  <2>4. req' \in [Requests -> Handlers] /\ Others(r) /\ req'[r] = h
    BY <1>0, <2>2, <2>3, Becomes
  <2>5. req'[r].at = "announce" /\ req'[r].op = "create" /\ req'[r].id = c
    BY <1>1, <2>1, <2>4 DEF Handlers
  <2>6. req[r].phone \in Phones \cup {NoPhone}
    BY <2>1 DEF Handlers
  <2>7. /\ phone' \in [Customer -> Phones \cup {NoPhone}]
        /\ state' \in [Customer -> {"absent", "active", "deleted"}]
        /\ due' \subseteq Customer /\ due' = due \cup {c}
        /\ \A d \in Customer \ Absent :
               phone'[d] = phone[d] /\ state'[d] \in {state[d], "active"}
    BY <2>3, <2>6, InsertKeeps
  <2>8. CustomersTypeOK'
    BY <1>0, <1>1, <2>4, <2>7 DEF CustomersTypeOK
  <2>9. Fits(r)' /\ Resolves(r)' /\ Steady(r)'
    BY <2>5, NotInbound DEF Fits
  <2>10. Owes(r, c)'
    BY <2>5 DEF Owes
  <2>11. \A d \in due' \ lost' : (d \in due \ lost /\ ~Owes(r, d)) \/ Owes(r, d)'
    BY <1>1, <1>2, <2>7, <2>10
  <2> QED
    BY <1>1, <2>4, <2>7, <2>8, <2>9, <2>11, QuietStep
<1>4. CASE Holders(req[r].phone) # {}
  <2>1. End(r) /\ UNCHANGED <<rows, identity, started, notes>>
    BY <1>1, <1>4 DEF Insert, notes
  <2> QED
    BY <1>2, <2>1, EndInv
<1> QED
  BY <1>3, <1>4

\* A handler of an agent that deletes or renumbers.
LEMMA MarkedStep ==
    ASSUME CustomersInv, NEW r \in Requests, NEW what \in {"renumbered", "removed"}, Mark(what),
           CustomersTypeOK', Others(r), Fits(r)', req'[r].op # "inbound",
           UNCHANGED <<identity, resolved>>, Absent' \subseteq Absent,
           \A c \in due' \ lost' : (c \in due \ lost /\ ~Owes(r, c)) \/ Owes(r, c)'
    PROVE  CustomersInv'
<1>1. Resolves(r)' /\ Steady(r)'
  BY NotInbound
<1>2. SendersFit'
  BY DEF CustomersInv, SendersFit
<1>3. \A q \in Requests \ {r} :
          req[q].op = "inbound" /\ beside'[q] = {} => beside[q] = {} /\ Kept
  BY Marked
<1>4. \A s \in Senders : identity[s] # None => identity'[s] = identity[s]
  OBVIOUS
<1> QED
  BY <1>1, <1>2, <1>3, <1>4, OneHandler

LEMMA RestoreInv ==
    ASSUME CustomersInv, NEW r \in Requests, Restore(r)
    PROVE  CustomersInv'
<1> DEFINE c == req[r].id
<1>0. CustomersTypeOK
  BY DEF CustomersInv
<1>1. /\ req[r].at = "restore"
      /\ req[r].op = "create" \/ (req[r].op = "import" /\ req[r].new)
      /\ c # None
      /\ UNCHANGED <<phone, identity, started, resolved, lost, beside, failed>>
  BY DEF Restore, CustomersInv, Fits
<1>2. c \in Customer
  BY <1>0, <1>1, SomeCustomer DEF CustomersTypeOK, Handlers
<1>3. Restored(c) /\ Goto(r, "apply")
  BY DEF Restore
<1>4. /\ At(r, "apply") /\ req'[r].id = c /\ req'[r].new = req[r].new
      /\ req'[r].todo = req[r].todo
  BY <1>0, <1>3, Goes DEF Steps
<1>5. /\ state' \in [Customer -> {"absent", "active", "deleted"}]
      /\ due' \subseteq Customer /\ due' = due \cup {c}
      /\ \A d \in Customer \ Absent : state'[d] \in {state[d], "active"}
  BY <1>2, <1>3, RestoreKeeps
<1>6. CustomersTypeOK'
  BY <1>0, <1>1, <1>4, <1>5 DEF CustomersTypeOK, At
<1>7. Fits(r)'
  BY <1>1, <1>4 DEF CustomersInv, Fits, At
<1>8. Resolves(r)' /\ Steady(r)'
  BY <1>1, <1>4, NotInbound DEF At
<1>9. \A d : d = c \/ Owes(r, d) => Owes(r, d)'
  BY <1>1, <1>4 DEF Owes, At
<1>10. \A d \in due' \ lost' : (d \in due \ lost /\ ~Owes(r, d)) \/ Owes(r, d)'
  BY <1>1, <1>5, <1>9
<1> QED
  BY <1>1, <1>4, <1>5, <1>6, <1>7, <1>8, <1>10, QuietStep DEF At

LEMMA ApplyInv ==
    ASSUME CustomersInv, NEW r \in Requests, Apply(r)
    PROVE  CustomersInv'
<1> DEFINE c == req[r].id
<1>0. CustomersTypeOK
  BY DEF CustomersInv
<1>1. /\ req[r].at = "apply"
      /\ req[r].op = "create" \/ (req[r].op = "import" /\ req[r].new)
      /\ c # None
      /\ UNCHANGED <<state, identity, started, resolved, due>>
  BY DEF Apply, CustomersInv, Fits
<1>2. CASE Holders(req[r].phone) \subseteq {c}
  <2>1. /\ phone' = [phone EXCEPT ![c] = req[r].phone]
        /\ Goto(r, "readback") /\ UNCHANGED <<failed, lost>>
    BY <1>2 DEF Apply
  <2>2. /\ At(r, "readback") /\ req'[r].id = c /\ req'[r].new = req[r].new
        /\ req'[r].todo = req[r].todo
    BY <1>0, <2>1, Goes DEF Steps
  <2>3. phone' \in [Customer -> Phones \cup {NoPhone}]
    BY <1>0, <2>1 DEF CustomersTypeOK, Handlers
  <2>4. Fits(r)' /\ req'[r].op # "inbound"
    BY <1>1, <2>2 DEF CustomersInv, Fits, At
  <2>5. Resolves(r)' /\ Steady(r)'
    BY <2>4, NotInbound
  <2>6. \A d : Owes(r, d) => Owes(r, d)'
    BY <1>1, <2>2 DEF Owes, At
  <2>7. \A d \in due' \ lost' : (d \in due \ lost /\ ~Owes(r, d)) \/ Owes(r, d)'
    BY <1>1, <2>1, <2>6
  <2>8. Absent' = Absent
    BY <1>1 DEF Absent
  <2>9. CASE phone[c] = req[r].phone
    <3>1. beside' = beside
      BY <1>2, <2>9 DEF Apply
    <3>2. \A d \in Customer : phone'[d] = phone[d]
      BY <1>0, <2>1, <2>9 DEF CustomersTypeOK
    <3>3. CustomersTypeOK'
      BY <1>0, <1>1, <2>1, <2>2, <2>3, <3>1 DEF CustomersTypeOK, At
    <3> QED
      BY <1>1, <2>2, <2>4, <2>5, <2>7, <3>1, <3>2, <3>3, QuietStep DEF At
  <2>10. CASE phone[c] # req[r].phone
    <3>1. Mark("renumbered")
      BY <1>2, <2>10 DEF Apply
    <3>2. CustomersTypeOK'
      BY <1>0, <1>1, <2>1, <2>2, <2>3, <3>1, Marked DEF CustomersTypeOK, At
    <3> QED
      BY <1>1, <2>2, <2>4, <2>7, <2>8, <3>1, <3>2, MarkedStep DEF At
  <2> QED
    BY <2>9, <2>10
<1>3. CASE ~(Holders(req[r].phone) \subseteq {c})
  <2>1. Throw(r) /\ UNCHANGED <<phone, beside>>
    BY <1>3 DEF Apply
  <2>2. UNCHANGED rows
    BY <1>1, <2>1 DEF rows
  <2> QED
    BY <1>1, <2>1, <2>2, ThrowInv
<1> QED
  BY <1>2, <1>3

LEMMA ReadBackInv ==
    ASSUME CustomersInv, NEW r \in Requests, ReadBack(r)
    PROVE  CustomersInv'
<1> DEFINE c == req[r].id
<1>0. CustomersTypeOK
  BY DEF CustomersInv
<1>1. /\ req[r].at = "readback"
      /\ req[r].op = "create" \/ (req[r].op = "import" /\ req[r].new)
      /\ UNCHANGED <<rows, identity, started, resolved, due, beside>>
  BY DEF ReadBack, CustomersInv, Fits
<1>2. CASE c \in Active
  <2>1. UNCHANGED notes /\ started' \in Nat
    BY <1>0, <1>1, <1>2 DEF ReadBack, notes, CustomersTypeOK
  <2>2. PICK at \in {"import", "announce"} :
            /\ At(r, at) /\ req'[r].id = c /\ req'[r].new = req[r].new
            /\ req'[r].todo = req[r].todo
            /\ at = "import" <=> req[r].op = "import"
    <3>1. CASE req[r].op = "import"
      <4>1. Goto(r, "import")
        BY <1>2, <3>1 DEF ReadBack
      <4> QED
        BY <1>0, <3>1, <4>1, Goes DEF Steps
    <3>2. CASE req[r].op # "import"
      <4>1. Goto(r, "announce")
        BY <1>2, <3>2 DEF ReadBack
      <4> QED
        BY <1>0, <3>2, <4>1, Goes DEF Steps
    <3> QED
      BY <3>1, <3>2
  <2>3. Fits(r)' /\ Resolves(r)' /\ Steady(r)'
    <3>1. Fits(r)'
      BY <1>1, <2>2 DEF CustomersInv, Fits, At
    <3> QED
      BY <1>1, <2>2, <3>1, NotInbound DEF At
  <2>4. \A d : Owes(r, d) => Owes(r, d)'
    BY <1>1, <2>2 DEF Owes, At
  <2> QED
    BY <1>1, <2>1, <2>2, <2>3, <2>4, PlainStep DEF At
<1>3. CASE c \notin Active
  <2>1. Throw(r)
    BY <1>3 DEF ReadBack
  <2> QED
    BY <1>1, <2>1, ThrowInv
<1> QED
  BY <1>2, <1>3
-----------------------------------------------------------------------------
LEMMA StartUpdateInv ==
    ASSUME CustomersInv, NEW r \in Requests, NEW c \in Customer, NEW p \in Phones,
           StartUpdate(r, c, p)
    PROVE  CustomersInv'
<1> DEFINE at == IF phone[c] = p THEN "write" ELSE "claim"
           fields == [Idle EXCEPT !.at = at, !.phone = p, !.id = c]
<1>1. at \in {"write", "claim"}
  OBVIOUS
<1>2. Start(r, "update", fields)
  BY DEF StartUpdate
<1> HIDE DEF at
<1>3. [fields EXCEPT !.op = "update"] \in Handlers
  BY <1>1, NoCustomer DEF Handlers, Idle, Steps
<1>4. /\ req' \in [Requests -> Handlers] /\ Others(r)
      /\ req'[r] = [fields EXCEPT !.op = "update"]
      /\ \A d : ~Owes(r, d)
      /\ started' \in Nat /\ identity' = identity
  <2> HIDE DEF fields
  <2> QED
    BY <1>2, <1>3, Begins
<1>5. req'[r].at = at /\ req'[r].op = "update" /\ req'[r].id = c
  BY <1>4 DEF Idle
<1>6. Fits(r)' /\ Resolves(r)' /\ Steady(r)'
  BY <1>1, <1>5, NoCustomer, NotInbound DEF Fits
<1>7. UNCHANGED <<rows, notes>>
  BY DEF StartUpdate
<1> QED
  BY <1>4, <1>6, <1>7, PlainStep

LEMMA ClaimInv ==
    ASSUME CustomersInv, NEW r \in Requests, Claim(r)
    PROVE  CustomersInv'
<1> DEFINE h == Holder(req[r].phone)
           c == req[r].id
<1>0. CustomersTypeOK
  BY DEF CustomersInv
<1>1. /\ req[r].op = "update" /\ req[r].at = "claim" /\ c # None
      /\ UNCHANGED <<rows, identity, started, notes>>
  BY DEF Claim, CustomersInv, Fits
<1>2. (\A d : ~Owes(r, d)) /\ started' \in Nat
  BY <1>0, <1>1 DEF Owes, CustomersTypeOK
<1>3. None \notin Active
  BY NoCustomer DEF Active
<1>4. CASE h \in {None, c}
  <2>1. Goto(r, "write")
    BY <1>3, <1>4 DEF Claim
  <2>2. At(r, "write") /\ req'[r].id = c
    BY <1>0, <2>1, Goes DEF Steps
  <2>3. Fits(r)' /\ Resolves(r)' /\ Steady(r)'
    BY <1>1, <2>2, NotInbound DEF Fits, At
  <2> QED
    BY <1>1, <1>2, <2>2, <2>3, PlainStep DEF At
<1>5. CASE h \in Active \ {c}
  <2>1. End(r)
    BY <1>3, <1>5 DEF Claim
  <2> QED
    BY <1>1, <1>2, <2>1, EndInv
<1>6. CASE h \notin {None, c} \cup Active
  <2> DEFINE k == [req[r] EXCEPT !.at = "release", !.todo = {h}]
  <2>1. req[r] \in Handlers /\ h \in Customer
    <3>1. h \in CustomerOrNone
      BY <1>0, HolderHolds
    <3> QED
      BY <1>0, <1>6, <3>1, SomeCustomer DEF CustomersTypeOK
  <2>2. k \in Handlers
    BY <2>1 DEF Handlers, Steps
  <2>3. req' = [req EXCEPT ![r] = k]
    <3>1. req' = [req EXCEPT ![r].at = "release", ![r].todo = {h}]
      BY <1>6 DEF Claim
    <3> QED
      BY <3>1, Zenon
  <2>4. req' \in [Requests -> Handlers] /\ Others(r) /\ req'[r] = k
    BY <1>0, <2>2, <2>3, Becomes
  <2>5. /\ req'[r].at = "release" /\ req'[r].op = "update" /\ req'[r].id = c
        /\ req'[r].todo = {h}
    BY <1>1, <2>1, <2>4 DEF Handlers
  <2>6. Fits(r)' /\ Resolves(r)' /\ Steady(r)'
    BY <1>1, <2>1, <2>5, NotInbound DEF Fits
  <2> QED
    BY <1>1, <1>2, <2>4, <2>6, PlainStep
<1> QED
  BY <1>4, <1>5, <1>6

LEMMA ReleaseInv ==
    ASSUME CustomersInv, NEW r \in Requests, Release(r)
    PROVE  CustomersInv'
<1>0. CustomersTypeOK
  BY DEF CustomersInv
<1>1. /\ req[r].op = "update" /\ req[r].at = "release" /\ req[r].id # None
      /\ UNCHANGED <<state, identity, started, resolved, due, lost, failed>>
      /\ Goto(r, "write") /\ Mark("renumbered")
  BY DEF Release, CustomersInv, Fits
<1>2. At(r, "write") /\ req'[r].id = req[r].id
  BY <1>0, <1>1, Goes DEF Steps
<1>3. phone' \in [Customer -> Phones \cup {NoPhone}]
  BY <1>0 DEF Release, CustomersTypeOK
<1>4. CustomersTypeOK'
  BY <1>0, <1>1, <1>2, <1>3, Marked DEF CustomersTypeOK, At
<1>5. Fits(r)' /\ req'[r].op # "inbound"
  BY <1>1, <1>2 DEF Fits, At
<1>6. \A c : ~Owes(r, c)
  BY <1>1 DEF Owes
<1>7. Absent' = Absent
  BY <1>1 DEF Absent
<1> QED
  BY <1>1, <1>2, <1>4, <1>5, <1>6, <1>7, MarkedStep DEF At

LEMMA WriteInv ==
    ASSUME CustomersInv, NEW r \in Requests, Write(r)
    PROVE  CustomersInv'
<1> DEFINE c == req[r].id
<1>0. CustomersTypeOK
  BY DEF CustomersInv
<1>1. /\ req[r].op = "update" /\ req[r].at = "write" /\ c # None
      /\ UNCHANGED <<state, identity, started, resolved>>
  BY DEF Write, CustomersInv, Fits
<1>2. \A d : ~Owes(r, d)
  BY <1>1 DEF Owes
<1>3. CASE Holders(req[r].phone) \subseteq {c}
  <2>1. /\ phone' = [phone EXCEPT ![c] = req[r].phone]
        /\ due' = due \cup {c}
        /\ Goto(r, "announce") /\ Mark("renumbered") /\ UNCHANGED <<failed, lost>>
    BY <1>3 DEF Write
  <2>2. At(r, "announce") /\ req'[r].id = c
    BY <1>0, <2>1, Goes DEF Steps
  <2>3. phone' \in [Customer -> Phones \cup {NoPhone}]
    BY <1>0, <2>1 DEF CustomersTypeOK, Handlers
  <2>4. c \in Customer
    BY <1>0, <1>1, SomeCustomer DEF CustomersTypeOK, Handlers
  <2>5. CustomersTypeOK'
    BY <1>0, <1>1, <2>1, <2>2, <2>3, <2>4, Marked DEF CustomersTypeOK, At
  <2>6. Fits(r)' /\ req'[r].op # "inbound" /\ \A d : d = c => Owes(r, d)'
    BY <1>1, <2>2 DEF Fits, Owes, At
  <2>7. \A d \in due' \ lost' : (d \in due \ lost /\ ~Owes(r, d)) \/ Owes(r, d)'
    BY <1>2, <2>1, <2>6
  <2>8. Absent' = Absent
    BY <1>1 DEF Absent
  <2> QED
    BY <1>1, <2>1, <2>2, <2>5, <2>6, <2>7, <2>8, MarkedStep DEF At
<1>4. CASE ~(Holders(req[r].phone) \subseteq {c})
  <2>1. Throw(r) /\ UNCHANGED <<phone, due, beside>>
    BY <1>4 DEF Write
  <2>2. UNCHANGED rows
    BY <1>1, <2>1 DEF rows
  <2> QED
    BY <1>1, <1>2, <2>1, <2>2, ThrowInv
<1> QED
  BY <1>3, <1>4
-----------------------------------------------------------------------------
LEMMA RemoveInv ==
    ASSUME CustomersInv, NEW r \in Requests, NEW C \in SUBSET Customer, Remove(r, C)
    PROVE  CustomersInv'
<1> DEFINE gone == C \cap Active
           fields == [Idle EXCEPT !.at = "announce", !.todo = gone]
<1>0. CustomersTypeOK
  BY DEF CustomersInv
<1>1. /\ Start(r, "remove", fields) /\ Mark("removed")
      /\ state' = [c \in Customer |-> IF c \in gone THEN "deleted" ELSE state[c]]
      /\ due' = due \cup gone
      /\ UNCHANGED <<phone, resolved, lost, failed>>
  BY DEF Remove
<1>2. gone \subseteq Customer /\ gone \cap Absent = {}
  BY DEF Active, Absent
<1> HIDE DEF gone
<1>3. [fields EXCEPT !.op = "remove"] \in Handlers
  BY <1>2, NoCustomer DEF Handlers, Idle, Steps
<1>4. /\ req' \in [Requests -> Handlers] /\ Others(r)
      /\ req'[r] = [fields EXCEPT !.op = "remove"]
      /\ \A d : ~Owes(r, d)
      /\ started' \in Nat /\ identity' = identity
  <2> HIDE DEF fields
  <2> QED
    BY <1>1, <1>3, Begins
<1>5. req'[r].at = "announce" /\ req'[r].op = "remove" /\ req'[r].todo = gone
  BY <1>4 DEF Idle
<1>6. Fits(r)' /\ req'[r].op # "inbound"
  BY <1>5 DEF Fits
<1>7. \A d \in gone : Owes(r, d)'
  BY <1>5 DEF Owes
<1>8. \A d \in due' \ lost' : (d \in due \ lost /\ ~Owes(r, d)) \/ Owes(r, d)'
  BY <1>1, <1>4, <1>7
<1>9. state' \in [Customer -> {"absent", "active", "deleted"}] /\ Absent' \subseteq Absent
  BY <1>0, <1>1, <1>2 DEF CustomersTypeOK, Absent
<1>10. CustomersTypeOK'
  BY <1>0, <1>1, <1>2, <1>4, <1>9, Marked DEF CustomersTypeOK
<1> QED
  BY <1>1, <1>4, <1>6, <1>8, <1>9, <1>10, MarkedStep

LEMMA StartImportInv ==
    ASSUME CustomersInv, NEW r \in Requests, NEW sheet \in SUBSET Phones, StartImport(r, sheet)
    PROVE  CustomersInv'
<1> DEFINE list == {<<Holder(p), p>> : p \in {q \in sheet : Holders(q) \cap Active = {}}}
           fields == [Idle EXCEPT !.at = "import", !.todo = list]
<1>0. CustomersTypeOK
  BY DEF CustomersInv
<1>1. Start(r, "import", fields)
  BY DEF StartImport
<1>2. list \subseteq Known
  <2>1. \A p \in sheet : Holder(p) \in CustomerOrNone
    BY <1>0, HolderHolds
  <2> QED
    BY <2>1 DEF Known
<1> HIDE DEF list
<1>3. [fields EXCEPT !.op = "import"] \in Handlers
  BY <1>2, NoCustomer DEF Handlers, Idle, Steps
<1>4. /\ req' \in [Requests -> Handlers] /\ Others(r)
      /\ req'[r] = [fields EXCEPT !.op = "import"]
      /\ \A d : ~Owes(r, d)
      /\ started' \in Nat /\ identity' = identity
  <2> HIDE DEF fields
  <2> QED
    BY <1>1, <1>3, Begins
<1>5. req'[r].at = "import" /\ req'[r].op = "import" /\ req'[r].todo = list
  BY <1>4 DEF Idle
<1>6. Fits(r)' /\ Resolves(r)' /\ Steady(r)'
  BY <1>2, <1>5, NotInbound DEF Fits
<1>7. UNCHANGED <<rows, notes>>
  BY DEF StartImport
<1> QED
  BY <1>4, <1>6, <1>7, PlainStep

LEMMA RestoreKnownInv ==
    ASSUME CustomersInv, NEW r \in Requests, NEW known, RestoreKnown(r, known)
    PROVE  CustomersInv'
<1> DEFINE h == [req[r] EXCEPT !.at = "restore", !.todo = req[r].todo \ {known}, !.new = TRUE,
                               !.id = known[1], !.phone = known[2]]
<1>0. CustomersTypeOK
  BY DEF CustomersInv
<1>1. /\ req[r].op = "import" /\ req[r].at = "import" /\ req[r].todo \subseteq Known
      /\ known \in req[r].todo /\ known[1] # None
      /\ UNCHANGED <<rows, identity, started, notes>>
  BY DEF RestoreKnown, CustomersInv, Fits
<1>2. known[1] \in CustomerOrNone /\ known[2] \in Phones
  BY <1>1 DEF Known
<1>3. req[r] \in Handlers
  BY <1>0 DEF CustomersTypeOK
<1>4. h \in Handlers
  BY <1>2, <1>3 DEF Handlers, Steps
<1>5. req' = [req EXCEPT ![r] = h]
  BY Zenon DEF RestoreKnown
<1>6. req' \in [Requests -> Handlers] /\ Others(r) /\ req'[r] = h
  BY <1>0, <1>4, <1>5, Becomes
<1>7. /\ req'[r].at = "restore" /\ req'[r].op = "import" /\ req'[r].new
      /\ req'[r].id = known[1] /\ req'[r].todo \subseteq req[r].todo
  BY <1>1, <1>3, <1>6 DEF Handlers
<1>8. Fits(r)' /\ Resolves(r)' /\ Steady(r)'
  BY <1>1, <1>7, NotInbound DEF Fits
<1>9. \A d : Owes(r, d)'
  BY <1>7 DEF Owes
<1> QED
  BY <1>0, <1>1, <1>6, <1>8, <1>9, PlainStep DEF CustomersTypeOK

LEMMA UnknownPhones ==
    ASSUME CustomersInv, NEW r \in Requests, req[r].op = "import"
    PROVE  Unknown(r) \subseteq Phones
BY DEF CustomersInv, Fits, Known, Unknown

LEMMA InsertChunkInv ==
    ASSUME CustomersInv, NEW r \in Requests, InsertChunk(r)
    PROVE  CustomersInv'
<1> DEFINE fresh == Unknown(r)
<1>0. CustomersTypeOK
  BY DEF CustomersInv
<1>1. /\ req[r].op = "import" /\ req[r].at = "import" /\ req[r].todo \subseteq Known
      /\ UNCHANGED <<identity, started, resolved, lost, beside, failed>>
  BY DEF InsertChunk, CustomersInv, Fits
<1>2. req[r] \in Handlers /\ req[r].new \in BOOLEAN
  BY <1>0 DEF CustomersTypeOK, Handlers
<1>3. CASE \A p \in fresh : Holders(p) = {}
  <2>1. PICK place \in Injection(fresh, Absent) :
           /\ phone' = [c \in Customer |-> IF c \in Range(place)
                                             THEN Inverse(place, fresh, Absent)[c]
                                           ELSE phone[c]]
           /\ state' = [c \in Customer |-> IF c \in Range(place) THEN "active" ELSE state[c]]
           /\ due' = due \cup Range(place)
           /\ req' = [req EXCEPT ![r].at = "announce", ![r].new = @ \/ fresh # {}]
    BY <1>3 DEF InsertChunk
  <2>2. place \in [fresh -> Absent] /\ Range(place) \subseteq Absent /\ Absent \subseteq Customer
    BY DEF Injection, Range, Absent
  <2>3. fresh = {} => Range(place) = {}
    BY <2>2 DEF Range
  <2>4. phone' \in [Customer -> Phones \cup {NoPhone}]
    <3>1. ASSUME NEW c \in Range(place) PROVE Inverse(place, fresh, Absent)[c] \in fresh
      <4>1. \E p \in fresh : place[p] = c
        BY <2>2, <3>1 DEF Range
      <4> QED
        BY <2>2, <3>1, <4>1 DEF Inverse
    <3>2. fresh \subseteq Phones
      BY <1>1, UnknownPhones
    <3> QED
      BY <1>0, <2>1, <3>1, <3>2 DEF CustomersTypeOK
  <2>5. /\ state' \in [Customer -> {"absent", "active", "deleted"}]
        /\ due' \subseteq Customer
        /\ \A d \in Customer \ Absent :
               phone'[d] = phone[d] /\ state'[d] \in {state[d], "active"}
    BY <1>0, <2>1, <2>2 DEF CustomersTypeOK
  <2>6. ASSUME NEW told \in BOOLEAN, told <=> (req[r].new \/ fresh # {}),
               req' = [req EXCEPT ![r].at = "announce", ![r].new = told]
        PROVE  /\ req' \in [Requests -> Handlers] /\ Others(r)
               /\ req'[r].at = "announce" /\ req'[r].op = "import"
               /\ req'[r].new <=> (req[r].new \/ fresh # {})
               /\ req'[r].todo = req[r].todo
    <3> DEFINE h == [req[r] EXCEPT !.at = "announce", !.new = told]
    <3>1. h \in Handlers
      BY <1>2 DEF Handlers, Steps
    <3>2. req' = [req EXCEPT ![r] = h]
      BY <2>6, Zenon
    <3>3. req' \in [Requests -> Handlers] /\ Others(r) /\ req'[r] = h
      BY <1>0, <3>1, <3>2, Becomes
    <3>4. /\ req'[r].at = "announce" /\ req'[r].op = "import" /\ req'[r].new = told
          /\ req'[r].todo = req[r].todo
      BY <1>1, <1>2, <3>3 DEF Handlers
    <3> QED
      BY <2>6, <3>3, <3>4
  <2>7. /\ req' \in [Requests -> Handlers] /\ Others(r)
        /\ req'[r].at = "announce" /\ req'[r].op = "import"
        /\ req'[r].new <=> (req[r].new \/ fresh # {})
        /\ req'[r].todo = req[r].todo
    <3> DEFINE told == req[r].new \/ fresh # {}
    <3>1. told \in BOOLEAN /\ (told <=> (req[r].new \/ fresh # {}))
      OBVIOUS
    <3>2. req' = [req EXCEPT ![r].at = "announce", ![r].new = told]
      BY <2>1
    <3> HIDE DEF told
    <3> QED
      BY <2>6, <3>1, <3>2
  <2>8. CustomersTypeOK'
    BY <1>0, <1>1, <2>4, <2>5, <2>7 DEF CustomersTypeOK
  <2>9. Fits(r)' /\ Resolves(r)' /\ Steady(r)'
    BY <1>1, <2>7, NotInbound DEF Fits
  <2>10. /\ fresh # {} => \A d : Owes(r, d)'
         /\ \A d : Owes(r, d) => Owes(r, d)'
    BY <1>1, <2>7 DEF Owes
  <2>11. \A d \in due' \ lost' : (d \in due \ lost /\ ~Owes(r, d)) \/ Owes(r, d)'
    BY <1>1, <2>1, <2>3, <2>10
  <2> QED
    BY <1>1, <2>5, <2>7, <2>8, <2>9, <2>11, QuietStep
<1>4. CASE ~\A p \in fresh : Holders(p) = {}
  <2>1. Goto(r, "rows") /\ UNCHANGED <<rows, notes>>
    BY <1>1, <1>4 DEF InsertChunk, notes
  <2>2. At(r, "rows") /\ req'[r].new = req[r].new /\ req'[r].todo = req[r].todo
    BY <1>0, <2>1, Goes DEF Steps
  <2>3. Fits(r)' /\ Resolves(r)' /\ Steady(r)'
    BY <1>1, <2>2, NotInbound DEF Fits, At
  <2>4. \A d : Owes(r, d) => Owes(r, d)'
    BY <1>1, <2>2 DEF Owes, At
  <2> QED
    BY <1>0, <1>1, <2>1, <2>2, <2>3, <2>4, PlainStep DEF At, CustomersTypeOK
<1> QED
  BY <1>3, <1>4

LEMMA InsertRowInv ==
    ASSUME CustomersInv, NEW r \in Requests, NEW p \in Phones, NEW c \in Absent,
            InsertRow(r, p, c)
    PROVE  CustomersInv'
<1> DEFINE free == Holders(p) = {}
           at == IF Unknown(r) = {p} THEN "announce" ELSE "rows"
<1>0. CustomersTypeOK
  BY DEF CustomersInv
<1>1. /\ req[r].op = "import" /\ req[r].at = "rows" /\ req[r].todo \subseteq Known
      /\ UNCHANGED <<identity, started, resolved, lost, beside, failed>>
  BY DEF InsertRow, CustomersInv, Fits
<1>2. req[r] \in Handlers /\ req[r].new \in BOOLEAN
  BY <1>0 DEF CustomersTypeOK, Handlers
<1>3. ASSUME NEW told \in BOOLEAN, told <=> (req[r].new \/ free), NEW step \in {"announce", "rows"},
             req' = [req EXCEPT ![r].todo = @ \ {<<None, p>>}, ![r].new = told, ![r].at = step]
      PROVE  /\ req' \in [Requests -> Handlers] /\ Others(r)
             /\ req'[r].at = step /\ req'[r].op = "import"
             /\ req'[r].new <=> (req[r].new \/ free)
             /\ req'[r].todo \subseteq req[r].todo
  <2> DEFINE h == [req[r] EXCEPT !.todo = req[r].todo \ {<<None, p>>}, !.new = told, !.at = step]
  <2>1. h \in Handlers
    BY <1>2 DEF Handlers, Steps
  <2>2. req' = [req EXCEPT ![r] = h]
    BY <1>3, Zenon
  <2>3. req' \in [Requests -> Handlers] /\ Others(r) /\ req'[r] = h
    BY <1>0, <2>1, <2>2, Becomes
  <2>4. /\ req'[r].at = step /\ req'[r].op = "import" /\ req'[r].new = told
        /\ req'[r].todo = req[r].todo \ {<<None, p>>}
    BY <1>1, <1>2, <2>3 DEF Handlers
  <2> QED
    BY <1>3, <2>3, <2>4
<1>4. /\ req' \in [Requests -> Handlers] /\ Others(r)
      /\ req'[r].at \in {"announce", "rows"} /\ req'[r].op = "import"
      /\ req'[r].new <=> (req[r].new \/ free)
      /\ req'[r].todo \subseteq req[r].todo
  <2> DEFINE told == req[r].new \/ free
  <2>1. told \in BOOLEAN /\ (told <=> (req[r].new \/ free)) /\ at \in {"announce", "rows"}
    OBVIOUS
  <2>2. req' = [req EXCEPT ![r].todo = @ \ {<<None, p>>}, ![r].new = told, ![r].at = at]
    BY DEF InsertRow
  <2> HIDE DEF told, at, free
  <2> QED
    BY <1>3, <2>1, <2>2
<1>5. Fits(r)' /\ Resolves(r)' /\ Steady(r)'
  BY <1>1, <1>4, NotInbound DEF Fits
<1>6. /\ free => \A d : Owes(r, d)'
      /\ \A d : Owes(r, d) => Owes(r, d)'
  BY <1>1, <1>4 DEF Owes
<1>7. CASE free
  <2>1. Inserted(c, p)
    BY <1>7 DEF InsertRow
  <2>2. /\ phone' \in [Customer -> Phones \cup {NoPhone}]
        /\ state' \in [Customer -> {"absent", "active", "deleted"}]
        /\ due' \subseteq Customer
        /\ \A d \in Customer \ Absent :
               phone'[d] = phone[d] /\ state'[d] \in {state[d], "active"}
    BY <2>1, InsertKeeps
  <2>3. CustomersTypeOK'
    BY <1>0, <1>1, <1>4, <2>2 DEF CustomersTypeOK
  <2>4. \A d \in due' \ lost' : Owes(r, d)'
    BY <1>6, <1>7
  <2> QED
    BY <1>1, <1>4, <1>5, <2>2, <2>3, <2>4, QuietStep
<1>8. CASE ~free
  <2>1. UNCHANGED <<rows, notes>>
    BY <1>1, <1>8 DEF InsertRow, notes
  <2> QED
    BY <1>0, <1>1, <1>4, <1>5, <1>6, <2>1, PlainStep DEF CustomersTypeOK
<1> QED
  BY <1>7, <1>8
-----------------------------------------------------------------------------
LEMMA CustomersStart == Init => CustomersInv
<1> SUFFICES ASSUME Init PROVE CustomersInv
  OBVIOUS
<1>1. \A r \in Requests : req[r] = Idle /\ req[r].at = "idle" /\ req[r].op = "none"
  BY DEF Init, Idle
<1>2. Idle \in Handlers /\ {None, 1} \subseteq CustomerOrNone /\ 1 \in Customer
  <2>1. {None, 1} \subseteq CustomerOrNone /\ 1 \in Customer
    BY CustomersAssumption DEF CustomerOrNone, Customer, None
  <2> QED
    BY <2>1 DEF Idle, Handlers, Steps
<1>3. \A r \in Requests : Fits(r) /\ Resolves(r) /\ Steady(r)
  BY <1>1 DEF Fits, Resolves, Steady
<1>4. SendersFit
  <2> SUFFICES ASSUME NEW s \in Senders
                   PROVE  resolved[s] \subseteq {identity[s]} /\ identity[s] \notin Absent
    BY DEF SendersFit
  <2>1. resolved[s] = {identity[s]} \ {None} /\ identity[s] \in {None, 1}
    BY DEF Init
  <2>2. identity[s] = 1 => identity[s] \notin Absent
    <3>1. identity[s] = 1 => phone[1] = PhoneOf[s]
      BY DEF Init
    <3>2. PhoneOf[s] # NoPhone
      BY CustomersAssumption
    <3>3. state[1] = "absent" <=> phone[1] = NoPhone
      BY <1>2 DEF Init
    <3> QED
      BY <3>1, <3>2, <3>3 DEF Absent
  <2> QED
    BY <2>1, <2>2, NoCustomer DEF Absent
<1>5. CustomersTypeOK
  <2>1. \A s \in Senders : resolved[s] = {identity[s]} \ {None} /\ identity[s] \in {None, 1}
    BY DEF Init
  <2>2. resolved \in [Senders -> SUBSET Customer]
    BY <1>2, <2>1 DEF Init
  <2>3. identity \in [Senders -> CustomerOrNone]
    BY <1>2 DEF Init
  <2> QED
    BY <1>2, <2>2, <2>3 DEF Init, CustomersTypeOK
<1> QED
  BY <1>3, <1>4, <1>5 DEF Init, CustomersInv

LEMMA CustomersStep == CustomersInv /\ [Next]_vars => CustomersInv'
<1> SUFFICES ASSUME CustomersInv, [Next]_vars PROVE CustomersInv'
  OBVIOUS
<1>1. CASE UNCHANGED vars
  <2>1. UNCHANGED <<phone, state, identity, req, started, resolved, due, lost, beside, failed>>
    BY <1>1 DEF vars, rows, notes
  <2>2. CustomersTypeOK' /\ SendersFit'
    BY <2>1 DEF CustomersInv, CustomersTypeOK, SendersFit, Absent
  <2>3. ASSUME NEW r \in Requests
        PROVE  Fits(r)' /\ Resolves(r)' /\ Steady(r)' /\ \A c : Owes(r, c) => Owes(r, c)'
    BY <2>1 DEF CustomersInv, Fits, Resolves, Steady, Owes, Absent, Active, Holders
  <2> QED
    BY <2>1, <2>2, <2>3 DEF CustomersInv
<1>2. CASE \E r \in Requests : Inbound(r)
  BY <1>2, StartInboundInv, FindIdentityInv, FindCustomerInv, RefindCustomerInv,
     LinkIdentityInv, RereadIdentityInv, TouchInv, ReturnCustomerInv DEF Inbound
<1>3. CASE \E r \in Requests : Edit(r)
  BY <1>3, StartCreateInv, StartUpdateInv, FindHolderInv, RestoreInv, ApplyInv, ReadBackInv,
     ClaimInv, ReleaseInv, WriteInv DEF Edit
<1>4. CASE \E r \in Requests : Batch(r)
  BY <1>4, RemoveInv, StartImportInv, RestoreKnownInv, InsertChunkInv DEF Batch
<1>5. CASE \E r \in Requests : Announce(r)
  BY <1>5, AnnounceInv
<1>6. CASE \E r \in Requests, c \in Absent :
               CreateIncoming(r, c) \/ Insert(r, c) \/ \E p \in Phones : InsertRow(r, p, c)
  BY <1>6, CreateIncomingInv, InsertInv, InsertRowInv
<1> QED
  BY <1>1, <1>2, <1>3, <1>4, <1>5, <1>6 DEF Next

LEMMA CustomersInvHolds == Spec => []CustomersInv
BY CustomersStart, CustomersStep, PTL DEF Spec

\* The customers, the identities and what each handler knows keep their types
\* (customers.service.ts).
THEOREM CustomersTypes == Spec => []CustomersTypeOK
BY CustomersInvHolds, PTL DEF CustomersInv

\* However the runs of a sender interleave with each other and with the team's
\* edits, they return the one customer its identity names (findOrCreateIncoming).
THEOREM SendersHaveOneCustomer == Spec => []OneCustomerPerSender
<1>1. CustomersInv => OneCustomerPerSender
  BY DEF CustomersInv, SendersFit, OneCustomerPerSender
<1> QED
  BY <1>1, CustomersInvHolds, PTL

\* A change of the customers is announced by the handler that made it, unless it
\* threw or lost the race for the identity (CustomersService.changed).
THEOREM ChangesAreTold == Spec => []ChangesAreAnnounced
<1>1. CustomersInv => ChangesAreAnnounced
  <2> SUFFICES ASSUME CustomersInv, NEW c \in due \ lost
               PROVE  \E r \in Running : \/ req[r].id = c
                                         \/ req[r].op = "remove" /\ c \in req[r].todo
                                         \/ req[r].op = "import" /\ req[r].new
    BY DEF ChangesAreAnnounced
  <2>1. PICK r \in Requests : Owes(r, c)
    BY DEF CustomersInv
  <2>2. r \in Running
    BY <2>1 DEF CustomersInv, Fits, Owes, Running
  <2> QED
    BY <2>1, <2>2 DEF Owes
<1> QED
  BY <1>1, CustomersInvHolds, PTL
-----------------------------------------------------------------------------
\* Whatever a handler does to itself, it does to no other.
LEMMA Moves ==
    ASSUME CustomersTypeOK, NEW q \in Requests,
           \/ \E at : Goto(q, at)
           \/ \E at, c : Read(q, at, c)
           \/ End(q) \/ Throw(q)
           \/ \E op, fields : Start(q, op, fields)
    PROVE  Others(q)
<1>1. ASSUME NEW h, req' = [req EXCEPT ![q] = h] PROVE Others(q)
  BY <1>1 DEF CustomersTypeOK, Others
<1>2. ASSUME NEW at, Goto(q, at) PROVE Others(q)
  <2>1. req' = [req EXCEPT ![q] = [req[q] EXCEPT !.at = at]]
    BY <1>2, Zenon DEF Goto
  <2> QED
    BY <1>1, <2>1
<1>3. ASSUME NEW at, NEW c, Read(q, at, c) PROVE Others(q)
  <2>1. req' = [req EXCEPT ![q] = [req[q] EXCEPT !.at = at, !.id = c,
                                                    !.deleted = state[c] = "deleted"]]
    BY <1>3, Zenon DEF Read
  <2> QED
    BY <1>1, <2>1
<1>4. ASSUME End(q) PROVE Others(q)
  BY <1>1, <1>4 DEF End
<1>5. ASSUME NEW op, NEW fields, Start(q, op, fields) PROVE Others(q)
  BY <1>1, <1>5 DEF Start
<1> QED
  BY <1>2, <1>3, <1>4, <1>5 DEF Throw

\* The two steps an inbound run ends with.
LEMMA InboundEnds ==
    ASSUME CustomersInv, NEW q \in Requests, NEW r \in Requests,
           req[r].op = "inbound", req'[r].at = "idle",
           \/ Inbound(q) \/ Edit(q) \/ Batch(q) \/ Announce(q)
           \/ \E c \in Absent :
                 CreateIncoming(q, c) \/ Insert(q, c) \/ \E p \in Phones : InsertRow(q, p, c)
    PROVE  q = r /\ (RefindCustomer(r) \/ ReturnCustomer(r))
<1>0. CustomersTypeOK /\ req[q] \in Handlers /\ Fits(q) /\ req[r].at # "idle"
  BY DEF CustomersInv, CustomersTypeOK, Fits
<1>1. ASSUME Others(q), req'[q].at # "idle" \/ req[q].op # "inbound"
      PROVE  FALSE
  BY <1>0, <1>1 DEF Others
<1>2. ASSUME NEW at \in Steps \ {"idle"}, Goto(q, at) PROVE FALSE
  BY <1>0, <1>1, <1>2, Goes DEF At
<1>3. ASSUME NEW at \in Steps \ {"idle"}, NEW c \in CustomerOrNone, Read(q, at, c) PROVE FALSE
  BY <1>0, <1>1, <1>3, Reads DEF At
<1>4. CASE Inbound(q)
  <2>1. CASE \E s \in Senders : StartInbound(q, s)
    BY <1>0, <1>1, <2>1, Moves DEF StartInbound, Start, Fits
  <2>2. CASE FindIdentity(q)
    <3>1. req[q].op = "inbound"
      BY <1>0, <2>2 DEF FindIdentity, Fits
    <3>2. identity[Sender(q)] \in CustomerOrNone
      BY <1>0, <3>1, Inbounds DEF CustomersTypeOK
    <3>3. CASE identity[Sender(q)] = None
      BY <1>2, <2>2, <3>3 DEF FindIdentity, Steps
    <3>4. CASE identity[Sender(q)] # None
      BY <1>3, <2>2, <3>2, <3>4 DEF FindIdentity, Steps
    <3> QED
      BY <3>3, <3>4
  <2>3. CASE FindCustomer(q)
    <3>1. Holder(req[q].phone) \in CustomerOrNone
      BY <1>0, HolderHolds
    <3>2. CASE Holders(req[q].phone) = {}
      BY <1>2, <2>3, <3>2 DEF FindCustomer, Steps
    <3>3. CASE Holders(req[q].phone) # {}
      BY <1>3, <2>3, <3>1, <3>3 DEF FindCustomer, Steps
    <3> QED
      BY <3>2, <3>3
  <2>4. CASE LinkIdentity(q)
    BY <1>2, <2>4 DEF LinkIdentity, Steps
  <2>5. CASE RereadIdentity(q)
    <3>1. Others(q) /\ req'[q].at = "touch"
      <4>1. ASSUME NEW gone,
                   req' = [req EXCEPT ![q] = [req[q] EXCEPT !.at = "touch", !.id = identity[Sender(q)],
                                                        !.new = FALSE, !.deleted = gone]]
            PROVE  Others(q) /\ req'[q].at = "touch"
        BY <1>0, <4>1 DEF CustomersTypeOK, Handlers, Others
      <4>2. req' = [req EXCEPT ![q] = [req[q] EXCEPT !.at = "touch", !.id = identity[Sender(q)],
                        !.new = FALSE, !.deleted = state[identity[Sender(q)]] = "deleted"]]
        BY <2>5, Zenon DEF RereadIdentity
      <4> QED
        BY <4>1, <4>2
    <3> QED
      BY <1>1, <3>1
  <2>6. CASE Touch(q)
    <3>1. CASE req[q].new \/ req[q].deleted
      BY <1>2, <2>6, <3>1 DEF Touch, Steps
    <3>2. CASE ~(req[q].new \/ req[q].deleted)
      BY <1>2, <2>6, <3>2 DEF Touch, Steps
    <3> QED
      BY <3>1, <3>2
  <2>7. CASE RefindCustomer(q) \/ ReturnCustomer(q)
    <3>1. Others(q)
      BY <1>0, <2>7, Moves DEF RefindCustomer, ReturnCustomer
    <3>2. q = r
      BY <1>0, <3>1 DEF Others
    <3> QED
      BY <2>7, <3>2
  <2> QED
    BY <1>4, <2>1, <2>2, <2>3, <2>4, <2>5, <2>6, <2>7 DEF Inbound
<1>5. CASE Edit(q)
  <2>1. CASE (\E p \in Phones : StartCreate(q, p) \/ \E c \in Customer : StartUpdate(q, c, p))
    BY <1>0, <1>1, <2>1, Moves DEF StartCreate, StartUpdate, Start, Fits
  <2>2. CASE FindHolder(q) \/ Restore(q) \/ Apply(q) \/ ReadBack(q)
    <3>1. Others(q)
      BY <1>0, <2>2, Moves DEF FindHolder, Restore, Apply, ReadBack
    <3>2. req[q].op # "inbound"
      BY <1>0, <2>2 DEF Fits, FindHolder, Restore, Apply, ReadBack
    <3> QED
      BY <1>1, <3>1, <3>2
  <2>3. CASE Claim(q) \/ Release(q) \/ Write(q)
    <3>1. req[q].op # "inbound"
      BY <1>0, <2>3 DEF Fits, Claim, Release, Write
    <3>2. Others(q)
      <4>1. CASE Claim(q)
        <5>1. \/ Goto(q, "write") \/ End(q)
              \/ req' = [req EXCEPT ![q].at = "release", ![q].todo = {Holder(req[q].phone)}]
          <6>1. CASE Holder(req[q].phone) \in {None, req[q].id}
            BY <4>1, <6>1, NoCustomer DEF Claim, Active
          <6>2. CASE Holder(req[q].phone) \in Active \ {req[q].id}
            BY <4>1, <6>2, NoCustomer DEF Claim, Active
          <6>3. CASE Holder(req[q].phone) \notin {None, req[q].id} \cup Active
            BY <4>1, <6>3 DEF Claim
          <6> QED
            BY <6>1, <6>2, <6>3
        <5>2. ASSUME req' = [req EXCEPT ![q].at = "release", ![q].todo = {Holder(req[q].phone)}]
              PROVE  Others(q)
          BY <1>0, <5>2 DEF CustomersTypeOK, Others
        <5> QED
          BY <1>0, <5>1, <5>2, Moves
      <4>2. CASE Release(q) \/ Write(q)
        BY <1>0, <4>2, Moves DEF Release, Write
      <4> QED
        BY <2>3, <4>1, <4>2
    <3> QED
      BY <1>1, <3>1, <3>2
  <2> QED
    BY <1>5, <2>1, <2>2, <2>3 DEF Edit
<1>6. CASE Batch(q)
  <2>1. CASE \E C \in SUBSET Customer : Remove(q, C)
    BY <1>0, <1>1, <2>1, Moves DEF Remove, Start, Fits
  <2>2. CASE \E sheet \in SUBSET Phones \ {{}} : StartImport(q, sheet)
    BY <1>0, <1>1, <2>2, Moves DEF StartImport, Start, Fits
  <2>3. CASE \E known \in req[q].todo : RestoreKnown(q, known)
    BY <1>0, <1>1, <2>3 DEF RestoreKnown, Fits, Others, CustomersTypeOK
  <2>4. CASE InsertChunk(q)
    <3>1. req[q].op # "inbound"
      BY <1>0, <2>4 DEF InsertChunk, Fits
    <3>2. \/ Goto(q, "rows")
          \/ req' = [req EXCEPT ![q].at = "announce", ![q].new = @ \/ Unknown(q) # {}]
      BY <2>4 DEF InsertChunk
    <3>3. ASSUME NEW told, req' = [req EXCEPT ![q].at = "announce", ![q].new = told]
          PROVE  Others(q)
      BY <1>0, <3>3 DEF CustomersTypeOK, Others
    <3>4. Others(q)
      <4> DEFINE told == req[q].new \/ Unknown(q) # {}
      <4>1. Goto(q, "rows") \/ req' = [req EXCEPT ![q].at = "announce", ![q].new = told]
        BY <3>2
      <4> HIDE DEF told
      <4> QED
        BY <1>0, <3>3, <4>1, Moves
    <3> QED
      BY <1>1, <3>1, <3>4
  <2> QED
    BY <1>6, <2>1, <2>2, <2>3, <2>4 DEF Batch
<1>7. CASE Announce(q)
  <2>1. CASE req[q].op = "inbound"
    BY <1>2, <1>7, <2>1 DEF Announce, Steps
  <2>2. CASE req[q].op # "inbound"
    BY <1>0, <1>1, <1>7, <2>2, Moves DEF Announce
  <2> QED
    BY <2>1, <2>2
<1>8. ASSUME NEW c \in Absent, CreateIncoming(q, c) PROVE FALSE
  <2>1. \/ req' = [req EXCEPT ![q].at = "link", ![q].id = c, ![q].new = TRUE]
        \/ Goto(q, "refind")
    BY <1>8 DEF CreateIncoming
  <2>2. ASSUME req' = [req EXCEPT ![q].at = "link", ![q].id = c, ![q].new = TRUE] PROVE FALSE
    <3>1. req' = [req EXCEPT ![q] = [req[q] EXCEPT !.at = "link", !.id = c, !.new = TRUE]]
      BY <2>2, Zenon
    <3>2. Others(q) /\ req'[q].at = "link"
      BY <1>0, <3>1 DEF CustomersTypeOK, Handlers, Others
    <3> QED
      BY <1>1, <3>2
  <2> QED
    BY <1>2, <2>1, <2>2 DEF Steps
<1>9. ASSUME NEW c \in Absent, Insert(q, c) PROVE FALSE
  <2>1. req[q].op # "inbound"
    BY <1>0, <1>9 DEF Insert, Fits
  <2>2. \/ req' = [req EXCEPT ![q].at = "announce", ![q].id = c]
        \/ End(q)
    BY <1>9 DEF Insert
  <2>3. Others(q)
    <3>1. ASSUME req' = [req EXCEPT ![q].at = "announce", ![q].id = c] PROVE Others(q)
      BY <1>0, <3>1 DEF CustomersTypeOK, Others
    <3> QED
      BY <1>0, <2>2, <3>1, Moves
  <2> QED
    BY <1>1, <2>1, <2>3
<1>10. ASSUME NEW c \in Absent, NEW p \in Phones, InsertRow(q, p, c) PROVE FALSE
  <2>1. req[q].op # "inbound"
    BY <1>0, <1>10 DEF InsertRow, Fits
  <2>2. ASSUME NEW told, NEW at,
               req' = [req EXCEPT ![q].todo = @ \ {<<None, p>>}, ![q].new = told, ![q].at = at]
        PROVE  Others(q)
    BY <1>0, <2>2 DEF CustomersTypeOK, Others
  <2>3. Others(q)
    <3> DEFINE told == req[q].new \/ Holders(p) = {}
               at == IF Unknown(q) = {p} THEN "announce" ELSE "rows"
    <3>1. req' = [req EXCEPT ![q].todo = @ \ {<<None, p>>}, ![q].new = told, ![q].at = at]
      BY <1>10 DEF InsertRow
    <3> HIDE DEF told, at
    <3> QED
      BY <2>2, <3>1
  <2> QED
    BY <1>1, <2>1, <2>3
<1> QED
  BY <1>4, <1>5, <1>6, <1>7, <1>8, <1>9, <1>10

\* An inbound run returns an active customer, and does not throw, unless one was
\* deleted or renumbered while it ran (findOrCreateIncoming, touch).
THEOREM WritersComeBack == Spec => WritersAreActive
<1> DEFINE A == \A r \in Requests :
                    req[r].op = "inbound" /\ req'[r].at = "idle"
                    => \/ req[r].id \in Active' /\ failed' = failed
                       \/ beside[r] # {}
<1>1. CustomersInv /\ [Next]_vars => [A]_vars
  <2> SUFFICES ASSUME CustomersInv, Next, NEW r \in Requests,
                      req[r].op = "inbound", req'[r].at = "idle", beside[r] = {}
               PROVE  req[r].id \in Active' /\ failed' = failed
    OBVIOUS
  <2>1. RefindCustomer(r) \/ ReturnCustomer(r)
    BY InboundEnds DEF Next
  <2>2. Steady(r)
    BY DEF CustomersInv
  <2>3. CASE RefindCustomer(r)
    <3>1. Holders(req[r].phone) # {}
      BY <2>2, <2>3 DEF Steady, RefindCustomer
    <3>2. Holder(req[r].phone) \in CustomerOrNone
      BY HolderHolds DEF CustomersInv
    <3>3. Read(r, "link", Holder(req[r].phone))
      BY <2>3, <3>1 DEF RefindCustomer
    <3>4. req'[r].at = "link"
      BY <3>2, <3>3, Reads DEF CustomersInv, At, Steps
    <3> QED
      BY <3>4
  <2>4. CASE ReturnCustomer(r)
    <3>1. req[r].id \in Active
      BY <2>2, <2>4 DEF Steady, ReturnCustomer
    <3>2. failed' = failed /\ UNCHANGED rows
      BY <2>4, <3>1 DEF ReturnCustomer
    <3>3. Active' = Active
      BY <3>2 DEF Active, rows
    <3> QED
      BY <3>1, <3>2, <3>3
  <2> QED
    BY <2>1, <2>3, <2>4
<1> QED
  BY <1>1, CustomersInvHolds, PTL DEF Spec, WritersAreActive
-----------------------------------------------------------------------------
(* The file a send is given (StagedUploads). *)

Stages == {"idle", "lookup", "move", "remember", "save", "provide"}

UploadsTypeOK ==
    /\ file \in [Uploads -> {"none", "staged", "final", "swept"}]
    /\ staging \in [Uploads -> Processes \cup {Nobody}]
    /\ redis \in [Uploads -> Metadata]
    /\ memory \in [Processes -> [Uploads -> Metadata]]
    /\ run \in [Processes -> [at : Stages, for : SUBSET Messages, held : BOOLEAN]]
    /\ row \in [Messages -> {"none", "bare", "attached"}]
    /\ {runs, crashes, errors} \subseteq Nat

\* A run is of one message; only those of the conversation move its file.
RunsWell ==
    \A p \in Processes : run[p].at # "idle" =>
        \E m \in Messages :
            /\ run[p].for = {m}
            /\ run[p].at \in {"move", "remember"} => m \notin Foreign

\* The sends an upload is meant for.
Sends(p, u) ==
    run[p].at # "idle" /\ \E m \in Messages \ Foreign : run[p].for = {m} /\ UploadOf[m] = u

\* A file is announced once it is there, and not before.
Announced(u) ==
    /\ file[u] = "none" => staging[u] = Nobody /\ u \notin answered
    /\ staging[u] # Nobody => u \notin answered
    /\ u \notin answered => redis[u] = "none" /\ (u \in old \/ file[u] \in {"none", "staged"})
    /\ u \in answered => u \in old \/ redis[u] # "none"
    /\ \A p \in Processes : Sends(p, u) => u \in answered

Alone(u) ==
    u \notin crossed => \A p, q \in Processes : Sends(p, u) /\ Sends(q, u) => p = q

Undisturbed(u) == u \notin old \cup crossed /\ crashes = 0 /\ errors = 0

\* While nothing disturbs an upload, Redis says where its file is, but for the
\* moment between the move and the note of it, and every send has the file.
FileKept(u) ==
    Undisturbed(u) =>
        /\ redis[u] = "staged" =>
               file[u] = "staged" \/ \E p \in Processes : Sends(p, u) /\ run[p].at = "remember"
        /\ \A p \in Processes : Sends(p, u) /\ run[p].at = "move" => redis[u] = "staged"
        /\ \A p \in Processes : Sends(p, u) /\ run[p].at = "save" => run[p].held
        /\ \A m \in Messages \ Foreign : UploadOf[m] = u => row[m] # "bare"

UploadsInv ==
    /\ UploadsTypeOK /\ RunsWell
    /\ \A u \in Uploads : Announced(u) /\ Alone(u) /\ FileKept(u)

LEMMA OneMessage ==
    ASSUME NEW S, NEW m \in Messages, S = {m}
    PROVE  (CHOOSE x \in Messages : S = {x}) = m
<1>1. \A x : S = {x} => x = m
  OBVIOUS
<1> QED
  BY <1>1

LEMMA RunsMessage ==
    ASSUME UploadsInv, NEW p \in Processes, run[p].at # "idle"
    PROVE  \E m \in Messages :
              /\ run[p].for = {m} /\ MessageOf(p) = m /\ Upload(p) = UploadOf[m]
              /\ UploadOf[m] \in Uploads
              /\ run[p].at \in {"move", "remember"} => m \notin Foreign
              /\ m \notin Foreign => Sends(p, UploadOf[m])
              /\ \A u : Sends(p, u) <=> m \notin Foreign /\ u = UploadOf[m]
<1>1. PICK m \in Messages :
         /\ run[p].for = {m}
         /\ run[p].at \in {"move", "remember"} => m \notin Foreign
  BY DEF UploadsInv, RunsWell
<1>2. MessageOf(p) = m
  BY <1>1, OneMessage DEF MessageOf
<1>3. \A u : Sends(p, u) <=> m \notin Foreign /\ u = UploadOf[m]
  <2>1. \A n : {m} = {n} => n = m
    OBVIOUS
  <2> QED
    BY <1>1, <2>1 DEF Sends
<1> QED
  BY <1>1, <1>2, <1>3, UploadsAssumption DEF Upload

\* The observer's set is the same.
LEMMA RunsOfUpload ==
    ASSUME UploadsInv, NEW u
    PROVE  RunsOf(u) = {p \in Processes : Sends(p, u)}
<1>1. ASSUME NEW p \in Processes PROVE p \in RunsOf(u) <=> Sends(p, u)
  <2>1. CASE run[p].at = "idle"
    BY <2>1 DEF RunsOf, Sends
  <2>2. CASE run[p].at # "idle"
    BY <2>2, RunsMessage DEF RunsOf
  <2> QED
    BY <2>1, <2>2
<1> QED
  BY <1>1 DEF RunsOf
-----------------------------------------------------------------------------
\* A step that starts, ends and moves no run.
LEMMA RunsStand ==
    ASSUME UploadsInv, UNCHANGED run, UploadsTypeOK',
           \A u \in Uploads :
               Announced(u) /\ Alone(u) /\ FileKept(u)
                   => Announced(u)' /\ Alone(u)' /\ FileKept(u)'
    PROVE  UploadsInv'
BY DEF UploadsInv, RunsWell

LEMMA IngestInv ==
    ASSUME UploadsInv, NEW p \in Processes, NEW u \in Uploads, Ingest(p, u)
    PROVE  UploadsInv'
<1>1. UploadsTypeOK'
  BY DEF UploadsInv, UploadsTypeOK, Ingest, bounds
<1>2. ASSUME NEW v \in Uploads, Announced(v), Alone(v), FileKept(v)
      PROVE  Announced(v)' /\ Alone(v)' /\ FileKept(v)'
  <2>0. Alone(v)'
    BY <1>2 DEF Ingest, Alone, Sends
  <2>1. ASSUME v # u PROVE Announced(v)' /\ FileKept(v)'
    <3>1. /\ file'[v] = file[v] /\ staging'[v] = staging[v]
          /\ UNCHANGED <<answered, redis, old, crossed, run, row, crashes, errors>>
      BY <2>1 DEF UploadsInv, UploadsTypeOK, Ingest, bounds
    <3>2. Announced(v)'
      BY <1>2, <3>1 DEF Announced, Sends
    <3>3. FileKept(v)'
      BY <1>2, <3>1 DEF FileKept, Undisturbed, Sends
    <3> QED
      BY <3>2, <3>3
  <2>2. Announced(u) /\ FileKept(u)
    BY DEF UploadsInv
  <2>3. u \notin answered /\ redis[u] = "none"
    BY <2>2 DEF Ingest, Announced
  <2>4. /\ file'[u] = "staged" /\ staging'[u] = p
        /\ UNCHANGED <<answered, redis, old, crossed, run, row, crashes, errors>>
    BY DEF UploadsInv, UploadsTypeOK, Ingest, bounds
  <2>5. Announced(u)'
    BY <2>2, <2>3, <2>4, UploadsAssumption DEF Announced, Sends
  <2>6. FileKept(u)'
    BY <2>2, <2>3, <2>4 DEF FileKept, Undisturbed, Sends
  <2> QED
    BY <2>0, <2>1, <2>5, <2>6
<1> QED
  BY <1>1, <1>2, RunsStand DEF Ingest

LEMMA AnnounceUploadInv ==
    ASSUME UploadsInv, NEW u \in Uploads, AnnounceUpload(u)
    PROVE  UploadsInv'
<1>1. UploadsTypeOK'
  BY DEF UploadsInv, UploadsTypeOK, AnnounceUpload, bounds, Metadata
<1>2. ASSUME NEW v \in Uploads, Announced(v), Alone(v), FileKept(v)
      PROVE  Announced(v)' /\ Alone(v)' /\ FileKept(v)'
  BY <1>2, UploadsAssumption DEF UploadsInv, UploadsTypeOK, AnnounceUpload, bounds,
     Announced, Alone, FileKept, Undisturbed, Sends
<1> QED
  BY <1>1, <1>2, RunsStand DEF AnnounceUpload

LEMMA StandingInv ==
    ASSUME UploadsInv, NEW u \in Uploads,
           \/ AnnouncingFails(u) \/ GrowOld(u) \/ Sweep(u) \/ Expire(u)
           \/ \E p \in Processes : Forget(p, u)
    PROVE  UploadsInv'
<1>1. UploadsTypeOK'
  <2>a. UploadsTypeOK
    BY DEF UploadsInv
  <2>1. CASE AnnouncingFails(u)
    BY <2>1, <2>a DEF AnnouncingFails, Error, UploadsTypeOK
  <2>2. CASE GrowOld(u) \/ Sweep(u)
    BY <2>2, <2>a DEF GrowOld, Sweep, UploadsTypeOK, bounds
  <2>3. CASE Expire(u)
    BY <2>3, <2>a DEF Expire, UploadsTypeOK, uploadVars, bounds, Metadata
  <2>4. CASE \E p \in Processes : Forget(p, u)
    BY <2>4, <2>a DEF Forget, UploadsTypeOK, uploadVars, bounds, Metadata
  <2> QED
    BY <2>1, <2>2, <2>3, <2>4
<1>2. ASSUME NEW v \in Uploads, Announced(v), Alone(v), FileKept(v)
      PROVE  Announced(v)' /\ Alone(v)' /\ FileKept(v)'
  <2>1. CASE AnnouncingFails(u)
    BY <1>2, <2>1 DEF UploadsInv, UploadsTypeOK, AnnouncingFails, Error, Announced, Alone,
       FileKept, Undisturbed, Sends
  <2>2. CASE GrowOld(u)
    BY <1>2, <2>2 DEF UploadsInv, UploadsTypeOK, GrowOld, bounds, Announced, Alone,
       FileKept, Undisturbed, Sends
  <2>3. CASE Sweep(u)
    BY <1>2, <2>3 DEF UploadsInv, UploadsTypeOK, Sweep, bounds, Announced, Alone, FileKept,
       Undisturbed, Sends
  <2>4. CASE Expire(u)
    <3>1. Alone(v)' /\ Announced(v)'
      BY <1>2, <2>4 DEF UploadsInv, UploadsTypeOK, Expire, uploadVars, bounds, Announced,
         Alone, Sends
    <3>2. FileKept(v)'
      <4>1. CASE v = u
        BY <2>4, <4>1 DEF Expire, uploadVars, FileKept, Undisturbed
      <4>2. CASE v # u
        <5>1. redis'[v] = redis[v] /\ UNCHANGED <<file, old, crossed, run, row, crashes, errors>>
          BY <2>4, <4>2 DEF UploadsInv, UploadsTypeOK, Expire, uploadVars, bounds
        <5> QED
          BY <1>2, <5>1 DEF FileKept, Undisturbed, Sends
      <4> QED
        BY <4>1, <4>2
    <3> QED
      BY <3>1, <3>2
  <2>5. CASE \E p \in Processes : Forget(p, u)
    <3>1. UNCHANGED <<file, old, staging, answered, redis, run, row, crossed, crashes, errors>>
      BY <2>5 DEF Forget, uploadVars, bounds
    <3> QED
      BY <1>2, <3>1 DEF Announced, Alone, FileKept, Undisturbed, Sends
  <2> QED
    BY <2>1, <2>2, <2>3, <2>4, <2>5
<1>3. UNCHANGED run
  BY DEF AnnouncingFails, GrowOld, Sweep, Expire, Forget
<1> QED
  BY <1>1, <1>2, <1>3, RunsStand
-----------------------------------------------------------------------------
\* Where the two steps of a run take it.
LEMMA Advances ==
    ASSUME UploadsInv, NEW p \in Processes, NEW at \in Stages, Advance(p, at)
    PROVE  /\ run' \in [Processes -> [at : Stages, for : SUBSET Messages, held : BOOLEAN]]
           /\ run'[p].at = at /\ run'[p].for = run[p].for
           /\ \A q \in Processes \ {p} : run'[q] = run[q]
BY DEF UploadsInv, UploadsTypeOK, Advance, Stages

LEMMA Prepares ==
    ASSUME UploadsInv, NEW p \in Processes, NEW got \in BOOLEAN, Prepared(p, got)
    PROVE  /\ run' \in [Processes -> [at : Stages, for : SUBSET Messages, held : BOOLEAN]]
           /\ run'[p].at = "save" /\ run'[p].held = got /\ run'[p].for = run[p].for
           /\ \A q \in Processes \ {p} : run'[q] = run[q]
BY DEF UploadsInv, UploadsTypeOK, Prepared, Stages

\* A run that goes on is still the send of the same uploads.
LEMMA GoingOn ==
    ASSUME UploadsInv, NEW p \in Processes,
           run[p].at # "idle", run'[p].at # "idle", run'[p].for = run[p].for,
           run'[p].at \in {"move", "remember"} => MessageOf(p) \notin Foreign,
           \A q \in Processes \ {p} : run'[q] = run[q],
           crossed \subseteq crossed'
    PROVE  /\ RunsWell'
           /\ \A q \in Processes, u \in Uploads : Sends(q, u)' <=> Sends(q, u)
           /\ \A u \in Uploads : Alone(u)'
<1>1. \A q \in Processes, u \in Uploads : Sends(q, u)' <=> Sends(q, u)
  BY DEF Sends
<1>2. RunsWell'
  <2>1. PICK m \in Messages : run[p].for = {m} /\ MessageOf(p) = m
    BY RunsMessage
  <2> QED
    BY <2>1 DEF UploadsInv, RunsWell
<1>3. ASSUME NEW u \in Uploads PROVE Alone(u)'
  BY <1>1 DEF UploadsInv, Alone
<1> QED
  BY <1>1, <1>2, <1>3

LEMMA LookupInv ==
    ASSUME UploadsInv, NEW p \in Processes, Lookup(p)
    PROVE  UploadsInv'
<1> DEFINE m == MessageOf(p)
           o == Upload(p)
           found == Found(p, o)
<1>1. /\ m \in Messages /\ run[p].for = {m} /\ o \in Uploads /\ o = UploadOf[m]
      /\ \A u : Sends(p, u) <=> m \notin Foreign /\ u = o
  BY RunsMessage DEF Lookup
<1>0. found = "staged" /\ redis[o] = "consumed" => o \in crossed'
  BY DEF Lookup
<1>2. /\ run[p].at = "lookup" /\ crossed \subseteq crossed'
      /\ UNCHANGED <<uploadVars, redis, memory, row, bounds>>
  BY DEF Lookup
<1>3. /\ run' \in [Processes -> [at : Stages, for : SUBSET Messages, held : BOOLEAN]]
      /\ run'[p].for = run[p].for
      /\ \A q \in Processes \ {p} : run'[q] = run[q]
      /\ run'[p].at \in {"save", "move"}
      /\ run'[p].at = "move" => m \notin Foreign /\ found \notin {"none", "consumed"}
      /\ run'[p].at = "save" /\ m \notin Foreign /\ found # "none" => run'[p].held
  <2>1. CASE found = "none" \/ m \in Foreign
    <3>1. Prepared(p, FALSE)
      BY <2>1 DEF Lookup
    <3> QED
      BY <2>1, <3>1, Prepares
  <2>2. CASE found = "consumed" /\ m \notin Foreign
    <3>1. Prepared(p, TRUE)
      BY <2>2 DEF Lookup
    <3> QED
      BY <2>2, <3>1, Prepares
  <2>3. CASE found \notin {"none", "consumed"} /\ m \notin Foreign
    <3>1. Advance(p, "move")
      BY <2>3 DEF Lookup
    <3> QED
      BY <2>3, <3>1, Advances DEF Stages
  <2> QED
    BY <2>1, <2>2, <2>3
<1>4. UploadsTypeOK'
  BY <1>2, <1>3 DEF UploadsInv, UploadsTypeOK, uploadVars, bounds, Stages
<1>5. /\ RunsWell'
      /\ \A q \in Processes, u \in Uploads : Sends(q, u)' <=> Sends(q, u)
      /\ \A u \in Uploads : Alone(u)'
  BY <1>2, <1>3, GoingOn
<1>6. ASSUME NEW u \in Uploads PROVE Announced(u)'
  BY <1>2, <1>5 DEF UploadsInv, Announced, uploadVars
<1>7. ASSUME NEW u \in Uploads PROVE FileKept(u)'
  <2>1. CASE ~Sends(p, u)
    BY <2>1, <1>2, <1>3, <1>5 DEF UploadsInv, FileKept, Undisturbed, uploadVars, bounds
  <2>2. CASE Sends(p, u) /\ Undisturbed(u)'
    <3>1. u = o /\ m \notin Foreign /\ Undisturbed(u)
      BY <2>2, <1>1, <1>2 DEF Undisturbed, uploadVars, bounds
    <3>2. u \in answered /\ redis[u] \in {"staged", "consumed"}
      BY <2>2, <3>1 DEF UploadsInv, Announced, Undisturbed, UploadsTypeOK, Metadata
    <3>3. found # "none" /\ found \in Metadata
      BY <3>1, <3>2 DEF Found, UploadsInv, UploadsTypeOK
    <3>4. run'[p].at = "move" => redis[u] = "staged"
      BY <1>0, <1>3, <3>1, <3>2, <3>3, <2>2 DEF Undisturbed, Metadata
    <3> QED
      BY <1>2, <1>3, <1>5, <3>1, <3>3, <3>4 DEF UploadsInv, FileKept, uploadVars, bounds
  <2> QED
    BY <2>1, <2>2 DEF FileKept
<1> QED
  BY <1>4, <1>5, <1>6, <1>7 DEF UploadsInv

LEMMA MoveInv ==
    ASSUME UploadsInv, NEW p \in Processes, Move(p)
    PROVE  UploadsInv'
<1> DEFINE m == MessageOf(p)
           o == Upload(p)
<1>1. /\ m \in Messages /\ run[p].for = {m} /\ o \in Uploads /\ o = UploadOf[m]
      /\ m \notin Foreign /\ \A u : Sends(p, u) <=> u = o
  BY RunsMessage DEF Move
<1>2. /\ run[p].at = "move" /\ run'[p].for = run[p].for
      /\ \A q \in Processes \ {p} : run'[q] = run[q]
      /\ run'[p].at \in {"save", "remember"}
      /\ run' \in [Processes -> [at : Stages, for : SUBSET Messages, held : BOOLEAN]]
      /\ file' \in [Uploads -> {"none", "staged", "final", "swept"}]
      /\ \A u \in Uploads \ {o} : file'[u] = file[u]
      /\ (file'[o] = "none") <=> (file[o] = "none")
      /\ UNCHANGED <<old, staging, answered, redis, memory, row, crossed, bounds>>
      /\ run'[p].at = "save" => file[o] # "staged" /\ UNCHANGED file
  <2>0. file \in [Uploads -> {"none", "staged", "final", "swept"}]
    BY DEF UploadsInv, UploadsTypeOK
  <2>1. CASE file[o] = "staged"
    <3>1. Advance(p, "remember") /\ file' = [file EXCEPT ![o] = "final"]
      BY <2>1 DEF Move
    <3>2. /\ run'[p].for = run[p].for /\ run'[p].at = "remember"
          /\ \A q \in Processes \ {p} : run'[q] = run[q]
          /\ run' \in [Processes -> [at : Stages, for : SUBSET Messages, held : BOOLEAN]]
      BY <3>1, Advances DEF Stages
    <3> QED
      BY <1>1, <2>0, <2>1, <3>1, <3>2 DEF Move
  <2>2. CASE file[o] # "staged"
    <3>1. Prepared(p, FALSE) /\ UNCHANGED file
      BY <2>2 DEF Move
    <3>2. /\ run'[p].for = run[p].for /\ run'[p].at = "save"
          /\ \A q \in Processes \ {p} : run'[q] = run[q]
          /\ run' \in [Processes -> [at : Stages, for : SUBSET Messages, held : BOOLEAN]]
      BY <3>1, Prepares
    <3> QED
      BY <1>1, <2>0, <2>2, <3>1, <3>2 DEF Move
  <2> QED
    BY <2>1, <2>2
<1>4. UploadsTypeOK'
  BY <1>2 DEF UploadsInv, UploadsTypeOK, bounds, Stages
<1>5. /\ RunsWell'
      /\ \A q \in Processes, u \in Uploads : Sends(q, u)' <=> Sends(q, u)
      /\ \A u \in Uploads : Alone(u)'
  BY <1>1, <1>2, GoingOn
<1>0. o \in answered
  BY <1>1 DEF UploadsInv, Announced
<1>6. ASSUME NEW u \in Uploads PROVE Announced(u)'
  BY <1>0, <1>2, <1>5 DEF UploadsInv, Announced
<1>7. ASSUME NEW u \in Uploads PROVE FileKept(u)'
  <2>1. CASE u # o
    BY <2>1, <1>1, <1>2, <1>5 DEF UploadsInv, FileKept, Undisturbed, bounds
  <2>2. CASE u = o /\ Undisturbed(u)'
    <3>1. Undisturbed(u) /\ Sends(p, u) /\ Sends(p, u)'
      BY <2>2, <1>1, <1>2, <1>5 DEF Undisturbed, bounds
    <3>2. \A q \in Processes : Sends(q, u) => q = p
      BY <3>1 DEF UploadsInv, Alone, Undisturbed
    <3>3. redis[u] = "staged"
      BY <3>1, <1>2 DEF UploadsInv, FileKept
    <3>4. file[u] = "staged"
      BY <3>1, <3>2, <3>3, <1>2 DEF UploadsInv, FileKept
    <3>5. run'[p].at = "remember"
      BY <3>4, <1>2, <2>2
    <3> QED
      BY <1>2, <1>5, <3>1, <3>2, <3>5 DEF UploadsInv, FileKept
  <2> QED
    BY <2>1, <2>2 DEF FileKept
<1> QED
  BY <1>4, <1>5, <1>6, <1>7 DEF UploadsInv

LEMMA RememberInv ==
    ASSUME UploadsInv, NEW p \in Processes, Remember(p)
    PROVE  UploadsInv'
<1> DEFINE m == MessageOf(p)
           o == Upload(p)
<1>1. /\ m \in Messages /\ run[p].for = {m} /\ o \in Uploads /\ o = UploadOf[m]
      /\ m \notin Foreign /\ \A u : Sends(p, u) <=> u = o
  BY RunsMessage DEF Remember
<1>2. /\ run[p].at = "remember" /\ run'[p].for = run[p].for
      /\ \A q \in Processes \ {p} : run'[q] = run[q]
      /\ run'[p].at = "save" /\ run'[p].held
      /\ redis'[o] = "consumed"
      /\ \A u \in Uploads \ {o} : redis'[u] = redis[u]
      /\ UNCHANGED <<uploadVars, row, crossed, bounds>>
  BY <1>1 DEF UploadsInv, UploadsTypeOK, Remember, Prepared, Stages
<1>4. UploadsTypeOK'
  <2>1. run' \in [Processes -> [at : Stages, for : SUBSET Messages, held : BOOLEAN]]
    BY DEF UploadsInv, UploadsTypeOK, Remember, Prepared, Stages
  <2>2. redis' \in [Uploads -> Metadata] /\ memory' \in [Processes -> [Uploads -> Metadata]]
    BY <1>1 DEF UploadsInv, UploadsTypeOK, Remember, Metadata, Stages
  <2> QED
    BY <1>2, <2>1, <2>2 DEF UploadsInv, UploadsTypeOK, uploadVars, bounds
<1>5. /\ RunsWell'
      /\ \A q \in Processes, u \in Uploads : Sends(q, u)' <=> Sends(q, u)
      /\ \A u \in Uploads : Alone(u)'
  BY <1>1, <1>2, GoingOn
<1>0. o \in answered
  BY <1>1 DEF UploadsInv, Announced
<1>6. ASSUME NEW u \in Uploads PROVE Announced(u)'
  BY <1>0, <1>2, <1>5 DEF UploadsInv, Announced, uploadVars
<1>7. ASSUME NEW u \in Uploads PROVE FileKept(u)'
  <2>1. CASE u # o
    BY <2>1, <1>1, <1>2, <1>5 DEF UploadsInv, FileKept, Undisturbed, uploadVars, bounds
  <2>2. CASE u = o /\ Undisturbed(u)'
    <3>1. Undisturbed(u) /\ Sends(p, u)
      BY <2>2, <1>1, <1>2 DEF Undisturbed, uploadVars, bounds
    <3>2. \A q \in Processes : Sends(q, u) => q = p
      BY <3>1 DEF UploadsInv, Alone, Undisturbed
    <3> QED
      BY <1>2, <1>5, <2>2, <3>1, <3>2 DEF UploadsInv, FileKept, uploadVars
  <2> QED
    BY <2>1, <2>2 DEF FileKept
<1> QED
  BY <1>4, <1>5, <1>6, <1>7 DEF UploadsInv

LEMMA PrepareFailsInv ==
    ASSUME UploadsInv, NEW p \in Processes, PrepareFails(p)
    PROVE  UploadsInv'
<1>2. /\ run[p].at # "idle" /\ run'[p].for = run[p].for
      /\ \A q \in Processes \ {p} : run'[q] = run[q]
      /\ run'[p].at = "save"
      /\ UNCHANGED <<uploadVars, redis, memory, row, crossed, runs, crashes>>
      /\ errors' = errors + 1
  BY DEF UploadsInv, UploadsTypeOK, PrepareFails, Prepared, Error, Stages
<1>4. UploadsTypeOK'
  <2>1. run' \in [Processes -> [at : Stages, for : SUBSET Messages, held : BOOLEAN]]
    BY DEF UploadsInv, UploadsTypeOK, PrepareFails, Prepared, Stages
  <2> QED
    BY <1>2, <2>1 DEF UploadsInv, UploadsTypeOK, uploadVars
<1>5. /\ RunsWell'
      /\ \A q \in Processes, u \in Uploads : Sends(q, u)' <=> Sends(q, u)
      /\ \A u \in Uploads : Alone(u)'
  BY <1>2, GoingOn
<1>6. ASSUME NEW u \in Uploads PROVE Announced(u)'
  BY <1>2, <1>5 DEF UploadsInv, Announced, uploadVars
<1>7. ASSUME NEW u \in Uploads PROVE FileKept(u)'
  BY <1>2 DEF UploadsInv, UploadsTypeOK, FileKept, Undisturbed
<1> QED
  BY <1>4, <1>5, <1>6, <1>7 DEF UploadsInv

LEMMA SaveInv ==
    ASSUME UploadsInv, NEW p \in Processes, Save(p)
    PROVE  UploadsInv'
<1> DEFINE m == MessageOf(p)
           o == Upload(p)
<1>1. /\ m \in Messages /\ run[p].for = {m} /\ o \in Uploads /\ o = UploadOf[m]
      /\ \A u : Sends(p, u) <=> m \notin Foreign /\ u = o
  BY RunsMessage DEF Save
<1>2. /\ run[p].at = "save" /\ run'[p].for = run[p].for
      /\ \A q \in Processes \ {p} : run'[q] = run[q]
      /\ run'[p].at = "provide"
      /\ row' \in [Messages -> {"none", "bare", "attached"}]
      /\ \A x \in Messages \ {m} : row'[x] = row[x]
      /\ row'[m] = "bare" => row[m] = "bare" \/ ~run[p].held
      /\ UNCHANGED <<uploadVars, redis, memory, crossed, bounds>>
  BY <1>1 DEF UploadsInv, UploadsTypeOK, Save, Advance, Stages
<1>4. UploadsTypeOK'
  <2>1. run' \in [Processes -> [at : Stages, for : SUBSET Messages, held : BOOLEAN]]
    BY DEF UploadsInv, UploadsTypeOK, Save, Advance, Stages
  <2> QED
    BY <1>2, <2>1 DEF UploadsInv, UploadsTypeOK, uploadVars, bounds
<1>5. /\ RunsWell'
      /\ \A q \in Processes, u \in Uploads : Sends(q, u)' <=> Sends(q, u)
      /\ \A u \in Uploads : Alone(u)'
  BY <1>2, GoingOn
<1>6. ASSUME NEW u \in Uploads PROVE Announced(u)'
  BY <1>2, <1>5 DEF UploadsInv, Announced, uploadVars
<1>7. ASSUME NEW u \in Uploads PROVE FileKept(u)'
  <2>1. CASE Undisturbed(u)'
    <3>1. Undisturbed(u)
      BY <2>1, <1>2 DEF Undisturbed, uploadVars, bounds
    <3>2. m \notin Foreign /\ UploadOf[m] = u => row'[m] # "bare"
      BY <3>1, <1>1, <1>2 DEF UploadsInv, FileKept
    <3> QED
      BY <1>2, <1>5, <3>1, <3>2 DEF UploadsInv, FileKept, uploadVars
  <2> QED
    BY <2>1 DEF FileKept
<1> QED
  BY <1>4, <1>5, <1>6, <1>7 DEF UploadsInv

LEMMA ProvideInv ==
    ASSUME UploadsInv, NEW p \in Processes, Provide(p)
    PROVE  UploadsInv'
<1>1. /\ run[p].at = "provide" /\ run'[p].at = "idle"
      /\ \A q \in Processes \ {p} : run'[q] = run[q]
      /\ UNCHANGED <<uploadVars, redis, memory, row, crossed, bounds>>
  BY DEF UploadsInv, UploadsTypeOK, Provide, NoRun, Stages
<1>2. UploadsTypeOK'
  <2>1. run' \in [Processes -> [at : Stages, for : SUBSET Messages, held : BOOLEAN]]
    BY DEF UploadsInv, UploadsTypeOK, Provide, NoRun, Stages
  <2> QED
    BY <1>1, <2>1 DEF UploadsInv, UploadsTypeOK, uploadVars, bounds
<1>3. \A q \in Processes, u \in Uploads : Sends(q, u)' <=> q # p /\ Sends(q, u)
  BY <1>1 DEF Sends
<1>4. RunsWell'
  BY <1>1 DEF UploadsInv, RunsWell
<1>5. ASSUME NEW u \in Uploads PROVE Announced(u)' /\ Alone(u)'
  BY <1>1, <1>3 DEF UploadsInv, Announced, Alone, uploadVars
<1>6. ASSUME NEW u \in Uploads PROVE FileKept(u)'
  BY <1>1, <1>3 DEF UploadsInv, FileKept, Undisturbed, uploadVars, bounds
<1> QED
  BY <1>2, <1>4, <1>5, <1>6 DEF UploadsInv

LEMMA UploadCrashInv ==
    ASSUME UploadsInv, NEW p \in Processes, Crash(p)
    PROVE  UploadsInv'
<1>1. /\ run'[p].at = "idle"
      /\ \A q \in Processes \ {p} : run'[q] = run[q]
      /\ \A u \in Uploads : staging'[u] = IF staging[u] = p THEN Nobody ELSE staging[u]
      /\ UNCHANGED <<file, old, answered, redis, row, crossed, runs, errors>>
      /\ crashes' = crashes + 1
  BY DEF UploadsInv, UploadsTypeOK, Crash, NoRun, Stages
<1>2. UploadsTypeOK'
  <2>1. run' \in [Processes -> [at : Stages, for : SUBSET Messages, held : BOOLEAN]]
    BY DEF UploadsInv, UploadsTypeOK, Crash, NoRun, Stages
  <2>2. memory' \in [Processes -> [Uploads -> Metadata]]
    BY DEF UploadsInv, UploadsTypeOK, Crash, Metadata, Stages
  <2>3. staging' \in [Uploads -> Processes \cup {Nobody}]
    BY DEF UploadsInv, UploadsTypeOK, Crash, Stages
  <2> QED
    BY <1>1, <2>1, <2>2, <2>3 DEF UploadsInv, UploadsTypeOK
<1>3. \A q \in Processes, u \in Uploads : Sends(q, u)' => Sends(q, u)
  BY <1>1 DEF Sends
<1>4. RunsWell'
  BY <1>1 DEF UploadsInv, RunsWell
<1>5. ASSUME NEW u \in Uploads PROVE Announced(u)' /\ Alone(u)'
  BY <1>1, <1>3 DEF UploadsInv, Announced, Alone
<1>6. ASSUME NEW u \in Uploads PROVE FileKept(u)'
  BY <1>1 DEF UploadsInv, UploadsTypeOK, FileKept, Undisturbed
<1> QED
  BY <1>2, <1>4, <1>5, <1>6 DEF UploadsInv

LEMMA BeginInv ==
    ASSUME UploadsInv, NEW p \in Processes, NEW m \in Messages, Begin(p, m)
    PROVE  UploadsInv'
<1> DEFINE o == UploadOf[m]
<1>1. /\ run[p].at = "idle" /\ run'[p].at = "lookup" /\ run'[p].for = {m}
      /\ \A q \in Processes \ {p} : run'[q] = run[q]
      /\ o \in Uploads /\ o \in answered
      /\ crossed' = IF m \in Foreign \/ RunsOf(o) = {} THEN crossed ELSE crossed \cup {o}
      /\ UNCHANGED <<uploadVars, redis, memory, row, crashes, errors>>
      /\ runs' = runs + 1
  BY UploadsAssumption DEF UploadsInv, UploadsTypeOK, Begin
<1>2. UploadsTypeOK'
  <2>1. run' \in [Processes -> [at : Stages, for : SUBSET Messages, held : BOOLEAN]]
    BY DEF UploadsInv, UploadsTypeOK, Begin, Stages
  <2> QED
    BY <1>1, <2>1 DEF UploadsInv, UploadsTypeOK, uploadVars
<1>3. \A q \in Processes, u \in Uploads :
          Sends(q, u)' <=> IF q = p THEN m \notin Foreign /\ u = o ELSE Sends(q, u)
  <2>1. \A n : {m} = {n} => n = m
    OBVIOUS
  <2> QED
    BY <1>1, <2>1 DEF Sends
<1>4. RunsWell'
  BY <1>1 DEF UploadsInv, RunsWell
<1>5. \A u \in Uploads : ~Sends(p, u)
  BY <1>1 DEF Sends
<1>6. ASSUME NEW u \in Uploads PROVE Announced(u)'
  BY <1>1, <1>3 DEF UploadsInv, Announced, uploadVars
<1>7. ASSUME NEW u \in Uploads PROVE Alone(u)'
  <2>1. RunsOf(o) = {q \in Processes : Sends(q, o)}
    BY RunsOfUpload
  <2>2. CASE u = o /\ m \notin Foreign
    BY <2>1, <2>2, <1>1, <1>3 DEF Alone
  <2>3. CASE ~(u = o /\ m \notin Foreign)
    BY <2>3, <1>1, <1>3, <1>5 DEF UploadsInv, Alone
  <2> QED
    BY <2>2, <2>3
<1>8. ASSUME NEW u \in Uploads PROVE FileKept(u)'
  <2>1. CASE Undisturbed(u)'
    <3>1. Undisturbed(u)
      BY <2>1, <1>1 DEF Undisturbed, uploadVars
    <3> QED
      BY <1>1, <1>3, <1>5, <3>1 DEF UploadsInv, FileKept, uploadVars
  <2> QED
    BY <2>1 DEF FileKept
<1> QED
  BY <1>2, <1>4, <1>6, <1>7, <1>8 DEF UploadsInv
-----------------------------------------------------------------------------
LEMMA UploadsInvHolds == UploadsSpec => []UploadsInv
<1>1. UploadsInit => UploadsInv
  <2> SUFFICES ASSUME UploadsInit PROVE UploadsInv
    OBVIOUS
  <2>1. \A p \in Processes : run[p].at = "idle"
    BY DEF UploadsInit, NoRun
  <2>2. UploadsTypeOK
    BY DEF UploadsInit, UploadsTypeOK, Metadata, NoRun, Stages
  <2>3. RunsWell
    BY <2>1 DEF RunsWell
  <2>4. ASSUME NEW u \in Uploads PROVE Announced(u) /\ Alone(u)
    BY <2>1 DEF UploadsInit, Announced, Alone, Sends
  <2>5. ASSUME NEW u \in Uploads PROVE FileKept(u)
    BY <2>1 DEF UploadsInit, FileKept, Sends
  <2> QED
    BY <2>2, <2>3, <2>4, <2>5 DEF UploadsInv
<1>2. UploadsInv /\ [UploadsNext]_stagedVars => UploadsInv'
  <2> SUFFICES ASSUME UploadsInv, [UploadsNext]_stagedVars PROVE UploadsInv'
    OBVIOUS
  <2>1. CASE UNCHANGED stagedVars
    <3>1. UploadsTypeOK' /\ RunsWell'
      BY <2>1 DEF UploadsInv, UploadsTypeOK, RunsWell, stagedVars
    <3>2. ASSUME NEW u \in Uploads PROVE Announced(u)' /\ Alone(u)' /\ FileKept(u)'
      BY <2>1 DEF UploadsInv, stagedVars, Announced, Alone, FileKept, Undisturbed, Sends
    <3> QED
      BY <3>1, <3>2 DEF UploadsInv
  <2>2. CASE \E u \in Uploads : \/ AnnounceUpload(u) \/ AnnouncingFails(u)
                                \/ GrowOld(u) \/ Sweep(u) \/ Expire(u)
    BY <2>2, AnnounceUploadInv, StandingInv
  <2>3. CASE \E p \in Processes : Send(p)
    BY <2>3, LookupInv, MoveInv, RememberInv, SaveInv, ProvideInv DEF Send
  <2>4. CASE \E p \in Processes : PrepareFails(p) \/ Crash(p)
    BY <2>4, PrepareFailsInv, UploadCrashInv
  <2>5. CASE \E p \in Processes, u \in Uploads : Ingest(p, u) \/ Forget(p, u)
    BY <2>5, IngestInv, StandingInv
  <2>6. CASE \E p \in Processes, m \in Messages : Begin(p, m)
    BY <2>6, BeginInv
  <2> QED
    BY <2>1, <2>2, <2>3, <2>4, <2>5, <2>6 DEF UploadsNext
<1> QED
  BY <1>1, <1>2, PTL DEF UploadsSpec

\* The uploads, their two tiers of metadata, the runs and the rows keep their
\* types (StagedUploadStore, AgentMessageSender.deliver).
THEOREM UploadsTypes == UploadsSpec => []UploadsTypeOK
BY UploadsInvHolds, PTL DEF UploadsInv

\* A row is saved without the file of its upload only if the upload was a day
\* old, two sends or two tiers of the cache crossed on it, or an operation
\* failed or a process died (StagedUploadStore.consume, saveOutbound).
THEOREM LostFilesAreCaused == UploadsSpec => []LostFilesHaveACause
<1>1. UploadsInv => LostFilesHaveACause
  <2> SUFFICES ASSUME UploadsInv, NEW m \in Messages \ Foreign, row[m] = "bare",
                      UploadOf[m] \notin old \cup crossed, ~(crashes + errors > 0)
               PROVE  FALSE
    BY DEF LostFilesHaveACause
  <2>1. UploadOf[m] \in Uploads
    BY UploadsAssumption
  <2>2. crashes = 0 /\ errors = 0
    <3>1. crashes \in Nat /\ errors \in Nat
      BY DEF UploadsInv, UploadsTypeOK
    <3> QED
      BY <3>1
  <2> QED
    BY <2>1, <2>2 DEF UploadsInv, FileKept, Undisturbed
<1> QED
  BY <1>1, UploadsInvHolds, PTL
-----------------------------------------------------------------------------
(* Times of the day in a zone (ZonedTime). *)

\* By how much the clock changes.
Change(z) == Latest(z.after - z.before, z.before - z.after)

\* zonedTimeToUtc is exact, or early by the whole change of the clock, whatever
\* the offsets; it is never exact, hence always early, for a time that the clock
\* skips, where the comment has it "shift forward" (zoned-time.ts:103-118).
THEOREM ConversionsAreExactOrEarly ==
    ASSUME NEW z \in Zone, NEW local \in Int
    PROVE  LET shown == LocalTime(z, ZonedTimeToUtc(z, local))
           IN  /\ shown \in {local, local - Change(z)}
               /\ Skipped(z, local) => shown = local - Change(z) /\ shown < local
<1> DEFINE guess == OffsetAt(z, local)
           first == local - guess
           offset == OffsetAt(z, first)
           second == local - offset
           instant == ZonedTimeToUtc(z, local)
           shown == LocalTime(z, instant)
<1>1. z.at \in Int /\ z.before \in Int /\ z.after \in Int
  BY DEF Zone
<1>2. \A t \in Int : /\ OffsetAt(z, t) \in {z.before, z.after}
                     /\ LocalTime(z, t) = t + OffsetAt(z, t)
  BY DEF OffsetAt, LocalTime
<1>3. /\ guess \in {z.before, z.after} /\ offset \in {z.before, z.after}
      /\ first \in Int /\ second \in Int /\ instant = Least(first, second)
  BY <1>1, <1>2 DEF ZonedTimeToUtc
<1> HIDE DEF guess, first, offset, second, instant
<1>4. first = local - guess /\ second = local - offset /\ OffsetAt(z, first) = offset
  BY DEF guess, first, second, offset
<1>5. CASE guess = offset
  <2>1. instant = first /\ second = first
    BY <1>3, <1>4, <1>5 DEF Least
  <2>2. shown = local
    BY <1>1, <1>2, <1>3, <1>4, <1>5, <2>1
  <2>3. first \in {local - z.before, local - z.after}
    BY <1>3, <1>4
  <2>4. ~Skipped(z, local)
    BY <2>1, <2>2, <2>3 DEF Skipped, InstantsOf
  <2> QED
    BY <2>2, <2>4 DEF instant
<1>6. CASE guess # offset
  <2>1. Change(z) = Latest(guess - offset, offset - guess) /\ Change(z) > 0
    BY <1>1, <1>3, <1>6 DEF Change, Latest
  <2>2. CASE guess > offset
    <3>1. instant = first
      BY <1>1, <1>3, <1>4, <2>2 DEF Least
    <3>2. shown = local - Change(z) /\ shown < local
      BY <1>1, <1>2, <1>3, <1>4, <2>1, <2>2, <3>1 DEF Latest
    <3> QED
      BY <3>2 DEF instant
  <2>3. CASE guess < offset
    <3>1. instant = second
      BY <1>1, <1>3, <1>4, <2>3 DEF Least
    <3>2. CASE OffsetAt(z, second) = offset
      <4>1. shown = local
        BY <1>1, <1>2, <1>3, <1>4, <3>1, <3>2
      <4>2. second \in {local - z.before, local - z.after}
        BY <1>3, <1>4
      <4>3. ~Skipped(z, local)
        BY <3>1, <4>1, <4>2 DEF Skipped, InstantsOf
      <4> QED
        BY <4>1, <4>3 DEF instant
    <3>3. CASE OffsetAt(z, second) # offset
      <4>1. OffsetAt(z, second) = guess
        BY <1>2, <1>3, <1>6, <3>3
      <4>2. shown = local - Change(z) /\ shown < local
        BY <1>1, <1>2, <1>3, <1>4, <2>1, <2>3, <3>1, <4>1 DEF Latest
      <4> QED
        BY <4>2 DEF instant
    <3> QED
      BY <3>2, <3>3
  <2> QED
    BY <1>1, <1>3, <1>6, <2>2, <2>3
<1> QED
  BY <1>5, <1>6

\* What is further from the change of the clock than the offsets reach is read
\* as the one instant that shows it: AgreesWithClock excepts no opening, closing
\* or midnight but those near the change (zoned-time.ts:106-118).
THEOREM AwayFromTheChange ==
    ASSUME NEW z \in Zone, NEW local \in Int,
           \/ \A offset \in {0, z.before, z.after} : local - offset < z.at
           \/ \A offset \in {0, z.before, z.after} : local - offset >= z.at
    PROVE  InstantsOf(z, local) = {ZonedTimeToUtc(z, local)} /\ Converts(z, local)
<1>1. z.at \in Int /\ z.before \in Int /\ z.after \in Int
  BY DEF Zone
<1>2. PICK offset \in {z.before, z.after} :
          \A t \in {local, local - z.before, local - z.after} : OffsetAt(z, t) = offset
  <2>1. CASE \A offset \in {0, z.before, z.after} : local - offset < z.at
    BY <1>1, <2>1 DEF OffsetAt
  <2>2. CASE \A offset \in {0, z.before, z.after} : local - offset >= z.at
    BY <1>1, <2>2 DEF OffsetAt
  <2> QED
    BY <2>1, <2>2
<1>3. ZonedTimeToUtc(z, local) = local - offset
  BY <1>1, <1>2 DEF ZonedTimeToUtc, Least
<1>4. \A t \in {local - z.before, local - z.after} : LocalTime(z, t) = local <=> t = local - offset
  BY <1>1, <1>2 DEF LocalTime
<1>5. InstantsOf(z, local) = {local - offset}
  BY <1>1, <1>2, <1>4 DEF InstantsOf
<1>6. Converts(z, local)
  BY <1>2, <1>3, <1>4 DEF Converts
<1> QED
  BY <1>3, <1>5, <1>6
-----------------------------------------------------------------------------
(* Business time (BusinessHours). *)

\* Division of integers, and what it makes of dates.
LEMMA Divides ==
    ASSUME NEW n \in Nat \ {0}, NEW l \in Int
    PROVE  /\ l \div n \in Int
           /\ l % n \in 0..(n - 1)
           /\ l = n * (l \div n) + (l % n)
OBVIOUS

LEMMA Multiples ==
    ASSUME NEW n \in Nat \ {0}, NEW c \in Int, NEW d \in Int, c < d
    PROVE  n * c + n <= n * d
<1>1. PICK k \in Nat : d = c + 1 + k
  <2>1. d - c - 1 \in Nat /\ d = c + 1 + (d - c - 1)
    OBVIOUS
  <2> QED BY <2>1
<1>2. n * d = n * c + n + n * k
  BY <1>1
<1>3. n * k \in Nat
  BY <1>1
<1> QED BY <1>2, <1>3

\* The times of a date are those from its midnight to the next.
LEMMA OnDate ==
    ASSUME NEW l \in Int, NEW d \in Int
    PROVE  /\ d * DayLength \in Int
           /\ CalendarDay(l, DayLength) \in Int
           /\ CalendarDay(l, DayLength) < d <=> l < d * DayLength
           /\ CalendarDay(l, DayLength) = d
                  => /\ l % DayLength \in Int
                     /\ l = d * DayLength + (l % DayLength)
           /\ d * DayLength <= l /\ l < d * DayLength + DayLength
                  => CalendarDay(l, DayLength) = d
<1> DEFINE q == l \div DayLength  r == l % DayLength
<1>0. DayLength \in Nat \ {0}
  BY HoursAssumption
<1>1. q \in Int /\ r \in 0..(DayLength - 1) /\ l = DayLength * q + r
  BY <1>0, Divides
<1>2. DayLength * d = d * DayLength /\ DayLength * d \in Int /\ DayLength * q \in Int
  BY <1>0, <1>1
<1>3. q < d => DayLength * q + DayLength <= DayLength * d
  BY <1>0, <1>1, Multiples
<1>4. d < q => DayLength * d + DayLength <= DayLength * q
  BY <1>0, <1>1, Multiples
<1> HIDE DEF q, r
<1>5. q = d => DayLength * q = DayLength * d
  OBVIOUS
<1>6. /\ q < d <=> l < d * DayLength
      /\ q = d => l = d * DayLength + r
      /\ d * DayLength <= l /\ l < d * DayLength + DayLength => q = d
  BY <1>0, <1>1, <1>2, <1>3, <1>4, <1>5
<1> QED BY <1>1, <1>2, <1>6 DEF CalendarDay, q, r

\* A time that comes once and is converted right divides the instants: those
\* before it show an earlier time, the others that or a later one, whichever way
\* the clock changes.
LEMMA Clock ==
    ASSUME NEW z \in Zone, NEW l \in Int, NEW t \in Int,
           Cardinality(InstantsOf(z, l)) = 1, Converts(z, l)
    PROVE  /\ ZonedTimeToUtc(z, l) \in Int
           /\ t < ZonedTimeToUtc(z, l) <=> LocalTime(z, t) < l
<1> DEFINE u == ZonedTimeToUtc(z, l)  b == l - z.before  a == l - z.after
<1>1. z.at \in Int /\ z.before \in Int /\ z.after \in Int
  BY DEF Zone
<1>2. u \in {a, b} /\ a \in Int /\ b \in Int
  BY <1>1 DEF ZonedTimeToUtc, OffsetAt, Least
<1>3. LocalTime(z, u) = l
  BY DEF Converts
<1>4. u \in InstantsOf(z, l)
  BY <1>2, <1>3 DEF InstantsOf
<1>5. PICK x : InstantsOf(z, l) = {x}
  <2>1. IsFiniteSet({a, b})
    <3>1. IsFiniteSet({a}) /\ {a, b} = {a} \cup {b}
      BY FS_Singleton
    <3> HIDE DEF a, b
    <3>2. IsFiniteSet({a} \cup {b})
      BY <3>1, FS_AddElement
    <3> QED BY <3>1, <3>2
  <2>2. IsFiniteSet(InstantsOf(z, l))
    BY <2>1, FS_Subset DEF InstantsOf
  <2> QED BY <2>2, FS_Singleton
<1>6. \A v \in {a, b} : LocalTime(z, v) = l => v = u
  BY <1>4, <1>5 DEF InstantsOf
<1> HIDE DEF u
<1>7. (LocalTime(z, a) = l => a = u) /\ (LocalTime(z, b) = l => b = u)
  BY <1>6
<1> QED BY <1>1, <1>2, <1>3, <1>7 DEF LocalTime, OffsetAt, u
-----------------------------------------------------------------------------
\* The loop of businessSeconds: types, and what it has counted so far.
HoursTypeOK ==
    /\ zone \in Zone
    /\ schedule \in [0..(Week - 1) -> SUBSET Interval] \cup {<<>>}
    /\ from \in Int /\ to \in Int /\ from <= to
    /\ day \in 0..MaxDays
    /\ counted \subseteq Intervals(Date)
    /\ total \in Int
    /\ done \in BOOLEAN

Unambiguous == OnceEach /\ WellConverted /\ Disjoint

Early == to <= from \/ RoundTheClock \/ NeverOpen

DateAt(t) == CalendarDay(LocalTime(zone, t), DayLength)
Within(t, iv) ==
    LET time == LocalTime(zone, t) % DayLength IN iv[1] <= time /\ time < iv[2]

\* The instants of the span counted so far: the open ones of the dates done, and
\* those in the intervals counted of the next date.
CountedTime ==
    {t \in from..(to - 1) :
        \/ DateAt(t) < Date /\ IsWithinBusinessHours(t)
        \/ DateAt(t) = Date /\ \E iv \in counted : Within(t, iv)}

\* The inductive invariant: a span that is not walked through is measured at
\* once; of any other, what is counted is CountedTime, an interval is counted on
\* a day of the span only, and the loop ends before its last day only at a
\* midnight after the span.
HoursInv ==
    /\ HoursTypeOK
    /\ Early => /\ day = 0 /\ counted = {}
                /\ total = IF done /\ RoundTheClock THEN to - from ELSE 0
    /\ ~Early => (Unambiguous => total = Cardinality(CountedTime))
    /\ counted # {} => ~done /\ day < MaxDays /\ InstantOn(Date, 0) < to
    /\ done /\ day < MaxDays => Early \/ to <= InstantOn(Date, 0)

\* Dates and instants are integers, and the first date is that of the start.
LEMMA Days ==
    ASSUME HoursTypeOK
    PROVE  /\ FirstDate \in Int /\ Date \in Int
           /\ Date \in FirstDate..Date
           /\ \A t \in Int : LocalTime(zone, t) \in Int /\ DateAt(t) \in Int
           /\ DateAt(from) = FirstDate
           /\ DayLength \in Nat \ {0} /\ MaxDays \in Nat \ {0}
<1>1. zone.at \in Int /\ zone.before \in Int /\ zone.after \in Int
  BY DEF HoursTypeOK, Zone
<1>2. \A t \in Int : LocalTime(zone, t) \in Int
  BY <1>1 DEF LocalTime, OffsetAt
<1>3. \A t \in Int : DateAt(t) \in Int
  BY <1>2, OnDate, 0 \in Int DEF DateAt
<1>4. DateAt(from) = FirstDate /\ from \in Int /\ day \in Nat
  BY HoursAssumption DEF DateAt, FirstDate, HoursTypeOK
<1>5. Date = FirstDate + day
  BY DEF Date
<1>6. FirstDate \in Int
  BY <1>3, <1>4
<1>7. Date \in Int /\ Date \in FirstDate..Date
  BY <1>4, <1>5, <1>6
<1>8. DayLength \in Nat \ {0} /\ MaxDays \in Nat \ {0}
  BY HoursAssumption
<1> QED BY <1>2, <1>3, <1>4, <1>6, <1>7, <1>8

LEMMA WeekdayOf ==
    ASSUME HoursTypeOK, ~RoundTheClock, NEW date \in Int
    PROVE  /\ Intervals(date) = schedule[Weekday(date)]
           /\ Weekday(date) \in DOMAIN schedule
           /\ Intervals(date) \subseteq Interval
<1>1. Week \in Nat \ {0}
  BY HoursAssumption
<1>2. date % Week \in 0..(Week - 1)
  BY <1>1, Divides
<1>3. schedule \in [0..(Week - 1) -> SUBSET Interval]
  BY DEF HoursTypeOK, RoundTheClock
<1> QED BY <1>2, <1>3 DEF Weekday, Intervals

LEMMA IntervalsOf ==
    ASSUME HoursTypeOK, NEW date \in Int, NEW iv \in Intervals(date)
    PROVE  ~RoundTheClock /\ iv \in Interval
<1>1. ~RoundTheClock
  BY DEF Intervals
<1> QED BY <1>1, WeekdayOf

LEMMA Ticks ==
    ASSUME NEW iv \in Interval
    PROVE  /\ iv[1] \in Int /\ 0 <= iv[1] /\ iv[1] < DayLength
           /\ iv[2] \in Int /\ 0 <= iv[2] /\ iv[2] < DayLength
           /\ iv[1] < iv[2]
BY HoursAssumption DEF Interval

LEMMA InstantIsInt ==
    ASSUME HoursTypeOK, NEW time \in Int PROVE InstantOn(Date, time) \in Int
<1>1. zone.at \in Int /\ zone.before \in Int /\ zone.after \in Int
  BY DEF HoursTypeOK, Zone
<1>2. Date * DayLength \in Int
  BY Days, OnDate
<1> DEFINE m == Date * DayLength
<1> HIDE DEF m
<1>3. m \in Int => ZonedTimeToUtc(zone, m + time) \in Int
  BY <1>1 DEF ZonedTimeToUtc, OffsetAt, Least
<1> QED BY <1>2, <1>3 DEF InstantOn, m

TimesOf(date) == {0} \cup UNION {{iv[1], iv[2]} : iv \in Intervals(date)}

\* So for the times the loop converts.
LEMMA Crossing ==
    ASSUME HoursTypeOK, OnceEach, WellConverted,
           NEW date \in FirstDate..Date, NEW time \in TimesOf(date), NEW t \in Int
    PROVE  /\ InstantOn(date, time) \in Int
           /\ t < InstantOn(date, time) <=> LocalTime(zone, t) < date * DayLength + time
<1> DEFINE l == date * DayLength + time
<1>1. date \in Int
  BY Days
<1>2. time \in Int
  BY <1>1, IntervalsOf, Ticks DEF TimesOf
<1>3. l \in Conversions
  BY DEF Conversions, TimesOf
<1>4. l \in Int
  BY <1>1, <1>2, OnDate
<1>5. Cardinality(InstantsOf(zone, l)) = 1 /\ Converts(zone, l)
  BY <1>3 DEF OnceEach, WellConverted
<1>6. zone \in Zone
  BY DEF HoursTypeOK
<1> HIDE DEF l
<1>7. /\ ZonedTimeToUtc(zone, l) \in Int
      /\ t < ZonedTimeToUtc(zone, l) <=> LocalTime(zone, t) < l
  BY <1>4, <1>5, <1>6, Clock
<1> QED BY <1>7 DEF InstantOn, l

LEMMA Midnight ==
    ASSUME HoursTypeOK, OnceEach, WellConverted,
           NEW date \in FirstDate..Date, NEW t \in Int
    PROVE  /\ InstantOn(date, 0) \in Int
           /\ t < InstantOn(date, 0) <=> DateAt(t) < date
<1>1. date \in Int /\ LocalTime(zone, t) \in Int
  BY Days
<1>2. 0 \in TimesOf(date)
  BY DEF TimesOf
<1>3. /\ InstantOn(date, 0) \in Int
      /\ t < InstantOn(date, 0) <=> LocalTime(zone, t) < date * DayLength + 0
  BY <1>2, Crossing
<1>4. date * DayLength \in Int /\ (DateAt(t) < date <=> LocalTime(zone, t) < date * DayLength)
  BY <1>1, OnDate DEF DateAt
<1> QED BY <1>3, <1>4

\* An instant is between the two conversions of an interval iff the clock shows
\* that date and a time of the interval.
LEMMA Opening ==
    ASSUME HoursTypeOK, OnceEach, WellConverted,
           NEW date \in FirstDate..Date, NEW iv \in Intervals(date), NEW t \in Int
    PROVE  /\ InstantOn(date, iv[1]) \in Int /\ InstantOn(date, iv[2]) \in Int
           /\ DateAt(t) = date /\ Within(t, iv)
                  <=> InstantOn(date, iv[1]) <= t /\ t < InstantOn(date, iv[2])
<1> DEFINE l == LocalTime(zone, t)
<1>1. date \in Int /\ l \in Int
  BY Days
<1>2. iv \in Interval
  BY <1>1, IntervalsOf
<1>3. iv[1] \in TimesOf(date) /\ iv[2] \in TimesOf(date)
  BY DEF TimesOf
<1>4. /\ InstantOn(date, iv[1]) \in Int
      /\ t < InstantOn(date, iv[1]) <=> l < date * DayLength + iv[1]
  BY <1>3, Crossing
<1>5. /\ InstantOn(date, iv[2]) \in Int
      /\ t < InstantOn(date, iv[2]) <=> l < date * DayLength + iv[2]
  BY <1>3, Crossing
<1>6. /\ iv[1] \in Int /\ 0 <= iv[1] /\ iv[1] < DayLength
      /\ iv[2] \in Int /\ 0 <= iv[2] /\ iv[2] < DayLength
  BY <1>2, Ticks
<1> HIDE DEF l
<1>7. /\ date * DayLength \in Int
      /\ CalendarDay(l, DayLength) = date
             => l % DayLength \in Int /\ l = date * DayLength + (l % DayLength)
      /\ date * DayLength <= l /\ l < date * DayLength + DayLength
             => CalendarDay(l, DayLength) = date
  BY <1>1, OnDate
<1> DEFINE m == date * DayLength  r == l % DayLength
<1>8. DayLength \in Int
  BY HoursAssumption
<1> HIDE DEF m, r
<1>9. CalendarDay(l, DayLength) = date /\ iv[1] <= r /\ r < iv[2]
          <=> m + iv[1] <= l /\ l < m + iv[2]
  <2>1. /\ m \in Int
        /\ CalendarDay(l, DayLength) = date => r \in Int /\ l = m + r
        /\ m <= l /\ l < m + DayLength => CalendarDay(l, DayLength) = date
    BY <1>7 DEF m, r
  <2> QED BY <2>1, <1>1, <1>6, <1>8
<1>10. DateAt(t) = date /\ Within(t, iv)
          <=> CalendarDay(l, DayLength) = date /\ iv[1] <= r /\ r < iv[2]
  BY DEF DateAt, Within, l, r
<1>11. m \in Int
  BY <1>7 DEF m
<1>12. /\ t < InstantOn(date, iv[1]) <=> l < m + iv[1]
       /\ t < InstantOn(date, iv[2]) <=> l < m + iv[2]
  BY <1>4, <1>5 DEF m
<1>13. m + iv[1] <= l /\ l < m + iv[2]
           <=> InstantOn(date, iv[1]) <= t /\ t < InstantOn(date, iv[2])
  BY <1>1, <1>4, <1>5, <1>6, <1>11, <1>12
<1> QED BY <1>4, <1>5, <1>9, <1>10, <1>13

\* isWithinBusinessHours in terms of the intervals of a date.
LEMMA OpenOnDate ==
    ASSUME HoursTypeOK, ~RoundTheClock, NEW t \in Int
    PROVE  IsWithinBusinessHours(t) <=> \E iv \in Intervals(DateAt(t)) : Within(t, iv)
<1>1. DateAt(t) \in Int
  BY Days
<1>2. Intervals(DateAt(t)) = schedule[Weekday(DateAt(t))]
  BY <1>1, WeekdayOf
<1> QED BY <1>2 DEF IsWithinBusinessHours, DateAt, Within

LEMMA SpanFinite ==
    ASSUME HoursTypeOK, NEW S, S \subseteq from..(to - 1)
    PROVE  IsFiniteSet(S) /\ Cardinality(S) \in Nat
<1>1. from \in Int /\ to - 1 \in Int
  BY DEF HoursTypeOK
<1>2. IsFiniteSet(from..(to - 1))
  BY <1>1, FS_Interval
<1>3. IsFiniteSet(S)
  BY <1>2, FS_Subset
<1> QED BY <1>3, FS_CardinalityType

LEMMA OverlapIsInt ==
    ASSUME HoursTypeOK, NEW iv \in Intervals(Date) PROVE Overlap(Date, iv) \in Int
<1>1. InstantOn(Date, iv[1]) \in Int /\ InstantOn(Date, iv[2]) \in Int
  BY Days, IntervalsOf, Ticks, InstantIsInt
<1>2. from \in Int /\ to \in Int
  BY DEF HoursTypeOK
<1> QED BY <1>1, <1>2 DEF Overlap, Latest, Least

LEMMA HoursStart == HoursInit => HoursInv
<1> SUFFICES ASSUME HoursInit PROVE HoursInv
  OBVIOUS
<1>1. HoursTypeOK
  <2>1. zone \in Zone /\ from \in Int
        /\ schedule \in [0..(Week - 1) -> SUBSET Interval] \cup {<<>>}
    BY HoursAssumption DEF HoursInit
  <2>2. to \in Int /\ from <= to
    <3>1. PICK length \in 0..Longest : to = from + length
      BY DEF HoursInit
    <3>2. length \in Nat
      BY HoursAssumption
    <3> QED BY <2>1, <3>1, <3>2
  <2>3. day \in 0..MaxDays /\ counted = {} /\ total = 0 /\ done = FALSE
    <3>1. MaxDays \in Nat
      BY HoursAssumption
    <3> QED BY <3>1 DEF HoursInit
  <2>4. total \in Int
    BY <2>3
  <2>5. done \in BOOLEAN /\ counted \subseteq Intervals(Date)
    BY <2>3, Zenon
  <2> QED BY <2>1, <2>2, <2>3, <2>4, <2>5 DEF HoursTypeOK
<1>2. day = 0 /\ counted = {} /\ total = 0 /\ done = FALSE
  BY DEF HoursInit
<1>3. ASSUME Unambiguous PROVE CountedTime = {}
  <2>1. Date = FirstDate
    BY <1>1, <1>2, Days DEF Date
  <2>2. ASSUME NEW t \in from..(to - 1) PROVE ~(DateAt(t) < Date)
    <3>1. from \in Int /\ t \in Int /\ from <= t
      BY <1>1 DEF HoursTypeOK
    <3>2. Date \in FirstDate..Date /\ DateAt(from) = Date /\ Date \in Int
      BY <1>1, <2>1, Days
    <3>3. /\ InstantOn(Date, 0) \in Int
          /\ t < InstantOn(Date, 0) <=> DateAt(t) < Date
          /\ from < InstantOn(Date, 0) <=> DateAt(from) < Date
      BY <1>1, <1>3, <3>1, <3>2, Midnight DEF Unambiguous
    <3> QED BY <3>1, <3>2, <3>3
  <2> QED BY <1>2, <2>2 DEF CountedTime
<1>4. Unambiguous => total = Cardinality(CountedTime)
  BY <1>2, <1>3, FS_EmptySet
<1> QED BY <1>1, <1>2, <1>4 DEF HoursInv

\* What depends on the span, the zone and the schedule only.
LEMMA SameSpan ==
    ASSUME zone' = zone, schedule' = schedule, from' = from, to' = to
    PROVE  /\ FirstDate' = FirstDate
           /\ RoundTheClock' = RoundTheClock /\ (Early <=> Early') /\ Disjoint' = Disjoint
           /\ \A t : DateAt(t)' = DateAt(t)
           /\ \A t : IsWithinBusinessHours(t)' = IsWithinBusinessHours(t)
           /\ \A t, iv : Within(t, iv)' = Within(t, iv)
           /\ \A date : Intervals(date)' = Intervals(date)
           /\ \A date, time : InstantOn(date, time)' = InstantOn(date, time)
BY DEF FirstDate, RoundTheClock, Early, NeverOpen, Disjoint, DateAt, IsWithinBusinessHours,
       Within, Intervals, InstantOn, Weekday

LEMMA ReturnEarlyInv == HoursInv /\ ReturnEarly => HoursInv'
<1> SUFFICES ASSUME HoursInv, ReturnEarly PROVE HoursInv'
  OBVIOUS
<1>1. /\ zone' = zone /\ schedule' = schedule /\ from' = from /\ to' = to
      /\ day' = day /\ counted' = counted /\ done' = TRUE /\ ~done
      /\ total' = IF RoundTheClock THEN Latest(0, to - from) ELSE 0
  BY DEF ReturnEarly, input
<1>2. Early /\ Early' /\ RoundTheClock' = RoundTheClock
  BY <1>1 DEF ReturnEarly, Early, RoundTheClock, NeverOpen
<1>3. day = 0 /\ counted = {}
  BY <1>2 DEF HoursInv
<1>4. from \in Int /\ to \in Int /\ from <= to
  BY DEF HoursInv, HoursTypeOK
<1>5. total' = IF RoundTheClock THEN to - from ELSE 0
  BY <1>1, <1>4 DEF Latest
<1>6. HoursTypeOK'
  <2>1. total' \in Int
    BY <1>4, <1>5
  <2>2. counted' \subseteq Intervals(Date)'
    BY <1>1, <1>3
  <2> QED BY <1>1, <2>1, <2>2 DEF HoursInv, HoursTypeOK
<1> QED BY <1>1, <1>2, <1>3, <1>5, <1>6 DEF HoursInv

LEMMA ReturnInv == HoursInv /\ Return => HoursInv'
<1> SUFFICES ASSUME HoursInv, Return PROVE HoursInv'
  OBVIOUS
<1>1. /\ zone' = zone /\ schedule' = schedule /\ from' = from /\ to' = to
      /\ day' = day /\ counted' = counted /\ done' = TRUE /\ ~done /\ total' = total
  BY DEF Return, input, Walked
<1>2. Date' = Date /\ ~Early /\ ~Early'
  BY <1>1, SameSpan DEF Date, Return, Early, Walked, HoursInv, HoursTypeOK
<1>3. HoursTypeOK'
  BY <1>1, <1>2, SameSpan DEF HoursInv, HoursTypeOK
<1>4. CountedTime' = CountedTime
  BY <1>1, <1>2, SameSpan DEF CountedTime
<1>5. Unambiguous' = Unambiguous
  <2>1. Conversions' = Conversions
    BY <1>1, <1>2, SameSpan DEF Conversions
  <2> QED BY <1>1, <2>1, SameSpan DEF Unambiguous, OnceEach, WellConverted
<1>6. counted' = {} /\ (day' < MaxDays => to' <= InstantOn(Date, 0)')
  <2>1. day \in 0..MaxDays /\ MaxDays \in Nat /\ to \in Int /\ InstantOn(Date, 0) \in Int
    BY HoursAssumption, InstantIsInt DEF HoursInv, HoursTypeOK
  <2>2. day = MaxDays \/ to <= InstantOn(Date, 0)
    BY DEF Return
  <2>3. counted = {}
    BY <2>1, <2>2 DEF HoursInv
  <2> QED BY <1>1, <1>2, <2>1, <2>2, <2>3, SameSpan
<1>7. ~Early /\ (Unambiguous => total = Cardinality(CountedTime))
  BY <1>2 DEF HoursInv
<1> QED BY <1>1, <1>2, <1>3, <1>4, <1>5, <1>6, <1>7 DEF HoursInv

\* An interval adds the instants of the span between its two conversions, none
\* of which was counted: those of other dates show another date, and those of
\* the other intervals of this date another time.
LEMMA CountInv == HoursInv /\ CountInterval => HoursInv'
<1> SUFFICES ASSUME HoursInv, CountInterval PROVE HoursInv'
  OBVIOUS
<1>1. /\ zone' = zone /\ schedule' = schedule /\ from' = from /\ to' = to
      /\ day' = day /\ done' = done /\ ~done /\ InDay
  BY DEF CountInterval, InDay, input, Walked
<1>2. PICK iv \in Intervals(Date) \ counted :
          total' = total + Overlap(Date, iv) /\ counted' = counted \cup {iv}
  BY DEF CountInterval
<1>3. Date' = Date /\ ~Early /\ ~Early'
  BY <1>1, SameSpan DEF Date, InDay, Early, Walked, HoursInv, HoursTypeOK
<1>4. Conversions' = Conversions /\ Unambiguous' = Unambiguous
  <2>1. Conversions' = Conversions
    BY <1>1, <1>3, SameSpan DEF Conversions
  <2> QED BY <1>1, <2>1, SameSpan DEF Unambiguous, OnceEach, WellConverted
<1>5. HoursTypeOK
  BY DEF HoursInv
<1>6. HoursTypeOK'
  <2>1. Overlap(Date, iv) \in Int
    BY <1>5, OverlapIsInt, <1>2
  <2>2. total' \in Int
    BY <1>2, <1>5, <2>1 DEF HoursTypeOK
  <2>3. counted' \subseteq Intervals(Date)'
    BY <1>1, <1>2, <1>3, <1>5, SameSpan DEF HoursTypeOK
  <2> QED BY <1>1, <1>3, <1>5, <2>2, <2>3, SameSpan DEF HoursTypeOK
<1>7. ASSUME Unambiguous PROVE total' = Cardinality(CountedTime')
  <2> DEFINE open == InstantOn(Date, iv[1])  close == InstantOn(Date, iv[2])
             during == Latest(open, from)..(Least(close, to) - 1)
  <2>1. Date \in FirstDate..Date /\ iv \in Intervals(Date) /\ Date \in Int
    BY <1>2, <1>5, Days
  <2>2. \A t \in Int : DateAt(t) = Date /\ Within(t, iv) <=> open <= t /\ t < close
    BY <1>5, <1>7, <2>1, Opening DEF Unambiguous
  <2>3. open \in Int /\ close \in Int /\ from \in Int /\ to \in Int /\ total \in Int
    <3>1. 0 \in Int
      OBVIOUS
    <3> QED BY <1>5, <1>7, <2>1, <3>1, Opening DEF Unambiguous, HoursTypeOK
  <2>4. during = {t \in from..(to - 1) : DateAt(t) = Date /\ Within(t, iv)}
    BY <2>2, <2>3 DEF Latest, Least
  <2>5. CountedTime' = CountedTime \cup during
    BY <1>1, <1>2, <1>3, <2>4, SameSpan DEF CountedTime
  <2>6. CountedTime \cap during = {}
    <3> SUFFICES ASSUME NEW t \in CountedTime, t \in during PROVE FALSE
      OBVIOUS
    <3>1. DateAt(t) = Date /\ Within(t, iv) /\ ~(DateAt(t) < Date) /\ t \in Int
      BY <2>1, <2>3, <2>4
    <3>2. PICK other \in counted : Within(t, other)
      BY <3>1 DEF CountedTime
    <3>3. other \in Intervals(Date) /\ other # iv
      BY <1>2, <1>5 DEF HoursTypeOK
    <3>4. ~RoundTheClock /\ iv \in Interval /\ other \in Interval
      BY <1>5, <2>1, <3>3, IntervalsOf
    <3>5. iv \in schedule[Weekday(Date)] /\ other \in schedule[Weekday(Date)]
          /\ Weekday(Date) \in DOMAIN schedule
      BY <1>5, <2>1, <3>3, <3>4, WeekdayOf
    <3>6. iv[2] <= other[1] \/ other[2] <= iv[1]
      BY <1>7, <3>3, <3>5 DEF Unambiguous, Disjoint
    <3>7. LocalTime(zone, t) % DayLength \in Int
      BY <1>5, <3>1, Days, OnDate DEF DateAt
    <3>8. /\ iv[1] \in Int /\ iv[2] \in Int /\ other[1] \in Int /\ other[2] \in Int
      BY <3>4, Ticks
    <3> QED BY <3>1, <3>2, <3>6, <3>7, <3>8 DEF Within
  <2>7. Cardinality(during) = Overlap(Date, iv)
    <3>1. Latest(open, from) \in Int /\ Least(close, to) \in Int
      BY <2>3 DEF Latest, Least
    <3>2. Cardinality(during) = IF Latest(open, from) > Least(close, to) - 1 THEN 0
                                ELSE Least(close, to) - 1 - Latest(open, from) + 1
      BY <3>1, FS_Interval
    <3>3. Overlap(Date, iv) = Latest(0, Least(close, to) - Latest(open, from))
      BY DEF Overlap
    <3> HIDE DEF during, open, close
    <3> DEFINE a == Latest(open, from)  b == Least(close, to)
    <3> HIDE DEF a, b
    <3>4. Latest(0, b - a) = IF a > b - 1 THEN 0 ELSE b - 1 - a + 1
      <4>1. a \in Int /\ b \in Int
        BY <3>1 DEF a, b
      <4> QED BY <4>1 DEF Latest
    <3> QED BY <3>2, <3>3, <3>4 DEF a, b
  <2>8. IsFiniteSet(CountedTime) /\ Cardinality(CountedTime) \in Nat
    BY <1>5, SpanFinite DEF CountedTime
  <2>9. IsFiniteSet(during) /\ Cardinality(during) \in Nat
    BY <1>5, <2>4, SpanFinite
  <2> HIDE DEF during
  <2>10. Cardinality(CountedTime \cup during)
             = Cardinality(CountedTime) + Cardinality(during) - Cardinality({})
    BY <2>6, <2>8, <2>9, FS_Union
  <2>11. total = Cardinality(CountedTime)
    BY <1>3, <1>7 DEF HoursInv
  <2> QED BY <1>2, <2>5, <2>7, <2>8, <2>9, <2>10, <2>11, FS_EmptySet
<1>8. ~done' /\ day' < MaxDays /\ InstantOn(Date, 0)' < to'
  BY <1>1, <1>3, SameSpan DEF InDay
<1> QED BY <1>1, <1>3, <1>4, <1>6, <1>7, <1>8 DEF HoursInv

\* A date whose intervals are all counted is done: its open instants are those
\* in its intervals.
LEMMA NextDayInv == HoursInv /\ NextDay => HoursInv'
<1> SUFFICES ASSUME HoursInv, NextDay PROVE HoursInv'
  OBVIOUS
<1>1. /\ zone' = zone /\ schedule' = schedule /\ from' = from /\ to' = to
      /\ day' = day + 1 /\ counted' = {} /\ done' = done /\ ~done /\ total' = total
      /\ InDay /\ counted = Intervals(Date)
  BY DEF NextDay, InDay, input, Walked
<1>2. HoursTypeOK
  BY DEF HoursInv
<1>3. day \in Nat /\ day < MaxDays /\ MaxDays \in Nat /\ FirstDate \in Int
  <2>1. day \in 0..MaxDays /\ day < MaxDays
    BY <1>1, <1>2 DEF HoursTypeOK, InDay
  <2> QED BY <1>2, <2>1, Days
<1>4. Date \in Int /\ Date' = Date + 1
  BY <1>1, <1>3, SameSpan DEF Date
<1>5. ~Early /\ ~Early'
  BY <1>1, <1>2, SameSpan DEF InDay, Early, Walked, HoursTypeOK
<1>6. HoursTypeOK'
  <2>1. day' \in 0..MaxDays
    BY <1>1, <1>3
  <2>2. counted' \subseteq Intervals(Date)'
    BY <1>1
  <2> QED BY <1>1, <1>2, <2>1, <2>2 DEF HoursTypeOK
<1>7. Unambiguous' => Unambiguous
  <2>1. FirstDate' = FirstDate /\ FirstDate..Date \subseteq FirstDate..(Date + 1)
    BY <1>1, <1>3, <1>4, SameSpan
  <2>2. Conversions \subseteq Conversions'
    BY <1>1, <1>4, <2>1, SameSpan DEF Conversions
  <2> QED BY <1>1, <2>2, SameSpan DEF Unambiguous, OnceEach, WellConverted
<1>8. CountedTime' = CountedTime
  <2>1. ASSUME NEW t \in from..(to - 1)
        PROVE  DateAt(t) < Date + 1 /\ IsWithinBusinessHours(t)
               <=> \/ DateAt(t) < Date /\ IsWithinBusinessHours(t)
                   \/ DateAt(t) = Date /\ \E iv \in counted : Within(t, iv)
    <3>1. t \in Int
      BY <1>2 DEF HoursTypeOK
    <3>2. DateAt(t) \in Int
      BY <1>2, <3>1, Days
    <3>3. ~RoundTheClock
      BY <1>5 DEF Early
    <3>4. IsWithinBusinessHours(t) <=> \E iv \in Intervals(DateAt(t)) : Within(t, iv)
      BY <1>2, <3>1, <3>3, OpenOnDate
    <3>5. DateAt(t) < Date + 1 <=> DateAt(t) < Date \/ DateAt(t) = Date
      BY <1>4, <3>2
    <3> QED BY <1>1, <3>4, <3>5
  <2> QED BY <1>1, <1>4, <2>1, SameSpan DEF CountedTime
<1>9. Unambiguous' => total' = Cardinality(CountedTime')
  BY <1>1, <1>5, <1>7, <1>8 DEF HoursInv
<1> QED BY <1>1, <1>5, <1>6, <1>9 DEF HoursInv

LEMMA HoursStep == HoursInv /\ [HoursNext]_hoursVars => HoursInv'
<1> SUFFICES ASSUME HoursInv, [HoursNext]_hoursVars PROVE HoursInv'
  OBVIOUS
<1>1. CASE ReturnEarly
  BY <1>1, ReturnEarlyInv
<1>2. CASE CountInterval
  BY <1>2, CountInv
<1>3. CASE NextDay
  BY <1>3, NextDayInv
<1>4. CASE Return
  BY <1>4, ReturnInv
<1>5. CASE UNCHANGED hoursVars
  <2>1. /\ zone' = zone /\ schedule' = schedule /\ from' = from /\ to' = to
        /\ day' = day /\ counted' = counted /\ done' = done /\ total' = total
    BY <1>5 DEF hoursVars
  <2>2. Date' = Date
    BY <2>1, SameSpan DEF Date
  <2>3. Conversions' = Conversions /\ CountedTime' = CountedTime
    BY <2>1, <2>2, SameSpan DEF Conversions, CountedTime
  <2>4. Unambiguous' = Unambiguous
    BY <2>1, <2>3, SameSpan DEF Unambiguous, OnceEach, WellConverted
  <2>5. HoursTypeOK' = HoursTypeOK
    BY <2>1, <2>2, SameSpan DEF HoursTypeOK
  <2> QED BY <2>1, <2>2, <2>3, <2>4, <2>5, SameSpan DEF HoursInv
<1> QED BY <1>1, <1>2, <1>3, <1>4, <1>5 DEF HoursNext

LEMMA HoursInvHolds == HoursSpec => []HoursInv
BY HoursStart, HoursStep, PTL DEF HoursSpec

LEMMA Agrees == HoursInv => AgreesWithClock
<1> SUFFICES ASSUME HoursInv, Unambiguous, counted = {}
             PROVE  total = Cardinality({t \in from..(Reached - 1) : IsWithinBusinessHours(t)})
  BY DEF AgreesWithClock, OpenTime, Unambiguous
<1> DEFINE Spent == {t \in from..(Reached - 1) : IsWithinBusinessHours(t)}
<1>1. HoursTypeOK
  BY DEF HoursInv
<1>2. /\ from \in Int /\ to \in Int /\ from <= to /\ InstantOn(Date, 0) \in Int
      /\ MaxDays \in Nat \ {0} /\ Date \in FirstDate..Date
  <2>1. InstantOn(Date, 0) \in Int
    BY <1>1, InstantIsInt, 0 \in Int
  <2> QED BY <1>1, <2>1, Days DEF HoursTypeOK
<1>3. \A t \in Int : t < InstantOn(Date, 0) <=> DateAt(t) < Date
  BY <1>1, <1>2, Midnight DEF Unambiguous
<1>4. CASE ~Early
  <2>1. \A t \in Int : t < Reached <=> t < to /\ DateAt(t) < Date
    <3>1. done /\ day < MaxDays => to <= InstantOn(Date, 0)
      BY <1>4 DEF HoursInv
    <3>2. CASE done /\ day < MaxDays
      <4>1. Reached = to /\ to <= InstantOn(Date, 0)
        BY <3>1, <3>2 DEF Reached
      <4> QED BY <4>1, <1>2, <1>3
    <3>3. CASE ~(done /\ day < MaxDays)
      <4>1. Reached = Least(to, InstantOn(Date, 0))
        BY <3>3 DEF Reached
      <4> QED BY <4>1, <1>2, <1>3 DEF Least
    <3> QED BY <3>2, <3>3
  <2>2. Reached \in Int
    BY <1>2 DEF Reached, Least
  <2>3. Spent = CountedTime
    BY <1>2, <2>1, <2>2 DEF CountedTime
  <2> QED BY <1>4, <2>3 DEF HoursInv
<1>5. CASE Early
  <2>1. day = 0 /\ total = IF done /\ RoundTheClock THEN to - from ELSE 0
    BY <1>5 DEF HoursInv
  <2>2. CASE ~done
    <3>1. Date = FirstDate /\ FirstDate \in Int /\ DateAt(from) = FirstDate
      BY <1>1, <2>1, Days DEF Date
    <3>2. InstantOn(Date, 0) <= from
      BY <1>2, <1>3, <3>1
    <3>3. Reached = Least(to, InstantOn(Date, 0))
      BY <2>2 DEF Reached
    <3>4. Reached - 1 < from /\ Reached \in Int
      BY <1>2, <3>2, <3>3 DEF Least
    <3>5. Spent = {}
      BY <1>2, <3>4
    <3>6. total = 0
      BY <2>1, <2>2
    <3> QED BY <3>5, <3>6, FS_EmptySet
  <2>3. CASE done
    <3>1. Reached = to
      BY <1>2, <2>1, <2>3 DEF Reached
    <3>2. CASE RoundTheClock
      <4>1. Spent = from..(to - 1)
        BY <3>1, <3>2 DEF IsWithinBusinessHours
      <4>2. Cardinality(from..(to - 1)) = to - from
        <5>1. to - 1 \in Int
          BY <1>2
        <5>2. Cardinality(from..(to - 1)) = IF from > to - 1 THEN 0 ELSE to - 1 - from + 1
          BY <1>2, <5>1, FS_Interval
        <5> QED BY <5>2, <1>2
      <4> QED BY <2>1, <2>3, <3>2, <4>1, <4>2
    <3>3. CASE ~RoundTheClock
      <4>1. total = 0 /\ (to <= from \/ NeverOpen)
        BY <1>5, <2>1, <3>3 DEF Early
      <4>2. ASSUME NeverOpen, NEW t \in from..(to - 1) PROVE ~IsWithinBusinessHours(t)
        <5>1. t \in Int
          BY <1>2
        <5>2. DateAt(t) \in Int
          BY <1>1, <5>1, Days
        <5>3. Intervals(DateAt(t)) = {}
          BY <1>1, <3>3, <4>2, <5>2, WeekdayOf DEF NeverOpen
        <5> QED BY <1>1, <3>3, <5>1, <5>3, OpenOnDate
      <4>3. to <= from => from..(to - 1) = {}
        BY <1>2
      <4>4. Spent = {}
        BY <3>1, <4>1, <4>2, <4>3
      <4> QED BY <4>1, <4>4, FS_EmptySet
    <3> QED BY <3>2, <3>3
  <2> QED BY <2>2, <2>3
<1> QED BY <1>4, <1>5

\* business-time.ts:25-80: the variables have their types.
THEOREM HoursTypes == HoursSpec => []HoursTypeOK
<1>1. HoursInv => HoursTypeOK
  BY DEF HoursInv
<1> QED BY <1>1, HoursInvHolds, PTL

\* business-time.ts:25-98: at every turn of the loop of businessSeconds, the time
\* counted is the number of instants of the days done at which
\* isWithinBusinessHours says that the company is open, for any zone, schedule
\* and span, as long as no time the loop has converted is skipped, repeated or
\* misread and no two intervals of a day overlap.
THEOREM BusinessTimeAgrees == HoursSpec => []AgreesWithClock
<1>1. HoursInv => AgreesWithClock
  BY Agrees
<1> QED BY <1>1, HoursInvHolds, PTL

\* The clock does not change near a time the loop converts, or never.
Settled ==
    \/ zone.before = zone.after
    \/ \A local \in Conversions :
           \/ \A offset \in {0, zone.before, zone.after} : local - offset < zone.at
           \/ \A offset \in {0, zone.before, zone.after} : local - offset >= zone.at

LEMMA SettledIsUnambiguous == HoursTypeOK /\ Settled => OnceEach /\ WellConverted
<1> SUFFICES ASSUME HoursTypeOK, Settled, NEW local \in Conversions
             PROVE  Cardinality(InstantsOf(zone, local)) = 1 /\ Converts(zone, local)
  BY DEF OnceEach, WellConverted
<1>1. zone \in Zone /\ zone.before \in Int /\ zone.after \in Int
  BY DEF HoursTypeOK, Zone
<1>2. local \in Int
  <2>1. PICK date \in FirstDate..Date :
            \E time \in TimesOf(date) : local = date * DayLength + time
    BY DEF Conversions, TimesOf
  <2>2. date \in Int
    BY Days
  <2>3. PICK time \in TimesOf(date) : local = date * DayLength + time
    BY <2>1
  <2>4. time \in Int
    BY <2>2, IntervalsOf, Ticks DEF TimesOf
  <2>5. date * DayLength \in Int
    BY <2>2, OnDate
  <2> QED BY <2>3, <2>4, <2>5
<1>3. InstantsOf(zone, local) = {ZonedTimeToUtc(zone, local)} /\ Converts(zone, local)
  <2>1. CASE zone.before = zone.after
    <3>1. \A t : OffsetAt(zone, t) = zone.before
      BY <2>1 DEF OffsetAt
    <3>2. ZonedTimeToUtc(zone, local) = local - zone.before
      BY <1>1, <1>2, <3>1 DEF ZonedTimeToUtc, Least
    <3>3. LocalTime(zone, local - zone.before) = local
      BY <1>1, <1>2, <3>1 DEF LocalTime
    <3> QED BY <2>1, <3>2, <3>3 DEF InstantsOf, Converts
  <2>2. CASE zone.before # zone.after
    BY <1>1, <1>2, <2>2, AwayFromTheChange DEF Settled
  <2> QED BY <2>1, <2>2
<1> QED BY <1>3, FS_Singleton

\* business-time.ts:19-24: where the clock does not change, or only far from the
\* midnights, openings and closings of the span, a measure that was not cut by
\* MAX_DAYS is the open time of the whole span.
THEOREM SettledClocksAreMeasured ==
    HoursSpec =>
        [](done /\ day < MaxDays /\ Settled /\ Disjoint =>
               total = Cardinality({t \in from..(to - 1) : IsWithinBusinessHours(t)}))
<1>1. ASSUME HoursInv, done, day < MaxDays, Settled, Disjoint
      PROVE  total = Cardinality({t \in from..(to - 1) : IsWithinBusinessHours(t)})
  <2>1. OnceEach /\ WellConverted
    BY <1>1, SettledIsUnambiguous DEF HoursInv
  <2>2. counted = {} /\ Reached = to
    BY <1>1 DEF HoursInv, Reached
  <2> QED BY <1>1, <2>1, <2>2, Agrees DEF AgreesWithClock, OpenTime
<1>2. HoursInv => (done /\ day < MaxDays /\ Settled /\ Disjoint =>
                       total = Cardinality({t \in from..(to - 1) : IsWithinBusinessHours(t)}))
  BY <1>1
<1> QED BY <1>2, HoursInvHolds, PTL
==============================================================================
