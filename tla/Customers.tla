----------------------------- MODULE Customers -----------------------------
(***************************************************************************)
(* The customers of a company (src/modules/customers/customers.service.ts) *)
(* and the identities the webhook resolves them by.  A phone number is     *)
(* unique in the company, soft-deleted rows included, and an identity is   *)
(* unique on its channel; nothing else is locked, and no handler runs in a *)
(* transaction: each of its statements is a step.                          *)
(*                                                                         *)
(* A sender is a WhatsApp id on a channel, so two senders may have one     *)
(* phone.  An inbound run resolves a sender; an agent's request creates or *)
(* edits a customer, deletes some, or imports a file.                      *)
(***************************************************************************)
EXTENDS Naturals, FiniteSets, Functions

CONSTANTS Senders,
          Phones,
          PhoneOf,       \* the phone of a sender, normalized
          NoPhone,       \* a row whose phone was taken
          Requests,      \* handlers that may be under way at a time
          MaxCustomers,  \* bound: rows
          MaxRequests    \* bound: handlers started

ASSUME CustomersAssumption ==
    /\ PhoneOf \in [Senders -> Phones]
    /\ NoPhone \notin Phones
    /\ MaxCustomers \in Nat \ {0} /\ MaxRequests \in Nat

VARIABLES
    phone, state,   \* customers: phone_number; absent, active or deleted
    identity,       \* customer_identities: the customer of a sender, or None
    req,            \* the handlers under way
    started,
    \* Observers: no guard reads them.
    resolved,       \* customers the inbound runs of a sender returned
    due,            \* customers with a change that was not announced yet
    lost,           \* those whose handler threw, or lost the race for an identity
    beside,         \* what happened to customers while a handler was under way
    failed          \* handlers that threw

rows == <<phone, state>>
notes == <<resolved, due, lost, beside, failed>>
vars == <<rows, identity, req, started, notes>>

Customer == 1..MaxCustomers
None == 0

\* What a handler knows: the step it stands at, the phone and the customer it
\* works on, whether it read it as deleted, whether it created or restored
\* something, whose message it resolves, and what is left of its list.
Idle == [at |-> "idle", op |-> "none", phone |-> NoPhone, id |-> None,
         deleted |-> FALSE, new |-> FALSE, from |-> {}, todo |-> {}]

Active == {c \in Customer : state[c] = "active"}
Absent == {c \in Customer : state[c] = "absent"}
Holders(p) == {c \in Customer \ Absent : phone[c] = p}
Holder(p) == IF Holders(p) = {} THEN None ELSE CHOOSE c \in Holders(p) : TRUE

Running == {r \in Requests : req[r].at # "idle"}
Sender(r) == CHOOSE s \in Senders : req[r].from = {s}
Mark(what) == beside' = [r \in Requests |-> IF r \in Running THEN beside[r] \cup {what} ELSE {}]

\* A database, empty or with one customer, whom the webhook may know or not.
Init ==
    /\ state \in [Customer -> {"absent", "active", "deleted"}]
    /\ phone \in [Customer -> Phones \cup {NoPhone}]
    /\ \A c \in Customer : state[c] = "absent" <=> phone[c] = NoPhone
    /\ \A c \in Customer \ {1} : state[c] = "absent"
    /\ identity \in [Senders -> {None, 1}]
    /\ \A s \in Senders : identity[s] = 1 => phone[1] = PhoneOf[s]
    /\ req = [r \in Requests |-> Idle]
    /\ started = 0
    /\ resolved = [s \in Senders |-> {identity[s]} \ {None}]
    /\ due = {} /\ lost = {} /\ failed = 0
    /\ beside = [r \in Requests |-> {}]

\* A handler goes on, ends or throws.
Goto(r, at) == req' = [req EXCEPT ![r].at = at]
Read(r, at, c) == req' = [req EXCEPT ![r].at = at, ![r].id = c,
                                     ![r].deleted = state[c] = "deleted"]
End(r) == req' = [req EXCEPT ![r] = Idle]
Throw(r) ==
    /\ End(r)
    /\ failed' = failed + 1
    /\ lost' = lost \cup CASE req[r].op = "import" -> due
                          [] req[r].op = "update" -> {}
                          [] OTHER                -> {req[r].id} \ {None}

\* Insert a customer, unless the phone is taken.
Inserted(c, p) ==
    /\ phone' = [phone EXCEPT ![c] = p]
    /\ state' = [state EXCEPT ![c] = "active"]
    /\ due' = due \cup {c}

Restored(c) ==
    /\ state' = [state EXCEPT ![c] = "active"]
    /\ due' = due \cup {c}

Start(r, op, fields) ==
    /\ req[r].at = "idle"
    /\ started < MaxRequests
    /\ started' = started + 1
    /\ req' = [req EXCEPT ![r] = [fields EXCEPT !.op = op]]
    /\ UNCHANGED identity
-----------------------------------------------------------------------------
(* The webhook: findOrCreateIncoming and touch *)

StartInbound(r, s) ==
    /\ Start(r, "inbound", [Idle EXCEPT !.at = "identity", !.phone = PhoneOf[s], !.from = {s}])
    /\ beside' = [beside EXCEPT ![r] = {}]
    /\ UNCHANGED <<rows, resolved, due, lost, failed>>

FindIdentity(r) ==
    /\ req[r].at = "identity"
    /\ IF identity[Sender(r)] = None THEN Goto(r, "find") ELSE Read(r, "touch", identity[Sender(r)])
    /\ UNCHANGED <<rows, identity, started, notes>>

FindCustomer(r) ==
    /\ req[r].at = "find"
    /\ IF Holders(req[r].phone) = {} THEN Goto(r, "create") ELSE Read(r, "link", Holder(req[r].phone))
    /\ UNCHANGED <<rows, identity, started, notes>>

\* Another run, or an agent, may have created the customer in between.
CreateIncoming(r, c) ==
    /\ req[r].at = "create"
    /\ IF Holders(req[r].phone) = {}
       THEN /\ Inserted(c, req[r].phone)
            /\ req' = [req EXCEPT ![r].at = "link", ![r].id = c, ![r].new = TRUE]
       ELSE Goto(r, "refind") /\ UNCHANGED <<rows, due>>
    /\ UNCHANGED <<identity, started, resolved, lost, beside, failed>>

RefindCustomer(r) ==
    /\ req[r].at = "refind"
    /\ IF Holders(req[r].phone) = {}
       THEN Throw(r)
       ELSE Read(r, "link", Holder(req[r].phone)) /\ UNCHANGED <<failed, lost>>
    /\ UNCHANGED <<rows, identity, started, resolved, due, beside>>

LinkIdentity(r) ==
    LET s == Sender(r) IN
    /\ req[r].at = "link"
    /\ IF identity[s] = None
       THEN identity' = [identity EXCEPT ![s] = req[r].id] /\ Goto(r, "touch")
       ELSE UNCHANGED identity /\ Goto(r, "reread")
    /\ UNCHANGED <<rows, started, notes>>

\* Mutated form, for the mutation runs: the run keeps its own customer.
RereadNothing(r) ==
    /\ req[r].at = "reread"
    /\ Goto(r, "touch")
    /\ UNCHANGED <<rows, identity, started, notes>>

\* The winner's customer; one the run has created is not announced any more.
RereadIdentity(r) ==
    LET c == identity[Sender(r)] IN
    /\ req[r].at = "reread"
    /\ lost' = IF req[r].new THEN lost \cup {req[r].id} ELSE lost
    /\ req' = [req EXCEPT ![r].at = "touch", ![r].id = c, ![r].new = FALSE,
                          ![r].deleted = state[c] = "deleted"]
    /\ UNCHANGED <<rows, identity, started, resolved, due, beside, failed>>

\* Mutated form, for the mutation runs: a deleted customer stays deleted.
TouchOnly(r) ==
    /\ req[r].at = "touch"
    /\ req' = [req EXCEPT ![r].at = IF req[r].new THEN "announce" ELSE "return", ![r].deleted = FALSE]
    /\ UNCHANGED <<rows, identity, started, notes>>

\* One that was read as deleted is restored; the interaction is marked.
Touch(r) ==
    /\ req[r].at = "touch"
    /\ Goto(r, IF req[r].new \/ req[r].deleted THEN "announce" ELSE "return")
    /\ IF req[r].deleted THEN Restored(req[r].id) ELSE UNCHANGED <<state, due>>
    /\ UNCHANGED <<phone, identity, started, resolved, lost, beside, failed>>

\* A restored customer is read back, and one that is gone again is an error.
ReturnCustomer(r) ==
    LET c == req[r].id IN
    /\ req[r].at = "return"
    /\ IF req[r].deleted /\ c \notin Active
       THEN Throw(r) /\ UNCHANGED resolved
       ELSE /\ End(r)
            /\ resolved' = [resolved EXCEPT ![Sender(r)] = @ \cup {c}]
            /\ UNCHANGED <<failed, lost>>
    /\ UNCHANGED <<rows, identity, started, due, beside>>
-----------------------------------------------------------------------------
(* An agent creates a customer, or brings a deleted one back: create,
   restoreWith *)

StartCreate(r, p) ==
    /\ Start(r, "create", [Idle EXCEPT !.at = "lookup", !.phone = p])
    /\ UNCHANGED <<rows, notes>>

\* An active holder is a conflict; a deleted one is restored.
FindHolder(r) ==
    LET c == Holder(req[r].phone) IN
    /\ req[r].at = "lookup"
    /\ CASE c = None      -> Goto(r, "insert")
         [] c \in Active  -> End(r)
         [] OTHER         -> Read(r, "restore", c)
    /\ UNCHANGED <<rows, identity, started, notes>>

\* A duplicate is a conflict too.
Insert(r, c) ==
    /\ req[r].at = "insert"
    /\ IF Holders(req[r].phone) = {}
       THEN Inserted(c, req[r].phone) /\ req' = [req EXCEPT ![r].at = "announce", ![r].id = c]
       ELSE End(r) /\ UNCHANGED <<rows, due>>
    /\ UNCHANGED <<identity, started, resolved, lost, beside, failed>>

\* By its id alone, whatever has become of the row.
Restore(r) ==
    /\ req[r].at = "restore"
    /\ Restored(req[r].id)
    /\ Goto(r, "apply")
    /\ UNCHANGED <<phone, identity, started, resolved, lost, beside, failed>>

\* Then the fields: the phone may have another holder by now.
Apply(r) ==
    LET c == req[r].id IN
    /\ req[r].at = "apply"
    /\ IF Holders(req[r].phone) \subseteq {c}
       THEN /\ phone' = [phone EXCEPT ![c] = req[r].phone]
            /\ Goto(r, "readback")
            /\ IF phone[c] = req[r].phone THEN UNCHANGED beside ELSE Mark("renumbered")
            /\ UNCHANGED <<failed, lost>>
       ELSE Throw(r) /\ UNCHANGED <<phone, beside>>
    /\ UNCHANGED <<state, identity, started, resolved, due>>

ReadBack(r) ==
    /\ req[r].at = "readback"
    /\ IF req[r].id \in Active
       THEN /\ Goto(r, IF req[r].op = "import" THEN "import" ELSE "announce")
            /\ UNCHANGED <<failed, lost>>
       ELSE Throw(r)
    /\ UNCHANGED <<rows, identity, started, resolved, due, beside>>
-----------------------------------------------------------------------------
(* An agent edits the phone of a customer: update, claimPhone *)

StartUpdate(r, c, p) ==
    /\ c \in Active
    /\ Start(r, "update", [Idle EXCEPT !.at = IF phone[c] = p THEN "write" ELSE "claim",
                                       !.phone = p, !.id = c])
    /\ UNCHANGED <<rows, notes>>

\* An active holder is a conflict; a deleted one gives the phone up.
Claim(r) ==
    LET h == Holder(req[r].phone) IN
    /\ req[r].at = "claim"
    /\ CASE h \in {None, req[r].id} -> Goto(r, "write")
         [] h \in Active \ {req[r].id} -> End(r)
         [] OTHER -> req' = [req EXCEPT ![r].at = "release", ![r].todo = {h}]
    /\ UNCHANGED <<rows, identity, started, notes>>

\* By its id alone.
Release(r) ==
    /\ req[r].at = "release"
    /\ phone' = [c \in Customer |-> IF c \in req[r].todo THEN NoPhone ELSE phone[c]]
    /\ Goto(r, "write")
    /\ Mark("renumbered")
    /\ UNCHANGED <<state, identity, started, resolved, due, lost, failed>>

\* A duplicate is an error here.
Write(r) ==
    LET c == req[r].id IN
    /\ req[r].at = "write"
    /\ IF Holders(req[r].phone) \subseteq {c}
       THEN /\ phone' = [phone EXCEPT ![c] = req[r].phone]
            /\ due' = due \cup {c}
            /\ Goto(r, "announce")
            /\ Mark("renumbered")
            /\ UNCHANGED <<failed, lost>>
       ELSE Throw(r) /\ UNCHANGED <<phone, due, beside>>
    /\ UNCHANGED <<state, identity, started, resolved>>
-----------------------------------------------------------------------------
(* Deletions, imports and announcements *)

\* remove and bulkDelete: one statement over those of the list that are active.
Remove(r, C) ==
    /\ C \cap Active # {}
    /\ Start(r, "remove", [Idle EXCEPT !.at = "announce", !.todo = C \cap Active])
    /\ state' = [c \in Customer |-> IF c \in C \cap Active THEN "deleted" ELSE state[c]]
    /\ due' = due \cup (C \cap Active)
    /\ Mark("removed")
    /\ UNCHANGED <<phone, resolved, lost, failed>>

\* importCsv reads once what is known of the phones of the file.
StartImport(r, file) ==
    /\ Start(r, "import", [Idle EXCEPT
            !.at = "import",
            !.todo = {<<Holder(p), p>> : p \in {q \in file : Holders(q) \cap Active = {}}}])
    /\ UNCHANGED <<rows, notes>>

\* One of those that were deleted then.
RestoreKnown(r, known) ==
    /\ req[r].at = "import"
    /\ known \in req[r].todo /\ known[1] # None
    /\ req' = [req EXCEPT ![r].at = "restore", ![r].todo = @ \ {known}, ![r].new = TRUE,
                          ![r].id = known[1], ![r].phone = known[2]]
    /\ UNCHANGED <<rows, identity, started, notes>>

Unknown(r) == {known[2] : known \in req[r].todo}

\* The rest in one statement, or row by row if one of its phones is taken by now.
InsertChunk(r) ==
    LET new == Unknown(r) IN
    /\ req[r].at = "import"
    /\ \A known \in req[r].todo : known[1] = None
    /\ IF \A p \in new : Holders(p) = {}
       THEN \E row \in Injection(new, Absent) :
              /\ phone' = [c \in Customer |-> IF c \in Range(row) THEN Inverse(row, new, Absent)[c]
                                              ELSE phone[c]]
              /\ state' = [c \in Customer |-> IF c \in Range(row) THEN "active" ELSE state[c]]
              /\ due' = due \cup Range(row)
              /\ req' = [req EXCEPT ![r].at = "announce", ![r].new = @ \/ new # {}]
       ELSE Goto(r, "rows") /\ UNCHANGED <<rows, due>>
    /\ UNCHANGED <<identity, started, resolved, lost, beside, failed>>

InsertRow(r, p, c) ==
    /\ req[r].at = "rows" /\ p \in Unknown(r)
    /\ IF Holders(p) = {} THEN Inserted(c, p) ELSE UNCHANGED <<rows, due>>
    /\ req' = [req EXCEPT ![r].todo = @ \ {<<None, p>>}, ![r].new = @ \/ Holders(p) = {},
                          ![r].at = IF Unknown(r) = {p} THEN "announce" ELSE "rows"]
    /\ UNCHANGED <<identity, started, resolved, lost, beside, failed>>

\* Mutated form, for the mutation runs: the company is told of new ones only.
AnnounceNew(r) ==
    /\ req[r].at = "announce"
    /\ due' = IF req[r].op \in {"inbound", "import"} /\ ~req[r].new THEN due ELSE {}
    /\ IF req[r].op = "inbound" THEN Goto(r, "return") ELSE End(r)
    /\ UNCHANGED <<rows, identity, started, resolved, lost, beside, failed>>

\* changed: all the pages of the table are stale, and the company is told to
\* fetch it again.  An import that changed nothing tells nothing.
Announce(r) ==
    /\ req[r].at = "announce"
    /\ due' = IF req[r].op = "import" /\ ~req[r].new THEN due ELSE {}
    /\ IF req[r].op = "inbound" THEN Goto(r, "return") ELSE End(r)
    /\ UNCHANGED <<rows, identity, started, resolved, lost, beside, failed>>

Inbound(r) ==
    \/ \E s \in Senders : StartInbound(r, s)
    \/ FindIdentity(r) \/ FindCustomer(r) \/ RefindCustomer(r)
    \/ LinkIdentity(r) \/ RereadIdentity(r) \/ Touch(r) \/ ReturnCustomer(r)

Edit(r) ==
    \/ \E p \in Phones : StartCreate(r, p) \/ \E c \in Customer : StartUpdate(r, c, p)
    \/ FindHolder(r) \/ Restore(r) \/ Apply(r) \/ ReadBack(r)
    \/ Claim(r) \/ Release(r) \/ Write(r)

Batch(r) ==
    \/ \E C \in SUBSET Customer : Remove(r, C)
    \/ \E file \in SUBSET Phones \ {{}} : StartImport(r, file)
    \/ \E known \in req[r].todo : RestoreKnown(r, known)
    \/ InsertChunk(r)

\* Rows are numbered as they come.
Next == \E r \in Requests :
    \/ Inbound(r) \/ Edit(r) \/ Batch(r) \/ Announce(r)
    \/ \E c \in Absent :
          /\ \A d \in Absent : c <= d
          /\ CreateIncoming(r, c) \/ Insert(r, c) \/ \E p \in Phones : InsertRow(r, p, c)

Spec == Init /\ [][Next]_vars
-----------------------------------------------------------------------------
(* Properties. *)

\* docs/database: customer_identities "resolves incoming customers": all the
\* messages of a sender are given to one customer, whatever runs beside them.
OneCustomerPerSender == \A s \in Senders : resolved[s] \subseteq {identity[s]}

\* "A soft-deleted customer that writes again is restored": an inbound run
\* returns an active customer, and does not throw, whoever else creates, restores
\* or looks for the customer, unless one was deleted, or a phone changed, while
\* it ran.
WritersAreActive ==
    [][\A r \in Requests :
          req[r].op = "inbound" /\ req'[r].at = "idle"
          => \/ req[r].id \in Active' /\ failed' = failed
             \/ beside[r] # {}]_vars

\* changed: a customer that was created, restored, edited or deleted is told to
\* the company by the handler that did it, unless that handler threw (an import
\* leaves all that it did until then) or lost the race for the identity.
ChangesAreAnnounced ==
    \A c \in due \ lost :
        \E r \in Running : \/ req[r].id = c
                           \/ req[r].op = "remove" /\ c \in req[r].todo
                           \/ req[r].op = "import" /\ req[r].new

\* claimPhone: "A phone held by a soft-deleted customer is released to the one
\* being edited (the unique index would block it); an active holder is a 409".
ActiveHoldersKeepThePhone == \A c \in Active : phone[c] # NoPhone

\* findOrCreateIncoming "creates the customer and its identity, announcing the
\* change" (customers.service.int.spec.ts).
NewCustomersAreAnnounced == Running = {} /\ failed = 0 => due = {}
=============================================================================
