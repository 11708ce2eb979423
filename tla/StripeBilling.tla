---------------------------- MODULE StripeBilling ----------------------------
(***************************************************************************)
(* One Stripe checkout session in BillingHandler (handlers/billing.go):    *)
(* CreateCheckout opens it, the pricing page polls GetStatus, and Stripe   *)
(* delivers webhooks, at least once and in any order.  All three end in    *)
(* upsertTransaction, which reads the payment_transactions row and saves   *)
(* it whole, with no transaction around the two statements.                *)
(*                                                                         *)
(* Every statement of a request is an action, so requests interleave.      *)
(* Sessions do not disturb each other: each has its own row and events.    *)
(***************************************************************************)
EXTENDS Naturals, FiniteSets

CONSTANTS
  Requests,      \* requests the server handles at the same time
  MaxPolls,      \* bound on the calls of GetStatus
  MaxDuplicates, \* bound on deliveries Stripe need not have made
  MaxTrouble     \* bound on crashes and on requests cut short by an error

ASSUME BillingAssumption == {MaxPolls, MaxDuplicates, MaxTrouble} \subseteq Nat

VARIABLES
  \* Stripe
  gateway, \* the session there: its status and payment status
  sent,    \* webhook events it has emitted, each named by its snapshot
  acked,   \* events it got a 200 for
  \* the database
  row,     \* the payment_transactions row of the session
  events,  \* event_ids in billing_events
  \* the server
  req,     \* req[p]: the request that slot p handles
  \* the client and the history
  given,   \* the user has the URL of the session, which also names it
  told,    \* the pricing page was told that the session is paid
  applied, \* applied[e]: how often event e was written to the row
  stale,   \* a Save has overwritten a row that was not the one it had read
  cut,     \* events whose request ended between their record and their Save
  polls, duplicates, trouble \* counters of the bounds

vars == <<gateway, sent, acked, row, events, req, given, told, applied, stale,
          cut, polls, duplicates, trouble>>

stripe  == <<gateway, sent, acked>>
history == <<given, told, applied, stale, cut>>
bounds  == <<polls, duplicates, trouble>>

\* status and payment_status of a session, which Stripe reports together:
\* open/unpaid, expired/unpaid, complete/unpaid and complete/paid
Snapshots == {"open", "expired", "awaiting", "paid"}
Events    == Snapshots \ {"open"}
NoEvent   == "no event"

NoRow == [state |-> "none", processed |-> FALSE]
Rows  == [state : Snapshots, processed : BOOLEAN]

\* Faulty variant: a completed session counts as paid
ApplyComplete(t, snapshot) ==
  [state |-> snapshot, processed |-> t.processed \/ snapshot \in {"awaiting", "paid"}]

\* applyGatewayState: a paid session stamps processed_at, nothing clears it
Apply(t, snapshot) ==
  [state |-> snapshot, processed |-> t.processed \/ snapshot = "paid"]

\* Faulty variant: processed_at is copied like the other columns
MergeAll(existing, next) == next

\* What upsertTransaction stores, given the row it has read
Merge(existing, next) ==
  [state |-> next.state,
   processed |-> existing.processed \/ next.processed \/ next.state = "paid"]

Idle == [pc |-> "idle", kind |-> "none", event |-> NoEvent,
         next |-> NoRow, existing |-> NoRow]

At(p, pc) == req[p].pc = pc

\* The request goes on, or ends
Go(p, pc)         == req' = [req EXCEPT ![p].pc = pc]
GoWith(p, pc, t)  == req' = [req EXCEPT ![p].pc = pc, ![p].next = t]
Finish(p)         == req' = [req EXCEPT ![p] = Idle]

Init ==
  /\ gateway \in {"none", "open"} \* "open": a session this database has no row of
  /\ given = (gateway = "open")
  /\ sent = {} /\ acked = {} /\ events = {} /\ cut = {}
  /\ row = NoRow
  /\ req = [p \in Requests |-> Idle]
  /\ told = FALSE /\ stale = FALSE
  /\ applied = [e \in Events |-> 0]
  /\ polls = 0 /\ duplicates = 0 /\ trouble = 0

-----------------------------------------------------------------------------
(* Stripe *)

Reach(snapshot) ==
  /\ gateway' = snapshot
  /\ sent' = sent \cup {snapshot}
  /\ UNCHANGED <<acked, row, events, req, history, bounds>>

\* A card pays at once; other methods complete the session and pay later
Pay      == given /\ gateway \in {"open", "awaiting"} /\ Reach("paid")
Complete == given /\ gateway = "open" /\ Reach("awaiting")

\* A session expires hours after CreateCheckout has ended
Expire ==
  /\ gateway = "open"
  /\ \A p \in Requests : req[p].kind # "checkout"
  /\ Reach("expired")

-----------------------------------------------------------------------------
(* Requests arrive *)

\* CreateCheckout, up to the answer of gateway.CreateCheckoutSession
CreateCheckout(p) ==
  /\ At(p, "idle") /\ gateway = "none"
  /\ gateway' = "open"
  /\ req' = [req EXCEPT ![p] = [Idle EXCEPT !.pc = "find", !.kind = "checkout",
                                            !.next = Apply(NoRow, "open")]]
  /\ UNCHANGED <<sent, acked, row, events, history, bounds>>

GetStatus(p) ==
  /\ At(p, "idle") /\ given /\ polls < MaxPolls
  /\ polls' = polls + 1
  /\ req' = [req EXCEPT ![p] = [Idle EXCEPT !.pc = "load", !.kind = "poll"]]
  /\ UNCHANGED <<stripe, row, events, history, duplicates, trouble>>

Arrive(p, e) ==
  req' = [req EXCEPT ![p] = [Idle EXCEPT !.pc = "check", !.kind = "webhook", !.event = e]]

\* Stripe delivers an event until it gets a 200 for it ...
Due(e) == e \in sent \ acked /\ \A p \in Requests : req[p].event # e

Deliver(p, e) ==
  /\ At(p, "idle") /\ Due(e)
  /\ Arrive(p, e)
  /\ UNCHANGED <<stripe, row, events, history, bounds>>

\* ... and may deliver it once more, at any time
Duplicate(p, e) ==
  /\ At(p, "idle") /\ e \in sent /\ ~Due(e) /\ duplicates < MaxDuplicates
  /\ duplicates' = duplicates + 1
  /\ Arrive(p, e)
  /\ UNCHANGED <<stripe, row, events, history, polls, trouble>>

-----------------------------------------------------------------------------
(* Requests are handled *)

\* Faulty variant: a session without a row is answered with 404
CheckKnown(p) ==
  /\ At(p, "check")
  /\ IF row = NoRow
     THEN Finish(p)
     ELSE Go(p, IF req[p].event \in events THEN "reply" ELSE "record")
  /\ UNCHANGED <<stripe, row, events, history, bounds>>

\* HandleStripeWebhook: is the event in billing_events?
Check(p) ==
  /\ At(p, "check")
  /\ Go(p, IF req[p].event \in events THEN "reply" ELSE "record")
  /\ UNCHANGED <<stripe, row, events, history, bounds>>

\* Faulty variant: event_id is not unique
RecordAgain(p) ==
  /\ At(p, "record")
  /\ Go(p, "load")
  /\ events' = events \cup {req[p].event}
  /\ UNCHANGED <<stripe, row, history, bounds>>

\* Create of the event; event_id is unique, so a second one gets a 500
Record(p) ==
  /\ At(p, "record")
  /\ IF req[p].event \in events
     THEN Finish(p) /\ UNCHANGED events
     ELSE Go(p, "load") /\ events' = events \cup {req[p].event}
  /\ UNCHANGED <<stripe, row, history, bounds>>

\* findTransaction; the webhook applies its snapshot to what is found
Load(p) ==
  /\ At(p, "load")
  /\ \/ req[p].kind = "webhook" /\ GoWith(p, "find", Apply(row, req[p].event))
     \/ req[p].kind = "poll" /\ GoWith(p, "gateway", row)
  /\ UNCHANGED <<stripe, row, events, history, bounds>>

\* Faulty variant: without an answer, what was found is stored all the same
AskOrStore(p) ==
  /\ At(p, "gateway")
  /\ \/ GoWith(p, "find", Apply(req[p].next, gateway))
     \/ Go(p, "find")
  /\ UNCHANGED <<stripe, row, events, history, bounds>>

\* gateway.GetCheckoutStatus, whose answer goes into the row read before it;
\* without an answer the page is shown the stored state, or an error
AskGateway(p) ==
  /\ At(p, "gateway")
  /\ \/ GoWith(p, "find", Apply(req[p].next, gateway)) /\ UNCHANGED told
     \/ Finish(p) /\ told' = (told \/ req[p].next.state = "paid")
  /\ UNCHANGED <<stripe, row, events, given, applied, stale, cut, bounds>>

\* upsertTransaction reads the row ...
Find(p) ==
  /\ At(p, "find")
  /\ req' = [req EXCEPT ![p].pc = "save", ![p].existing = row]
  /\ UNCHANGED <<stripe, row, events, history, bounds>>

Lose(p) == cut' = cut \cup ({req[p].event} \ {NoEvent})

\* ... and saves it whole, or creates it: session_id is unique
Save(p) ==
  /\ At(p, "save")
  /\ IF req[p].existing = NoRow /\ row # NoRow
     THEN Finish(p) /\ Lose(p) /\ UNCHANGED <<row, applied, stale>>
     ELSE /\ Go(p, "reply")
          /\ row' = Merge(req[p].existing, req[p].next)
          /\ applied' = [e \in Events |-> applied[e] + IF e = req[p].event THEN 1 ELSE 0]
          /\ stale' = (stale \/ req[p].existing # row)
          /\ UNCHANGED cut
  /\ UNCHANGED <<stripe, events, given, told, bounds>>

\* The answer: the URL, Stripe's own view of the session, or a 200
Reply(p) ==
  /\ At(p, "reply")
  /\ given' = (given \/ req[p].kind = "checkout")
  /\ told' = (told \/ (req[p].kind = "poll" /\ req[p].next.state = "paid"))
  /\ acked' = acked \cup ({req[p].event} \ {NoEvent})
  /\ Finish(p)
  /\ UNCHANGED <<gateway, sent, row, events, applied, stale, cut, bounds>>

-----------------------------------------------------------------------------
(* Requests go wrong *)

\* The events of these requests are recorded but not yet in the row
Unsaved(ps) ==
  {req[p].event : p \in {q \in ps : req[q].pc \in {"load", "find", "save"}}} \ {NoEvent}

\* A statement fails, or the answer is lost: the client sees an error
Fail(p) ==
  /\ ~At(p, "idle") /\ trouble < MaxTrouble
  /\ trouble' = trouble + 1
  /\ Finish(p)
  /\ cut' = cut \cup Unsaved({p})
  /\ UNCHANGED <<stripe, row, events, given, told, applied, stale, polls, duplicates>>

Crash ==
  /\ trouble < MaxTrouble
  /\ trouble' = trouble + 1
  /\ req' = [p \in Requests |-> Idle]
  /\ cut' = cut \cup Unsaved(Requests)
  /\ UNCHANGED <<stripe, row, events, given, told, applied, stale, polls, duplicates>>

-----------------------------------------------------------------------------
Handle(p) ==
  Check(p) \/ Record(p) \/ Load(p) \/ AskGateway(p) \/ Find(p) \/ Save(p) \/ Reply(p)

Next ==
  \/ Pay \/ Complete \/ Expire \/ Crash
  \/ \E p \in Requests :
       \/ CreateCheckout(p) \/ GetStatus(p) \/ Handle(p) \/ Fail(p)
       \/ \E e \in Events : Deliver(p, e) \/ Duplicate(p, e)

Spec == Init /\ [][Next]_vars

\* The server goes on with every request, and Stripe with unanswered events
Fairness ==
  /\ \A p \in Requests : WF_vars(Handle(p))
  /\ \A e \in Events : WF_vars(\E p \in Requests : Deliver(p, e))

FairSpec == Spec /\ Fairness

-----------------------------------------------------------------------------
(* Properties *)

RequestRecord ==
  [pc : {"idle", "check", "record", "load", "gateway", "find", "save", "reply"},
   kind : {"none", "checkout", "poll", "webhook"}, event : Events \cup {NoEvent},
   next : Rows \cup {NoRow}, existing : Rows \cup {NoRow}]

\* Type invariant; whatever is about to be written to the row (upsertTransaction)
\* comes from a snapshot of the session.
TypeOK ==
  /\ gateway \in Snapshots \cup {"none"}
  /\ acked \subseteq sent /\ sent \subseteq Events
  /\ cut \subseteq events /\ events \subseteq sent
  /\ row \in Rows \cup {NoRow}
  /\ {given, told, stale} \subseteq BOOLEAN
  /\ applied \in [Events -> Nat]
  /\ polls \in 0..MaxPolls /\ duplicates \in 0..MaxDuplicates /\ trouble \in 0..MaxTrouble
  /\ req \in [Requests -> RequestRecord]
  /\ \A p \in Requests : req[p].pc \in {"find", "save"} => req[p].next \in Rows

\* billing_events makes HandleStripeWebhook apply an event to the row once,
\* even when two deliveries pass the look-up side by side.
AppliedOnce == \A e \in Events : applied[e] <= 1

\* processed_at and a paid row are never ahead of Stripe: whatever the order
\* of polls, webhooks and their retries, the money has been paid.
PaidAtStripe == row.processed \/ row.state = "paid" => gateway = "paid"

\* Once the pricing page has been told of the payment, or Stripe told that we
\* know of it, processed_at is set, or a request is still at work on the event.
\* What can lose it is a Save of a stale copy, or a request that ended after
\* the event was recorded: its retry is acknowledged as a duplicate.
PaidIsRecorded ==
  told \/ "paid" \in acked =>
    \/ row.processed
    \/ stale \/ "paid" \in cut
    \/ \E p \in Requests :
         req[p].event = "paid" /\ req[p].pc \in {"load", "find", "save"}

\* With Stripe's retries alone, no page polling, a payment gets processed_at,
\* but for the same two losses (HandleStripeWebhook).
PaymentRecorded ==
  (gateway = "paid") ~> (row.processed \/ stale \/ "paid" \in cut)
=============================================================================
