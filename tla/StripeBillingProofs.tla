------------------------- MODULE StripeBillingProofs -------------------------
(***************************************************************************)
(* Theorems about StripeBilling for any number of requests and every       *)
(* bound.  The properties speak of the row; what makes them inductive is   *)
(* what the requests carry on their way to it.                             *)
(***************************************************************************)
EXTENDS StripeBilling, TLAPS

\* A webhook between the record of its event and its Save
Applying(p) == req[p].event # NoEvent /\ req[p].pc \in {"load", "find", "save"}

\* A request carries an event iff it is a webhook; from Load on the event is
\* recorded, and from then to Save it is what next was made of
WebhookInv ==
  \A p \in Requests :
    /\ req[p].kind = "webhook" <=> req[p].event # NoEvent
    /\ req[p].pc \in {"check", "record"} => req[p].kind = "webhook"
    /\ req[p].pc = "gateway" => req[p].kind = "poll"
    /\ req[p].pc = "idle" => req[p] = Idle
    /\ req[p].pc \in {"check", "record", "load"} => req[p].next = NoRow
    /\ req[p].event # NoEvent => req[p].event \in sent
    /\ Applying(p) \/ (req[p].event # NoEvent /\ req[p].pc = "reply") => req[p].event \in events
    /\ Applying(p) /\ req[p].pc # "load" => req[p].next.state = req[p].event

\* An event on its way to the row is there once, and has not been there before
OnceInv ==
  \A e \in Events :
    /\ applied[e] \in {0, 1}
    /\ applied[e] = 1 => e \in events
    /\ \A p \in Requests : Applying(p) /\ req[p].event = e => applied[e] = 0
    /\ \A p, q \in Requests :
         Applying(p) /\ Applying(q) /\ req[p].event = e /\ req[q].event = e => p = q

\* The session exists for whoever asks for it, and what was taken from Stripe,
\* at whatever time, is not ahead of it
Ahead(t) == t.processed \/ t.state = "paid"

SnapshotInv ==
  /\ Ahead(row) => gateway = "paid"
  /\ "paid" \in sent => gateway = "paid"
  /\ given => gateway # "none"
  /\ \A p \in Requests :
       /\ req[p].kind \in {"checkout", "poll"} => gateway # "none"
       /\ Ahead(req[p].next) \/ Ahead(req[p].existing) => gateway = "paid"

\* processed_at is set, or was lost to a stale copy
Stamped == row.processed \/ stale

\* Paid and processed go together; whoever read or wrote processed_at, or is
\* about to tell the page of it, leaves it set
StampInv ==
  /\ row.state = "paid" => row.processed
  /\ told => Stamped
  /\ \A p \in Requests :
       /\ req[p].next.state = "paid" => req[p].next.processed
       /\ req[p].existing.processed => Stamped
       /\ req[p].pc \in {"gateway", "reply"} /\ req[p].next.processed => Stamped

\* The payment's event, once recorded, is stamped, lost or on its way
EventInv ==
  /\ "paid" \in events => \/ Stamped
                          \/ "paid" \in cut
                          \/ \E p \in Requests : Applying(p) /\ req[p].event = "paid"
  /\ acked \subseteq events

IInv == TypeOK /\ WebhookInv /\ OnceInv /\ SnapshotInv /\ StampInv /\ EventInv




-----------------------------------------------------------------------------
(* Steps *)

LEMMA UnsavedRecorded ==
  ASSUME IInv, NEW ps \in SUBSET Requests
  PROVE  Unsaved(ps) \subseteq events
BY DEF IInv, WebhookInv, Applying, Unsaved

LEMMA NoEventIsNew == NoEvent \notin Events
BY DEF NoEvent, Events, Snapshots

\* What is about to be written always comes from a snapshot
LEMMA ApplyType ==
  ASSUME NEW t, NEW snapshot \in Snapshots
  PROVE  Apply(t, snapshot) \in Rows
BY DEF Apply, Rows

LEMMA ReachStep ==
  ASSUME IInv, NEW snapshot \in Events, gateway \in {"open", "awaiting"}, Reach(snapshot)
  PROVE  IInv'
<1>1. TypeOK'
  <2>1. req' \in [Requests -> RequestRecord]
    BY DEF IInv, TypeOK, RequestRecord, Reach
  <2>2. \A q \in Requests : req'[q].pc \in {"find", "save"} => req'[q].next \in Rows
    BY DEF IInv, TypeOK, RequestRecord, Reach
  <2>3. QED
    BY <2>1, <2>2, BillingAssumption DEF IInv, TypeOK, Reach, history, bounds,
       Events, Snapshots, stripe
<1>2. WebhookInv'
  BY DEF IInv, TypeOK, RequestRecord, WebhookInv, Applying, Reach
<1>3. OnceInv'
  BY DEF IInv, TypeOK, RequestRecord, OnceInv, WebhookInv, Applying, Reach, history
<1>4. SnapshotInv'
  BY DEF IInv, TypeOK, RequestRecord, SnapshotInv, Ahead, Reach, history, Events,
     Snapshots
<1>5. StampInv'
  BY DEF IInv, TypeOK, RequestRecord, StampInv, Stamped, Reach, history
<1>6. EventInv'
  BY DEF IInv, TypeOK, RequestRecord, EventInv, WebhookInv, Applying, Stamped,
     Reach, history
<1> QED BY <1>1, <1>2, <1>3, <1>4, <1>5, <1>6 DEF IInv

LEMMA CreateCheckoutStep ==
  ASSUME IInv, NEW p \in Requests, CreateCheckout(p)
  PROVE  IInv'
<1>1. TypeOK'
  <2>1. req' \in [Requests -> RequestRecord]
    BY DEF IInv, TypeOK, RequestRecord, Rows, Snapshots, Events, NoRow, Idle,
       CreateCheckout, At, Apply
  <2>2. \A q \in Requests : req'[q].pc \in {"find", "save"} => req'[q].next \in Rows
    BY DEF IInv, TypeOK, RequestRecord, Rows, Snapshots, NoRow, Idle,
       CreateCheckout, At, Apply
  <2>3. QED
    BY <2>1, <2>2, BillingAssumption DEF IInv, TypeOK, CreateCheckout, history,
       bounds, Events, Snapshots, stripe
<1>2. WebhookInv'
  BY DEF IInv, TypeOK, RequestRecord, WebhookInv, Applying, Idle, CreateCheckout,
     At, Apply
<1>3. OnceInv'
  BY DEF IInv, TypeOK, RequestRecord, OnceInv, WebhookInv, Applying, Idle,
     CreateCheckout, history, At, Apply
<1>4. SnapshotInv'
  BY DEF IInv, TypeOK, RequestRecord, SnapshotInv, Ahead, NoRow, Idle,
     CreateCheckout, history, At, Apply
<1>5. StampInv'
  BY DEF IInv, TypeOK, RequestRecord, StampInv, Stamped, NoRow, Idle,
     CreateCheckout, history, At, Apply
<1>6. EventInv'
  BY DEF IInv, TypeOK, RequestRecord, EventInv, WebhookInv, Applying, Stamped, Idle,
     CreateCheckout, history, At, Apply
<1> QED BY <1>1, <1>2, <1>3, <1>4, <1>5, <1>6 DEF IInv

LEMMA GetStatusStep ==
  ASSUME IInv, NEW p \in Requests, GetStatus(p)
  PROVE  IInv'
<1>1. TypeOK'
  <2>1. req' \in [Requests -> RequestRecord]
    BY DEF IInv, TypeOK, RequestRecord, NoRow, Idle, GetStatus, At
  <2>2. \A q \in Requests : req'[q].pc \in {"find", "save"} => req'[q].next \in Rows
    BY DEF IInv, TypeOK, RequestRecord, NoRow, Idle, GetStatus, At
  <2>3. QED
    BY <2>1, <2>2, BillingAssumption DEF IInv, TypeOK, GetStatus, stripe, history,
       bounds
<1>2. WebhookInv'
  BY DEF IInv, TypeOK, RequestRecord, WebhookInv, Applying, Idle, GetStatus, stripe, At
<1>3. OnceInv'
  BY DEF IInv, TypeOK, RequestRecord, OnceInv, WebhookInv, Applying, Idle,
     GetStatus, stripe, history, At
<1>4. SnapshotInv'
  BY DEF IInv, TypeOK, RequestRecord, SnapshotInv, Ahead, NoRow, Idle, GetStatus,
     stripe, history, At
<1>5. StampInv'
  BY DEF IInv, TypeOK, RequestRecord, StampInv, Stamped, NoRow, Idle, GetStatus,
     stripe, history, At
<1>6. EventInv'
  BY DEF IInv, TypeOK, RequestRecord, EventInv, WebhookInv, Applying, Stamped, Idle,
     GetStatus, stripe, history, At
<1> QED BY <1>1, <1>2, <1>3, <1>4, <1>5, <1>6 DEF IInv

LEMMA DeliverStep ==
  ASSUME IInv, NEW p \in Requests, NEW e \in Events, Deliver(p, e)
  PROVE  IInv'
<1>1. TypeOK'
  <2>1. req' \in [Requests -> RequestRecord]
    BY DEF IInv, TypeOK, RequestRecord, NoRow, Idle, Deliver, Arrive, Due, At
  <2>2. \A q \in Requests : req'[q].pc \in {"find", "save"} => req'[q].next \in Rows
    BY DEF IInv, TypeOK, RequestRecord, NoRow, Idle, NoEvent, Deliver, Arrive, Due, At
  <2>3. QED
    BY <2>1, <2>2, BillingAssumption DEF IInv, TypeOK, Deliver, Due, stripe,
       history, bounds
<1>2. WebhookInv'
  BY NoEventIsNew DEF IInv, TypeOK, RequestRecord, WebhookInv, Applying, Idle,
     Deliver, Arrive, Due, stripe, At
<1>3. OnceInv'
  BY NoEventIsNew DEF IInv, TypeOK, RequestRecord, OnceInv, WebhookInv, Applying,
     Idle, Deliver, Arrive, Due, stripe, history, At
<1>4. SnapshotInv'
  BY NoEventIsNew DEF IInv, TypeOK, RequestRecord, SnapshotInv, Ahead, NoRow, Idle,
     Deliver, Arrive, Due, stripe, history, At
<1>5. StampInv'
  BY NoEventIsNew DEF IInv, TypeOK, RequestRecord, StampInv, Stamped, NoRow, Idle,
     Deliver, Arrive, Due, stripe, history, At
<1>6. EventInv'
  BY NoEventIsNew DEF IInv, TypeOK, RequestRecord, EventInv, WebhookInv, Applying,
     Stamped, Idle, Deliver, Arrive, Due, stripe, history, At
<1> QED BY <1>1, <1>2, <1>3, <1>4, <1>5, <1>6 DEF IInv

LEMMA DuplicateStep ==
  ASSUME IInv, NEW p \in Requests, NEW e \in Events, Duplicate(p, e)
  PROVE  IInv'
<1>1. TypeOK'
  <2>1. req' \in [Requests -> RequestRecord]
    BY DEF IInv, TypeOK, RequestRecord, NoRow, Idle, Duplicate, Arrive, At
  <2>2. \A q \in Requests : req'[q].pc \in {"find", "save"} => req'[q].next \in Rows
    BY DEF IInv, TypeOK, RequestRecord, NoRow, Idle, NoEvent, Duplicate, Arrive, At
  <2>3. QED
    BY <2>1, <2>2, BillingAssumption DEF IInv, TypeOK, Duplicate, stripe, history,
       bounds
<1>2. WebhookInv'
  BY NoEventIsNew DEF IInv, TypeOK, RequestRecord, WebhookInv, Applying, Idle,
     Duplicate, Arrive, stripe, At
<1>3. OnceInv'
  BY NoEventIsNew DEF IInv, TypeOK, RequestRecord, OnceInv, WebhookInv, Applying,
     Idle, Duplicate, Arrive, stripe, history, At
<1>4. SnapshotInv'
  BY NoEventIsNew DEF IInv, TypeOK, RequestRecord, SnapshotInv, Ahead, NoRow, Idle,
     Duplicate, Arrive, stripe, history, At
<1>5. StampInv'
  BY NoEventIsNew DEF IInv, TypeOK, RequestRecord, StampInv, Stamped, NoRow, Idle,
     Duplicate, Arrive, stripe, history, At
<1>6. EventInv'
  BY NoEventIsNew DEF IInv, TypeOK, RequestRecord, EventInv, WebhookInv, Applying,
     Stamped, Idle, Duplicate, Arrive, stripe, history, At
<1> QED BY <1>1, <1>2, <1>3, <1>4, <1>5, <1>6 DEF IInv

LEMMA CheckStep ==
  ASSUME IInv, NEW p \in Requests, Check(p)
  PROVE  IInv'
<1>1. TypeOK'
  <2>1. req' \in [Requests -> RequestRecord]
    BY DEF IInv, TypeOK, RequestRecord, Check, Go, At
  <2>2. \A q \in Requests : req'[q].pc \in {"find", "save"} => req'[q].next \in Rows
    BY DEF IInv, TypeOK, RequestRecord, Check, Go, At
  <2>3. QED
    BY <2>1, <2>2, BillingAssumption DEF IInv, TypeOK, Check, stripe, history, bounds
<1>2. WebhookInv'
  BY DEF IInv, TypeOK, RequestRecord, WebhookInv, Applying, Check, Go, stripe, At
<1>3. OnceInv'
  BY DEF IInv, TypeOK, RequestRecord, OnceInv, WebhookInv, Applying, Check, Go,
     stripe, history, At
<1>4. SnapshotInv'
  BY DEF IInv, TypeOK, RequestRecord, SnapshotInv, Ahead, Check, Go, stripe, history, At
<1>5. StampInv'
  BY DEF IInv, TypeOK, RequestRecord, StampInv, WebhookInv, Stamped, NoRow, Check,
     Go, stripe, history, At
<1>6. EventInv'
  BY DEF IInv, TypeOK, RequestRecord, EventInv, WebhookInv, Applying, Stamped,
     Check, Go, stripe, history, At
<1> QED BY <1>1, <1>2, <1>3, <1>4, <1>5, <1>6 DEF IInv

LEMMA RecordStep ==
  ASSUME IInv, NEW p \in Requests, Record(p)
  PROVE  IInv'
<1>1. TypeOK'
  <2>1. req' \in [Requests -> RequestRecord]
    BY DEF IInv, TypeOK, RequestRecord, NoRow, Idle, Record, Go, Finish, At
  <2>2. \A q \in Requests : req'[q].pc \in {"find", "save"} => req'[q].next \in Rows
    BY DEF IInv, TypeOK, RequestRecord, NoRow, Idle, Record, Go, Finish, At
  <2>3. QED
    BY <2>1, <2>2, BillingAssumption DEF IInv, TypeOK, WebhookInv, Record, At,
       stripe, history, bounds
<1>2. WebhookInv'
  BY DEF IInv, TypeOK, RequestRecord, WebhookInv, Applying, Idle, Record, Go,
     Finish, stripe, At
<1>3. OnceInv'
  BY DEF IInv, TypeOK, RequestRecord, OnceInv, WebhookInv, Applying, Idle, Record,
     Go, Finish, stripe, history, At
<1>4. SnapshotInv'
  BY DEF IInv, TypeOK, RequestRecord, SnapshotInv, Ahead, NoRow, Idle, Record, Go,
     Finish, stripe, history, At
<1>5. StampInv'
  BY DEF IInv, TypeOK, RequestRecord, StampInv, Stamped, NoRow, Idle, Record, Go,
     Finish, stripe, history, At
<1>6. EventInv'
  BY DEF IInv, TypeOK, RequestRecord, EventInv, WebhookInv, Applying, Stamped, Idle,
     Record, Go, Finish, stripe, history, At
<1> QED BY <1>1, <1>2, <1>3, <1>4, <1>5, <1>6 DEF IInv

LEMMA LoadStep ==
  ASSUME IInv, NEW p \in Requests, Load(p)
  PROVE  IInv'
<1>1. TypeOK'
  <2>1. req' \in [Requests -> RequestRecord]
    BY DEF IInv, TypeOK, RequestRecord, Rows, Snapshots, Events, NoRow, Idle, Load,
       GoWith, Apply, At
  <2>2. \A q \in Requests : req'[q].pc \in {"find", "save"} => req'[q].next \in Rows
    <3>1. req[p].kind = "webhook" => req[p].event \in Snapshots
      BY DEF IInv, TypeOK, RequestRecord, WebhookInv, Events
    <3>2. QED
      BY <3>1, ApplyType DEF IInv, TypeOK, RequestRecord, Load, GoWith
  <2>3. QED
    BY <2>1, <2>2, BillingAssumption DEF IInv, TypeOK, Load, stripe, history, bounds
<1>2. WebhookInv'
  BY DEF IInv, TypeOK, RequestRecord, WebhookInv, Applying, Load, GoWith, Apply,
     stripe, At
<1>3. OnceInv'
  BY DEF IInv, TypeOK, RequestRecord, OnceInv, WebhookInv, Applying, Load, GoWith,
     Apply, stripe, history, At
<1>4. SnapshotInv'
  BY DEF IInv, TypeOK, RequestRecord, SnapshotInv, Ahead, NoRow, Load, GoWith,
     Apply, stripe, history, At
<1>5. StampInv'
  BY SMTT(30) DEF IInv, TypeOK, RequestRecord, StampInv, Stamped, NoRow, Load,
     GoWith, Apply, stripe, history, At
<1>6. EventInv'
  BY DEF IInv, TypeOK, RequestRecord, EventInv, WebhookInv, Applying, Stamped, Load,
     GoWith, stripe, history, At
<1> QED BY <1>1, <1>2, <1>3, <1>4, <1>5, <1>6 DEF IInv

LEMMA AskGatewayStep ==
  ASSUME IInv, NEW p \in Requests, AskGateway(p)
  PROVE  IInv'
<1>1. TypeOK'
  <2>1. req' \in [Requests -> RequestRecord]
    BY DEF IInv, TypeOK, RequestRecord, Rows, Snapshots, Events, NoRow, Idle,
       WebhookInv, SnapshotInv, AskGateway, GoWith, Finish, Apply, At
  <2>2. \A q \in Requests : req'[q].pc \in {"find", "save"} => req'[q].next \in Rows
    BY DEF IInv, TypeOK, RequestRecord, Rows, Snapshots, Events, NoRow, Idle,
       WebhookInv, SnapshotInv, AskGateway, GoWith, Finish, Apply, At
  <2>3. QED
    BY <2>1, <2>2, BillingAssumption DEF IInv, TypeOK, AskGateway, stripe, bounds,
       history
<1>2. WebhookInv'
  BY DEF IInv, TypeOK, RequestRecord, WebhookInv, Applying, Idle, AskGateway,
     GoWith, Finish, Apply, stripe, At
<1>3. OnceInv'
  <2>1. req[p].event = NoEvent
    BY DEF IInv, WebhookInv, AskGateway, At
  <2>2. \A q \in Requests : Applying(q)' <=> Applying(q) /\ q # p
    BY <2>1 DEF IInv, TypeOK, RequestRecord, Applying, AskGateway, GoWith, Finish, Idle
  <2>3. \A q \in Requests : q # p => req'[q].event = req[q].event
    BY DEF IInv, TypeOK, AskGateway, GoWith, Finish
  <2>4. QED
    BY <2>2, <2>3 DEF IInv, OnceInv, AskGateway
<1>4. SnapshotInv'
  BY DEF IInv, TypeOK, RequestRecord, SnapshotInv, Ahead, NoRow, Idle, AskGateway,
     GoWith, Finish, Apply, stripe, At
<1>5. StampInv'
  BY DEF IInv, TypeOK, RequestRecord, StampInv, Stamped, NoRow, Idle, AskGateway,
     GoWith, Finish, Apply, stripe, At
<1>6. EventInv'
  BY DEF IInv, TypeOK, RequestRecord, EventInv, WebhookInv, Applying, Stamped, Idle,
     AskGateway, GoWith, Finish, Apply, stripe, At
<1> QED BY <1>1, <1>2, <1>3, <1>4, <1>5, <1>6 DEF IInv

LEMMA FindStep ==
  ASSUME IInv, NEW p \in Requests, Find(p)
  PROVE  IInv'
<1>1. TypeOK'
  <2>1. req' \in [Requests -> RequestRecord]
    <3>1. [req[p] EXCEPT !.pc = "save", !.existing = row] \in RequestRecord
      BY DEF IInv, TypeOK, RequestRecord
    <3>2. req' = [req EXCEPT ![p] = [req[p] EXCEPT !.pc = "save", !.existing = row]]
      BY DEF Find
    <3>3. QED BY <3>1, <3>2 DEF IInv, TypeOK
  <2>2. \A q \in Requests : req'[q].pc \in {"find", "save"} => req'[q].next \in Rows
    BY DEF IInv, TypeOK, RequestRecord, Find, At
  <2>3. QED
    BY <2>1, <2>2, BillingAssumption DEF IInv, TypeOK, Find, stripe, history, bounds
<1>2. WebhookInv'
  BY DEF IInv, TypeOK, RequestRecord, WebhookInv, Applying, Find, stripe, At
<1>3. OnceInv'
  BY DEF IInv, TypeOK, RequestRecord, OnceInv, WebhookInv, Applying, Find, stripe,
     history, At
<1>4. SnapshotInv'
  BY DEF IInv, TypeOK, RequestRecord, SnapshotInv, Ahead, Find, stripe, history, At
<1>5. StampInv'
  BY DEF IInv, TypeOK, RequestRecord, StampInv, Stamped, Find, stripe, history, At
<1>6. EventInv'
  BY DEF IInv, TypeOK, RequestRecord, EventInv, WebhookInv, Applying, Stamped, Find,
     stripe, history, At
<1> QED BY <1>1, <1>2, <1>3, <1>4, <1>5, <1>6 DEF IInv

\* The Save that is made, as opposed to the one refused by the unique index
LEMMA SavedStep ==
  ASSUME IInv, NEW p \in Requests, Save(p), ~(req[p].existing = NoRow /\ row # NoRow)
  PROVE  OnceInv' /\ SnapshotInv' /\ StampInv' /\ EventInv'
<1>1. /\ row' = Merge(req[p].existing, req[p].next)
      /\ stale' = (stale \/ req[p].existing # row)
      /\ \A e \in Events : applied'[e] = applied[e] + IF e = req[p].event THEN 1 ELSE 0
      /\ UNCHANGED <<gateway, sent, acked, events, cut, given, told>>
  BY DEF Save, stripe
<1>2. /\ req[p].pc = "save" /\ req'[p].pc = "reply"
      /\ \A q \in Requests :
           /\ q # p => req'[q].pc = req[q].pc
           /\ UNCHANGED <<req[q].kind, req[q].event, req[q].next, req[q].existing>>
  BY DEF IInv, TypeOK, RequestRecord, Save, Go, At
<1>3. /\ row'.state = req[p].next.state
      /\ row'.processed <=> \/ req[p].existing.processed \/ req[p].next.processed
                            \/ req[p].next.state = "paid"
  BY <1>1 DEF Merge
<1>4. req[p].event # NoEvent => Applying(p)
  BY <1>2 DEF Applying
<1>5. OnceInv'
  BY <1>1, <1>2, <1>4, NoEventIsNew DEF IInv, OnceInv, WebhookInv, Applying
<1>6. SnapshotInv'
  BY <1>1, <1>2, <1>3 DEF IInv, SnapshotInv, Ahead
<1>7. Stamped => Stamped'
  BY <1>1, <1>3 DEF Stamped
<1>8. StampInv'
  BY <1>1, <1>2, <1>3, <1>7 DEF IInv, StampInv, Stamped
<1>9. EventInv'
  BY <1>1, <1>2, <1>3, <1>4, <1>7 DEF IInv, EventInv, WebhookInv, Applying, Stamped
<1>10. QED BY <1>5, <1>6, <1>8, <1>9

LEMMA SaveStep ==
  ASSUME IInv, NEW p \in Requests, Save(p)
  PROVE  IInv'
<1>1. TypeOK'
  <2>1. req' \in [Requests -> RequestRecord]
    BY DEF IInv, TypeOK, RequestRecord, NoRow, Idle, Save, Go, Finish, Merge, At
  <2>2. \A q \in Requests : req'[q].pc \in {"find", "save"} => req'[q].next \in Rows
    BY DEF IInv, TypeOK, RequestRecord, NoRow, Idle, Save, Go, Finish, Merge, At
  <2>3. QED
    <3>1. row' \in Rows \cup {NoRow}
      <4>1. Merge(req[p].existing, req[p].next) \in Rows
        BY DEF IInv, TypeOK, Save, At, Merge, Rows
      <4>2. row' \in {row, Merge(req[p].existing, req[p].next)}
        BY DEF Save
      <4>3. QED BY <4>1, <4>2 DEF IInv, TypeOK
    <3>2. applied' \in [Events -> Nat]
      BY DEF IInv, TypeOK, Save, At
    <3>3. cut' \subseteq events
      BY DEF IInv, TypeOK, WebhookInv, Applying, Save, At, Lose
    <3>4. QED
      BY <2>1, <2>2, <3>1, <3>2, <3>3 DEF IInv, TypeOK, Save, stripe, bounds
<1>2. WebhookInv'
  BY DEF IInv, TypeOK, RequestRecord, WebhookInv, Applying, Idle, Save, Go, Finish,
     Lose, Merge, stripe, At
<1>3. OnceInv'
  <2>1. CASE req[p].existing = NoRow /\ row # NoRow
    BY <2>1 DEF IInv, TypeOK, RequestRecord, OnceInv, WebhookInv, Applying, Idle,
       Save, Finish, Lose, stripe, At
  <2>2. CASE ~(req[p].existing = NoRow /\ row # NoRow)
    BY <2>2, SavedStep
  <2>3. QED BY <2>1, <2>2
<1>4. SnapshotInv'
  <2>1. CASE req[p].existing = NoRow /\ row # NoRow
    BY <2>1 DEF IInv, TypeOK, RequestRecord, SnapshotInv, Ahead, NoRow, Idle, Save,
       Finish, Lose, stripe, At
  <2>2. CASE ~(req[p].existing = NoRow /\ row # NoRow)
    BY <2>2, SavedStep
  <2>3. QED BY <2>1, <2>2
<1>5. StampInv'
  <2>1. CASE req[p].existing = NoRow /\ row # NoRow
    BY <2>1 DEF IInv, TypeOK, RequestRecord, StampInv, Stamped, NoRow, Idle, Save,
       Finish, Lose, stripe, At
  <2>2. CASE ~(req[p].existing = NoRow /\ row # NoRow)
    BY <2>2, SavedStep
  <2>3. QED BY <2>1, <2>2
<1>6. EventInv'
  <2>1. CASE req[p].existing = NoRow /\ row # NoRow
    BY <2>1 DEF IInv, TypeOK, RequestRecord, EventInv, WebhookInv, Applying,
       Stamped, Idle, Save, Finish, Lose, stripe, At
  <2>2. CASE ~(req[p].existing = NoRow /\ row # NoRow)
    BY <2>2, SavedStep
  <2>3. QED BY <2>1, <2>2
<1> QED BY <1>1, <1>2, <1>3, <1>4, <1>5, <1>6 DEF IInv

LEMMA ReplyStep ==
  ASSUME IInv, NEW p \in Requests, Reply(p)
  PROVE  IInv'
<1>1. TypeOK'
  <2>1. req' \in [Requests -> RequestRecord]
    BY DEF IInv, TypeOK, RequestRecord, NoRow, Idle, Reply, Finish, At
  <2>2. \A q \in Requests : req'[q].pc \in {"find", "save"} => req'[q].next \in Rows
    BY DEF IInv, TypeOK, RequestRecord, NoRow, Idle, Reply, Finish, At
  <2>3. QED
    <3>1. acked' \subseteq sent
      BY DEF IInv, TypeOK, WebhookInv, Reply, At
    <3>2. {given', told'} \subseteq BOOLEAN
      BY DEF IInv, TypeOK, Reply, At
    <3>3. QED
      BY <2>1, <2>2, <3>1, <3>2 DEF IInv, TypeOK, Reply, bounds
<1>2. WebhookInv'
  BY DEF IInv, TypeOK, RequestRecord, WebhookInv, Applying, Idle, Reply, Finish, At
<1>3. OnceInv'
  BY DEF IInv, TypeOK, RequestRecord, OnceInv, WebhookInv, Applying, Idle, Reply,
     Finish, At
<1>4. SnapshotInv'
  BY DEF IInv, TypeOK, RequestRecord, SnapshotInv, Ahead, NoRow, Idle, Reply, Finish, At
<1>5. StampInv'
  BY DEF IInv, TypeOK, RequestRecord, StampInv, Stamped, NoRow, Idle, Reply, Finish, At
<1>6. EventInv'
  BY DEF IInv, TypeOK, RequestRecord, EventInv, WebhookInv, Applying, Stamped, Idle,
     Reply, Finish, At
<1> QED BY <1>1, <1>2, <1>3, <1>4, <1>5, <1>6 DEF IInv

LEMMA FailStep ==
  ASSUME IInv, NEW p \in Requests, Fail(p)
  PROVE  IInv'
<1>1. TypeOK'
  <2>1. req' \in [Requests -> RequestRecord]
    BY DEF IInv, TypeOK, RequestRecord, NoRow, Idle, Fail, Finish, At
  <2>2. \A q \in Requests : req'[q].pc \in {"find", "save"} => req'[q].next \in Rows
    BY DEF IInv, TypeOK, RequestRecord, NoRow, Idle, Fail, Finish, At
  <2>3. QED
    BY <2>1, <2>2, BillingAssumption, UnsavedRecorded DEF IInv, TypeOK, Fail,
       stripe, history, bounds
<1>2. WebhookInv'
  BY DEF IInv, TypeOK, RequestRecord, WebhookInv, Applying, Idle, Fail, Finish,
     Unsaved, stripe, At
<1>3. OnceInv'
  BY DEF IInv, TypeOK, RequestRecord, OnceInv, WebhookInv, Applying, Idle, Fail,
     Finish, Unsaved, stripe, At
<1>4. SnapshotInv'
  BY DEF IInv, TypeOK, RequestRecord, SnapshotInv, Ahead, NoRow, Idle, Fail, Finish,
     Unsaved, stripe, At
<1>5. StampInv'
  BY DEF IInv, TypeOK, RequestRecord, StampInv, Stamped, NoRow, Idle, Fail, Finish,
     Unsaved, stripe, At
<1>6. EventInv'
  BY DEF IInv, TypeOK, RequestRecord, EventInv, WebhookInv, Applying, Stamped, Idle,
     Fail, Finish, Unsaved, stripe, At
<1> QED BY <1>1, <1>2, <1>3, <1>4, <1>5, <1>6 DEF IInv

LEMMA CrashStep ==
  ASSUME IInv, Crash
  PROVE  IInv'
<1>1. TypeOK'
  <2>1. req' \in [Requests -> RequestRecord]
    BY DEF IInv, TypeOK, RequestRecord, NoRow, Idle, Crash
  <2>2. \A q \in Requests : req'[q].pc \in {"find", "save"} => req'[q].next \in Rows
    BY DEF IInv, TypeOK, RequestRecord, NoRow, Idle, Crash
  <2>3. QED
    BY <2>1, <2>2, BillingAssumption, UnsavedRecorded DEF IInv, TypeOK, Crash,
       stripe, history, bounds
<1>2. WebhookInv'
  BY DEF IInv, TypeOK, RequestRecord, WebhookInv, Applying, Idle, Crash, Unsaved, stripe
<1>3. OnceInv'
  BY DEF IInv, TypeOK, RequestRecord, OnceInv, WebhookInv, Applying, Idle, Crash,
     Unsaved, stripe
<1>4. SnapshotInv'
  BY DEF IInv, TypeOK, RequestRecord, SnapshotInv, Ahead, NoRow, Idle, Crash,
     Unsaved, stripe
<1>5. StampInv'
  BY DEF IInv, TypeOK, RequestRecord, StampInv, Stamped, NoRow, Idle, Crash,
     Unsaved, stripe
<1>6. EventInv'
  BY DEF IInv, TypeOK, RequestRecord, EventInv, WebhookInv, Applying, Stamped, Idle,
     Crash, Unsaved, stripe
<1> QED BY <1>1, <1>2, <1>3, <1>4, <1>5, <1>6 DEF IInv

-----------------------------------------------------------------------------
(* Theorems *)

LEMMA InitIInv == Init => IInv
<1> SUFFICES ASSUME Init PROVE IInv
  OBVIOUS
<1>1. TypeOK
  <2>1. req \in [Requests -> RequestRecord]
    BY DEF Init, RequestRecord, Idle, NoRow
  <2>2. given \in BOOLEAN
    BY DEF Init
  <2>3. /\ polls \in 0..MaxPolls /\ duplicates \in 0..MaxDuplicates
        /\ trouble \in 0..MaxTrouble
    BY BillingAssumption DEF Init
  <2>4. \A p \in Requests : req[p].pc \notin {"find", "save"}
    BY DEF Init, Idle
  <2>5. gateway \in Snapshots \cup {"none"} /\ applied \in [Events -> Nat]
    BY DEF Init, Snapshots
  <2>6. QED
    BY <2>1, <2>2, <2>3, <2>4, <2>5 DEF Init, TypeOK
<1>2. WebhookInv
  BY DEF Init, WebhookInv, Applying, Idle
<1>3. OnceInv
  BY DEF Init, OnceInv, Applying, Idle
<1>4. SnapshotInv
  BY DEF Init, SnapshotInv, Ahead, Idle, NoRow
<1>5. StampInv
  BY DEF Init, StampInv, Idle, NoRow
<1>6. EventInv
  BY DEF Init, EventInv
<1>7. QED BY <1>1, <1>2, <1>3, <1>4, <1>5, <1>6 DEF IInv

LEMMA StutterIInv == IInv /\ UNCHANGED vars => IInv'
BY DEF IInv, TypeOK, WebhookInv, OnceInv, SnapshotInv, StampInv, EventInv, Applying,
       Ahead, Stamped, vars

LEMMA StepIInv == IInv /\ [Next]_vars => IInv'
<1> SUFFICES ASSUME IInv, [Next]_vars PROVE IInv'
  OBVIOUS
<1>1. CASE Pay
  BY <1>1, ReachStep DEF Pay, Events, Snapshots
<1>2. CASE Complete
  BY <1>2, ReachStep DEF Complete, Events, Snapshots
<1>3. CASE Expire
  BY <1>3, ReachStep DEF Expire, Events, Snapshots
<1>4. CASE Crash
  BY <1>4, CrashStep
<1>5. ASSUME NEW p \in Requests, CreateCheckout(p) \/ GetStatus(p) \/ Handle(p) \/ Fail(p)
      PROVE  IInv'
  BY <1>5, CreateCheckoutStep, GetStatusStep, CheckStep, RecordStep, LoadStep,
     AskGatewayStep, FindStep, SaveStep, ReplyStep, FailStep DEF Handle
<1>6. ASSUME NEW p \in Requests, NEW e \in Events, Deliver(p, e) \/ Duplicate(p, e)
      PROVE  IInv'
  BY <1>6, DeliverStep, DuplicateStep
<1>7. CASE UNCHANGED vars
  BY <1>7, StutterIInv
<1>8. QED BY <1>1, <1>2, <1>3, <1>4, <1>5, <1>6, <1>7 DEF Next

LEMMA Invariance == Spec => []IInv
BY InitIInv, StepIInv, PTL DEF Spec

\* Types, for the requests under way as well as for the stored row.
THEOREM TypeCorrect == Spec => []TypeOK
<1>1. IInv => TypeOK
  BY DEF IInv
<1>2. QED BY <1>1, Invariance, PTL

\* HandleStripeWebhook applies no event to the row twice, whatever Stripe
\* repeats and however the deliveries overlap.
THEOREM EventsAppliedOnce == Spec => []AppliedOnce
<1>1. IInv => AppliedOnce
  BY DEF IInv, OnceInv, AppliedOnce
<1>2. QED BY <1>1, Invariance, PTL

\* No order of polls, webhooks and retries marks a session as paid, or stamps
\* processed_at, before it has been paid at Stripe.
THEOREM NeverAheadOfStripe == Spec => []PaidAtStripe
<1>1. IInv => PaidAtStripe
  BY DEF IInv, SnapshotInv, Ahead, PaidAtStripe
<1>2. QED BY <1>1, Invariance, PTL

\* The payment the page or Stripe was told of has its processed_at, but for a
\* stale Save of upsertTransaction and a webhook that ended half-way.
THEOREM ToldIsRecorded == Spec => []PaidIsRecorded
<1>1. IInv => PaidIsRecorded
  BY DEF IInv, StampInv, EventInv, Stamped, Applying, PaidIsRecorded
<1>2. QED BY <1>1, Invariance, PTL
=============================================================================
